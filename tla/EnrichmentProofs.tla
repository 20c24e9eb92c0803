--------------------------- MODULE EnrichmentProofs ---------------------------
(***************************************************************************)
(* Proofs about Enrichment, for any finite number of articles, any batches *)
(* and limit, and whatever the providers, Redis and the encoder do.        *)
(***************************************************************************)
EXTENDS Enrichment, FiniteSetTheorems, TLAPS

Busy == Steps \ {"off", "next"}

\* Unless two have overlapped, one batch at most is open.
Alone ==
    "overlap" \notin mishaps =>
        \A b, c \in Batches : b # c => step[b] = "off" \/ step[c] = "off"

\* A batch takes an article once, and ai_data is that of its article.
BatchOK(b) ==
    /\ step[b] = "off" => queue[b] = {}
    /\ step[b] \in {"off", "next", "gemini", "groq"} => answer[b] = "none"
    /\ step[b] = "save" => answer[b] # "none"
    /\ step[b] \in Busy => current[b] \in Articles /\ current[b] \notin queue[b]
    /\ step[b] \in {"gemini", "groq", "cache", "save"} => current[b] \notin wrote[b].ai
    /\ step[b] = "embed" => (answer[b] # "none" <=> current[b] \in wrote[b].ai)
    /\ \A a \in queue[b] : a \notin wrote[b].ai

\* The rows a batch has written for an article belong to one answer.
WroteOK(b) ==
    \A a \in Articles :
        /\ a \in wrote[b].ai => \/ wrote[b].emb[a] = "summary"
                                \/ step[b] = "embed" /\ current[b] = a
                                \/ "encoder" \in mishaps
        /\ wrote[b].emb[a] = "summary" => a \in wrote[b].ai
        /\ wrote[b].tags[a] # "none" => wrote[b].emb[a] # "none"
        /\ wrote[b].tags[a] = "summary" => a \in wrote[b].ai

\* Unless two have overlapped, a batch has no article that has its row already.
FreshOK(b) ==
    "overlap" \notin mishaps =>
        \A a \in ai :
            /\ a \notin queue[b] /\ a \notin wrote[b].ai
            /\ step[b] \in Busy => current[b] # a
            /\ wrote[b].emb[a] = "none"

\* A provider is asked for what has not been answered; an answer is in the cache, or the
\* batch that has it is about to put it there.
AskedOK ==
    mishaps \cap Excuses = {} =>
        /\ \A t \in Texts :
             \/ asked[t] = 0
             \/ /\ asked[t] = 1
                /\ \/ cache[t] # "none"
                   \/ \E b \in Batches : /\ step[b] = "cache" /\ Text(current[b]) = t
                                         /\ answer[b] # "none"
        /\ \A b \in Batches :
             /\ step[b] \in {"gemini", "groq"} => asked[Text(current[b])] = 0
             /\ step[b] \in {"gemini", "groq", "cache"} => cache[Text(current[b])] = "none"

RowsOK == EmbeddedWithAnswer /\ SummaryIsEmbedded /\ TagsHaveTheirSource

EInv ==
    /\ TypeOK
    /\ Alone
    /\ \A b \in Batches : BatchOK(b) /\ WroteOK(b) /\ FreshOK(b)
    /\ RowsOK
    /\ AskedOK

\* What a step of batch b leaves of the others.
Only(b) ==
    \A c \in Batches \ {b} :
        /\ step'[c] = step[c] /\ queue'[c] = queue[c] /\ current'[c] = current[c]
        /\ answer'[c] = answer[c] /\ wrote'[c] = wrote[c]

\* The rows of an uncommitted batch.
Written == [ai: SUBSET Articles, emb: [Articles -> Inputs], tags: [Articles -> Inputs]]

\* A step of a batch that leaves the committed rows has to keep what is about it.
LEMMA Local ==
  ASSUME EInv, NEW b \in Batches, TypeOK', Only(b), UNCHANGED rows, mishaps \subseteq mishaps',
         BatchOK(b)', WroteOK(b)', FreshOK(b)', AskedOK',
         step[b] = "off" => step'[b] = "off"
  PROVE  EInv'
  <1>1. Alone'
    BY DEF EInv, Alone, Only
  <1>2. ASSUME NEW c \in Batches PROVE BatchOK(c)' /\ WroteOK(c)' /\ FreshOK(c)'
    <2>1. CASE c = b
      BY <2>1
    <2>2. CASE c # b
      <3>1. /\ step'[c] = step[c] /\ queue'[c] = queue[c] /\ current'[c] = current[c]
            /\ answer'[c] = answer[c] /\ wrote'[c] = wrote[c]
        BY <2>2 DEF Only
      <3>2. BatchOK(c)'
        BY <3>1 DEF EInv, BatchOK
      <3>3. WroteOK(c)'
        BY <3>1 DEF EInv, WroteOK
      <3>4. FreshOK(c)'
        BY <3>1 DEF EInv, FreshOK, rows
      <3>. QED BY <3>2, <3>3, <3>4
    <2>. QED BY <2>1, <2>2
  <1>3. RowsOK'
    BY DEF EInv, RowsOK, EmbeddedWithAnswer, SummaryIsEmbedded, TagsHaveTheirSource, rows
  <1>. QED BY <1>1, <1>2, <1>3 DEF EInv

\* AskedOK is about the texts and the batches that ask.
LEMMA AskKeeps ==
  ASSUME EInv, NEW b \in Batches, Only(b), UNCHANGED <<cache, asked>>, mishaps \subseteq mishaps',
         "cache" \notin {step[b], step'[b]} \/ mishaps' \cap Excuses # {},
         step'[b] \in {"gemini", "groq"} =>
            \/ step[b] \in {"gemini", "groq"} /\ current'[b] = current[b]
            \/ asked[Text(current'[b])] = 0 /\ cache[Text(current'[b])] = "none"
            \/ mishaps' \cap Excuses # {}
  PROVE  AskedOK'
  <1>. SUFFICES ASSUME mishaps' \cap Excuses = {} PROVE AskedOK'
    BY DEF AskedOK
  <1>1. mishaps \cap Excuses = {} /\ step[b] # "cache" /\ step'[b] # "cache"
    OBVIOUS
  <1>2. ASSUME NEW t \in Texts, asked'[t] # 0
        PROVE  /\ asked'[t] = 1
               /\ \/ cache'[t] # "none"
                  \/ \E c \in Batches : /\ step'[c] = "cache" /\ Text(current'[c]) = t
                                        /\ answer'[c] # "none"
    <2>1. asked[t] = 1
      BY <1>1, <1>2 DEF EInv, AskedOK
    <2>2. CASE cache[t] # "none"
      BY <2>1, <2>2
    <2>3. CASE cache[t] = "none"
      <3>1. PICK c \in Batches : step[c] = "cache" /\ Text(current[c]) = t /\ answer[c] # "none"
        BY <1>1, <1>2, <2>3 DEF EInv, AskedOK
      <3>2. c # b
        BY <1>1, <3>1
      <3>. QED BY <2>1, <3>1, <3>2 DEF Only
    <2>. QED BY <2>2, <2>3
  <1>3. ASSUME NEW c \in Batches, step'[c] \in {"gemini", "groq"}
        PROVE  asked'[Text(current'[c])] = 0 /\ cache'[Text(current'[c])] = "none"
    BY <1>1, <1>3 DEF EInv, AskedOK, Only
  <1>4. ASSUME NEW c \in Batches, step'[c] = "cache"
        PROVE  cache'[Text(current'[c])] = "none"
    BY <1>1, <1>4 DEF EInv, AskedOK, Only
  <1>. QED BY <1>2, <1>3, <1>4 DEF AskedOK

\* The end of a batch, however it ends.
LEMMA EndTyped ==
  ASSUME EInv, NEW b \in Batches, EndBatch(b), UNCHANGED <<cache, asked>>,
         mishaps' \subseteq Mishaps,
         ai' \subseteq Articles, emb' \in [Articles -> Inputs], tags' \in [Articles -> Inputs]
  PROVE  TypeOK' /\ Only(b) /\ BatchOK(b)' /\ WroteOK(b)' /\ FreshOK(b)'
  <1>1. /\ step' = [step EXCEPT ![b] = "off"] /\ queue' = [queue EXCEPT ![b] = {}]
        /\ current' = [current EXCEPT ![b] = "none"] /\ answer' = [answer EXCEPT ![b] = "none"]
        /\ aborted' = [aborted EXCEPT ![b] = FALSE] /\ wrote' = [wrote EXCEPT ![b] = Nothing]
    BY DEF EndBatch, GoTo
  <1>2. TypeOK'
    <2>1. Cardinality({}) = 0 /\ Limit \in Nat
      BY FS_EmptySet, EnrichmentAssumption
    <2>2. Nothing \in Written
      BY DEF Nothing, Written, Untouched, Inputs
    <2>3. wrote' \in [Batches -> Written]
      BY <1>1, <2>2 DEF EInv, TypeOK, Written
    <2>4. \A c \in Batches : Cardinality(queue'[c]) <= Limit
      BY <1>1, <2>1 DEF EInv, TypeOK
    <2>5. \A c \in Batches : step'[c] = "off" => wrote'[c] = Nothing /\ ~aborted'[c]
      BY <1>1 DEF EInv, TypeOK
    <2>. QED BY <1>1, <2>3, <2>4, <2>5 DEF EInv, TypeOK, Written, Steps
  <1>3. Only(b)
    BY <1>1 DEF Only, EInv, TypeOK
  <1>4. /\ step'[b] = "off" /\ queue'[b] = {} /\ answer'[b] = "none"
        /\ \A a \in Articles : /\ a \notin wrote'[b].ai
                               /\ wrote'[b].emb[a] = "none" /\ wrote'[b].tags[a] = "none"
    BY <1>1 DEF EInv, TypeOK, Nothing, Untouched
  <1>. QED BY <1>2, <1>3, <1>4 DEF BatchOK, WroteOK, FreshOK, Busy

LEMMA EndKeeps ==
  ASSUME EInv, NEW b \in Batches, EndBatch(b), UNCHANGED <<rows, cache, asked>>,
         mishaps' = mishaps \cup IF step[b] = "cache" THEN {"unsaved"} ELSE {}
  PROVE  EInv'
  <1>0. mishaps' \subseteq Mishaps /\ mishaps \subseteq mishaps'
        /\ (step[b] = "cache" => mishaps' \cap Excuses # {})
    BY DEF EInv, TypeOK, Mishaps, Excuses
  <1>1. TypeOK' /\ Only(b) /\ BatchOK(b)' /\ WroteOK(b)' /\ FreshOK(b)'
    BY <1>0, EndTyped DEF EInv, TypeOK, rows
  <1>2. step'[b] = "off"
    BY DEF EndBatch, GoTo, EInv, TypeOK
  <1>3. AskedOK'
    BY <1>0, <1>1, <1>2, AskKeeps
  <1>. QED BY <1>0, <1>1, <1>2, <1>3, Local

\* A COMMIT publishes rows that belong together; unless two batches have overlapped,
\* they are rows of articles that had none.
LEMMA FinishKeeps == ASSUME EInv, NEW b \in Batches, Finish(b) PROVE EInv'
  <1>1. /\ step[b] = "next" /\ queue[b] = {} /\ EndBatch(b)
        /\ UNCHANGED <<cache, asked, mishaps>>
    BY DEF Finish
  <1>2. CASE aborted[b]
    BY <1>1, <1>2, EndKeeps DEF Finish
  <1>3. CASE ~aborted[b]
    <2>1. /\ ai' = ai \cup wrote[b].ai
          /\ emb' = Overwrite(emb, wrote[b].emb) /\ tags' = Overwrite(tags, wrote[b].tags)
      BY <1>3 DEF Finish
    <2>2. /\ wrote[b].ai \subseteq Articles
          /\ wrote[b].emb \in [Articles -> Inputs] /\ wrote[b].tags \in [Articles -> Inputs]
      BY DEF EInv, TypeOK
    <2>3. \A a \in Articles :
            /\ emb'[a] = IF wrote[b].emb[a] = "none" THEN emb[a] ELSE wrote[b].emb[a]
            /\ tags'[a] = IF wrote[b].tags[a] = "none" THEN tags[a] ELSE wrote[b].tags[a]
      BY <2>1 DEF Overwrite
    <2>4. /\ ai' \subseteq Articles
          /\ emb' \in [Articles -> Inputs] /\ tags' \in [Articles -> Inputs]
      BY <2>1, <2>2 DEF Overwrite, EInv, TypeOK
    <2>5. TypeOK' /\ Only(b) /\ BatchOK(b)' /\ WroteOK(b)' /\ FreshOK(b)'
      BY <1>1, <2>4, EndTyped DEF EInv, TypeOK
    <2>6. step'[b] = "off"
      BY <1>1 DEF EndBatch, GoTo, EInv, TypeOK
    <2>7. Alone'
      BY <1>1, <2>5, <2>6 DEF EInv, Alone, Only
    <2>8. ASSUME NEW c \in Batches, c # b PROVE BatchOK(c)' /\ WroteOK(c)' /\ FreshOK(c)'
      <3>1. /\ step'[c] = step[c] /\ queue'[c] = queue[c] /\ current'[c] = current[c]
            /\ answer'[c] = answer[c] /\ wrote'[c] = wrote[c]
        BY <2>5, <2>8 DEF Only
      <3>2. BatchOK(c)'
        BY <3>1 DEF EInv, BatchOK
      <3>3. WroteOK(c)'
        BY <1>1, <3>1 DEF EInv, WroteOK
      <3>4. FreshOK(c)'
        <4>1. CASE step[c] = "off"
          <5>1. /\ queue[c] = {} /\ wrote[c].ai = {} /\ wrote[c].emb = Untouched
            BY <4>1 DEF EInv, TypeOK, BatchOK, Nothing
          <5>. QED BY <2>4, <3>1, <4>1, <5>1 DEF FreshOK, Busy, Untouched
        <4>2. CASE "overlap" \in mishaps
          BY <1>1, <4>2 DEF FreshOK
        <4>. QED BY <1>1, <2>8, <4>1, <4>2 DEF EInv, Alone
      <3>. QED BY <3>2, <3>3, <3>4
    <2>9. \A a \in Articles :
            /\ a \in wrote[b].ai => wrote[b].emb[a] = "summary" \/ "encoder" \in mishaps
            /\ wrote[b].tags[a] # "none" => wrote[b].emb[a] # "none"
            /\ wrote[b].tags[a] = "summary" => a \in wrote[b].ai
            /\ "overlap" \notin mishaps /\ a \in ai => wrote[b].emb[a] = "none"
      BY <1>1 DEF EInv, WroteOK, FreshOK
    <2>10. EmbeddedWithAnswer'
      BY <1>1, <2>1, <2>2, <2>3, <2>9 DEF EInv, RowsOK, EmbeddedWithAnswer, TypeOK
    <2>11. SummaryIsEmbedded'
      BY <1>1, <2>1, <2>2, <2>3, <2>9 DEF EInv, RowsOK, SummaryIsEmbedded, TypeOK
    <2>12. TagsHaveTheirSource'
      BY <1>1, <2>1, <2>3, <2>9 DEF EInv, RowsOK, TagsHaveTheirSource
    <2>13. AskedOK'
      BY <1>1, <2>5, <2>6, AskKeeps
    <2>. QED BY <2>5, <2>7, <2>8, <2>10, <2>11, <2>12, <2>13 DEF EInv, RowsOK
  <1>. QED BY <1>2, <1>3

\* A batch begins with articles that have no row.
LEMMA StartKeeps == ASSUME EInv, NEW b \in Batches, Start(b) PROVE EInv'
  <1>1. PICK q \in Missing :
          /\ step[b] = "off" /\ step' = [step EXCEPT ![b] = "next"]
          /\ queue' = [queue EXCEPT ![b] = q]
    BY DEF Start, GoTo
  <1>2. /\ UNCHANGED <<rows, cache, current, answer, aborted, wrote, asked>>
        /\ mishaps' = mishaps \cup IF \E c \in Batches : step[c] # "off" THEN {"overlap"} ELSE {}
    BY DEF Start
  <1>3. q \subseteq Articles \ ai /\ Cardinality(q) <= Limit
    <2>1. /\ IsFiniteSet(Articles \ ai) /\ Limit \in Nat
      BY FS_Subset, EnrichmentAssumption
    <2>2. Cardinality(Articles \ ai) \in Nat
      BY <2>1, FS_CardinalityType
    <2>. QED BY <2>1, <2>2 DEF Missing, Newest
  <1>4. TypeOK'
    <2>1. queue' \in [Batches -> SUBSET Articles]
      BY <1>1, <1>3 DEF EInv, TypeOK
    <2>2. \A c \in Batches : Cardinality(queue'[c]) <= Limit
      BY <1>1, <1>3 DEF EInv, TypeOK
    <2>3. mishaps' \subseteq Mishaps
      BY <1>2 DEF EInv, TypeOK, Mishaps
    <2>4. step' \in [Batches -> Steps] /\ \A c \in Batches : step'[c] = "off" => step[c] = "off"
      BY <1>1 DEF EInv, TypeOK, Steps
    <2>. QED BY <1>2, <2>1, <2>2, <2>3, <2>4 DEF EInv, TypeOK, rows
  <1>5. Only(b)
    BY <1>1, <1>2 DEF Only, EInv, TypeOK
  <1>6. /\ step'[b] = "next" /\ queue'[b] = q /\ current'[b] = current[b]
        /\ answer'[b] = "none" /\ wrote'[b] = wrote[b]
        /\ \A a \in Articles : /\ a \notin wrote[b].ai
                               /\ wrote[b].emb[a] = "none" /\ wrote[b].tags[a] = "none"
    BY <1>1, <1>2 DEF EInv, TypeOK, BatchOK, Nothing, Untouched
  <1>7. BatchOK(b)' /\ WroteOK(b)'
    BY <1>3, <1>6 DEF BatchOK, WroteOK, Busy
  <1>8. FreshOK(b)'
    BY <1>2, <1>3, <1>6 DEF FreshOK, Busy, rows, EInv, TypeOK
  <1>9. AskedOK'
    BY <1>1, <1>2, <1>5, <1>6, AskKeeps
  <1>10. Alone'
    BY <1>2, <1>5 DEF Alone, Only, EInv
  <1>11. ASSUME NEW c \in Batches, c # b PROVE BatchOK(c)' /\ WroteOK(c)' /\ FreshOK(c)'
    <2>1. /\ step'[c] = step[c] /\ queue'[c] = queue[c] /\ current'[c] = current[c]
          /\ answer'[c] = answer[c] /\ wrote'[c] = wrote[c]
      BY <1>5, <1>11 DEF Only
    <2>2. BatchOK(c)'
      BY <2>1 DEF EInv, BatchOK
    <2>3. WroteOK(c)'
      BY <1>2, <2>1 DEF EInv, WroteOK
    <2>4. FreshOK(c)'
      BY <1>2, <2>1 DEF EInv, FreshOK, rows
    <2>. QED BY <2>2, <2>3, <2>4
  <1>12. RowsOK'
    BY <1>2 DEF EInv, RowsOK, EmbeddedWithAnswer, SummaryIsEmbedded, TagsHaveTheirSource, rows
  <1>. QED BY <1>4, <1>7, <1>8, <1>9, <1>10, <1>11, <1>12 DEF EInv

\* The next article leaves the queue, and a provider is asked only when the cache missed.
LEMMA TakeKeeps == ASSUME EInv, NEW b \in Batches, Take(b) PROVE EInv'
  <1>1. PICK a \in queue[b] :
          /\ queue' = [queue EXCEPT ![b] = @ \ {a}]
          /\ current' = [current EXCEPT ![b] = a]
          /\ LookUp(b, cache[Text(a)])
    BY DEF Take
  <1>2. step[b] = "next" /\ UNCHANGED <<rows, cache, aborted, wrote, asked>>
    BY DEF Take
  <1>3. a \in Articles /\ cache[Text(a)] \in Kinds \cup {"none"} /\ "none" \notin Kinds
    BY DEF EInv, TypeOK, Texts, Kinds
  <1>4. PICK s \in {"save", "gemini"}, x \in Kinds \cup {"none"} :
          /\ step' = [step EXCEPT ![b] = s] /\ answer' = [answer EXCEPT ![b] = x]
          /\ s = "save" <=> x # "none"
          /\ s = "gemini" => cache[Text(a)] = "none" \/ "redis" \in mishaps'
    <2>1. CASE cache[Text(a)] # "none" /\ step' = [step EXCEPT ![b] = "save"]
                /\ answer' = [answer EXCEPT ![b] = cache[Text(a)]]
      BY <1>3, <2>1
    <2>2. CASE /\ cache[Text(a)] = "none" \/ "redis" \in mishaps'
               /\ step' = [step EXCEPT ![b] = "gemini"] /\ answer' = answer
      <3>1. answer' = [answer EXCEPT ![b] = "none"]
        BY <1>2, <2>2 DEF EInv, TypeOK, BatchOK
      <3>. QED BY <2>2, <3>1
    <2>. QED BY <1>1, <2>1, <2>2 DEF LookUp, GoTo
  <1>5. mishaps \subseteq mishaps' /\ mishaps' \subseteq mishaps \cup {"redis"}
    BY <1>1 DEF LookUp
  <1>6. TypeOK'
    <2>1. queue' \in [Batches -> SUBSET Articles]
      BY <1>1 DEF EInv, TypeOK
    <2>2. \A c \in Batches : Cardinality(queue'[c]) <= Limit
      <3>1. \A c \in Batches : queue'[c] \subseteq queue[c] /\ queue[c] \subseteq Articles
        BY <1>1 DEF EInv, TypeOK
      <3>2. \A c \in Batches : IsFiniteSet(queue[c])
        BY <3>1, FS_Subset, EnrichmentAssumption
      <3>3. ASSUME NEW c \in Batches PROVE Cardinality(queue'[c]) <= Limit
        <4>1. /\ Cardinality(queue'[c]) <= Cardinality(queue[c])
              /\ Cardinality(queue'[c]) \in Nat /\ Cardinality(queue[c]) \in Nat
          BY <3>1, <3>2, FS_Subset, FS_CardinalityType
        <4>2. Cardinality(queue[c]) <= Limit /\ Limit \in Nat
          BY EnrichmentAssumption DEF EInv, TypeOK
        <4>. QED BY <4>1, <4>2
      <3>. QED BY <3>3
    <2>3. current' \in [Batches -> Articles \cup {"none"}]
      BY <1>1, <1>3 DEF EInv, TypeOK
    <2>4. step' \in [Batches -> Steps] /\ \A c \in Batches : step'[c] = "off" => step[c] = "off"
      BY <1>4 DEF EInv, TypeOK, Steps
    <2>5. answer' \in [Batches -> Kinds \cup {"none"}] /\ mishaps' \subseteq Mishaps
      BY <1>4, <1>5 DEF EInv, TypeOK, Mishaps
    <2>. QED BY <1>2, <2>1, <2>2, <2>3, <2>4, <2>5 DEF EInv, TypeOK, rows
  <1>7. Only(b)
    BY <1>1, <1>2, <1>4 DEF Only, EInv, TypeOK
  <1>8. /\ step'[b] = s /\ queue'[b] = queue[b] \ {a} /\ current'[b] = a
        /\ answer'[b] = x /\ wrote'[b] = wrote[b]
    BY <1>1, <1>2, <1>4 DEF EInv, TypeOK
  <1>9. BatchOK(b)'
    <2>1. a \notin wrote[b].ai /\ \A d \in queue[b] : d \notin wrote[b].ai
      BY <1>1 DEF EInv, BatchOK
    <2>. QED BY <1>3, <1>4, <1>8, <2>1 DEF BatchOK, Busy
  <1>10. WroteOK(b)'
    BY <1>2, <1>5, <1>8 DEF EInv, WroteOK
  <1>11. FreshOK(b)'
    BY <1>1, <1>2, <1>5, <1>8 DEF EInv, FreshOK, rows
  <1>12. AskedOK'
    <2>1. s = "gemini" => \/ asked[Text(a)] = 0 /\ cache[Text(a)] = "none"
                          \/ mishaps' \cap Excuses # {}
      <3>. SUFFICES ASSUME s = "gemini", mishaps' \cap Excuses = {}
                    PROVE  asked[Text(a)] = 0 /\ cache[Text(a)] = "none"
        OBVIOUS
      <3>1. cache[Text(a)] = "none" /\ mishaps \cap Excuses = {} /\ "overlap" \notin mishaps
        BY <1>4, <1>5 DEF Excuses
      <3>2. \A c \in Batches : step[c] # "cache"
        BY <1>2, <3>1 DEF EInv, Alone
      <3>. QED BY <1>3, <3>1, <3>2 DEF EInv, AskedOK, Texts
    <2>. QED BY <1>2, <1>4, <1>5, <1>7, <1>8, <2>1, AskKeeps
  <1>. QED BY <1>2, <1>5, <1>6, <1>7, <1>9, <1>10, <1>11, <1>12, Local

\* A provider is asked, and answers or not.
LEMMA AskStep ==
  ASSUME EInv, NEW b \in Batches, AskGemini(b) \/ AskGroq(b)
  PROVE  /\ step[b] \in {"gemini", "groq"}
         /\ \/ \E kind \in Kinds \cup {"none"} : Answered(b, kind)
            \/ \E s \in {"groq", "embed"} :
                 /\ step' = [step EXCEPT ![b] = s]
                 /\ UNCHANGED <<rows, cache, queue, current, answer, aborted, wrote, asked, mishaps>>
  <1>1. step[b] \in {"gemini", "groq"}
    BY DEF AskGemini, AskGroq
  <1>2. Answers(Text(current[b])) \subseteq Kinds \cup {"none"}
    BY <1>1, EnrichmentAssumption DEF EInv, BatchOK, Busy, Steps
  <1>. QED BY <1>1, <1>2 DEF AskGemini, AskGroq, Unanswered, GoTo

\* No answer yet, or none at all.
LEMMA SilentKeeps ==
  ASSUME EInv, NEW b \in Batches, step[b] \in {"gemini", "groq"}, NEW s \in {"groq", "embed"},
         step' = [step EXCEPT ![b] = s],
         UNCHANGED <<rows, cache, queue, current, answer, aborted, wrote, asked, mishaps>>
  PROVE  EInv'
  <1>1. TypeOK'
    BY DEF EInv, TypeOK, Steps, rows
  <1>2. Only(b) /\ step'[b] = s
    BY DEF Only, EInv, TypeOK
  <1>3. BatchOK(b)'
    BY <1>2 DEF EInv, BatchOK, Busy, Steps
  <1>4. WroteOK(b)'
    BY <1>2 DEF EInv, WroteOK
  <1>5. FreshOK(b)'
    BY <1>2 DEF EInv, FreshOK, Busy, Steps, rows
  <1>6. AskedOK'
    BY <1>2, AskKeeps
  <1>. QED BY <1>1, <1>2, <1>3, <1>4, <1>5, <1>6, Local

\* An answer is counted.
LEMMA AnswerKeeps ==
  ASSUME EInv, NEW b \in Batches, step[b] \in {"gemini", "groq"},
         NEW kind \in Kinds \cup {"none"}, Answered(b, kind)
  PROVE  EInv'
  <1>. DEFINE t == Text(current[b])
  <1>1. t \in Texts /\ current[b] \in Articles
    BY DEF EInv, BatchOK, Busy, Steps, Texts
  <1>2. /\ answer' = [answer EXCEPT ![b] = kind] /\ step' = [step EXCEPT ![b] = "cache"]
        /\ asked' = [asked EXCEPT ![t] = IF kind = "none" \/ @ = 2 THEN @ ELSE @ + 1]
        /\ UNCHANGED <<rows, cache, queue, current, aborted, wrote, mishaps>>
    BY DEF Answered, GoTo
  <1>. HIDE DEF t
  <1>3. TypeOK'
    <2>1. asked' \in [Texts -> 0..2]
      <3>1. asked \in [Texts -> 0..2]
        BY DEF EInv, TypeOK
      <3>2. (IF kind = "none" \/ asked[t] = 2 THEN asked[t] ELSE asked[t] + 1) \in 0..2
        BY <1>1, <3>1
      <3>. QED BY <1>2, <3>1, <3>2
    <2>. QED BY <1>2, <2>1 DEF EInv, TypeOK, Steps, rows
  <1>4. Only(b) /\ step'[b] = "cache" /\ answer'[b] = kind
    BY <1>2 DEF Only, EInv, TypeOK
  <1>5. BatchOK(b)'
    BY <1>1, <1>2, <1>4 DEF EInv, BatchOK, Busy, Steps
  <1>6. WroteOK(b)'
    BY <1>2, <1>4 DEF EInv, WroteOK
  <1>7. FreshOK(b)'
    BY <1>2, <1>4 DEF EInv, FreshOK, Busy, Steps, rows
  <1>8. AskedOK'
    <2>. SUFFICES ASSUME mishaps \cap Excuses = {} PROVE AskedOK'
      BY <1>2 DEF AskedOK
    <2>1. \A c \in Batches \ {b} : step[c] = "off" /\ step'[c] = "off"
      BY <1>4 DEF EInv, Alone, Excuses, Only
    <2>2. asked[t] = 0 /\ cache[t] = "none"
      BY DEF EInv, AskedOK, t
    <2>3. ASSUME NEW u \in Texts, u # t
          PROVE  asked'[u] = 0 \/ (asked'[u] = 1 /\ cache'[u] # "none")
      <3>1. asked'[u] = asked[u] /\ cache'[u] = cache[u]
        BY <1>2, <2>3 DEF EInv, TypeOK
      <3>2. \A c \in Batches : step[c] # "cache"
        BY <2>1
      <3>. QED BY <3>1, <3>2 DEF EInv, AskedOK
    <2>4. asked'[t] = IF kind = "none" THEN 0 ELSE 1
      BY <1>1, <1>2, <2>2 DEF EInv, TypeOK
    <2>5. Text(current'[b]) = t
      BY <1>2 DEF t
    <2>6. \A c \in Batches : /\ step'[c] \notin {"gemini", "groq"}
                             /\ step'[c] = "cache" => c = b
      BY <1>4, <2>1
    <2>7. cache'[t] = "none"
      BY <1>2, <2>2
    <2>. QED BY <1>4, <2>3, <2>4, <2>5, <2>6, <2>7 DEF AskedOK
  <1>. QED BY <1>2, <1>3, <1>4, <1>5, <1>6, <1>7, <1>8, Local

\* An answer is cached, or Redis fails.
LEMMA CacheKeeps == ASSUME EInv, NEW b \in Batches, CacheAnswer(b) PROVE EInv'
  <1>. DEFINE t == Text(current[b])
              s == IF answer[b] = "none" THEN "embed" ELSE "save"
  <1>1. step[b] = "cache" /\ t \in Texts /\ answer[b] \in Kinds \cup {"none"}
    BY DEF CacheAnswer, EInv, TypeOK, BatchOK, Busy, Steps, Texts
  <1>2. /\ step' = [step EXCEPT ![b] = s]
        /\ UNCHANGED <<rows, queue, current, answer, aborted, wrote, asked>>
        /\ \/ cache' = [cache EXCEPT ![t] = answer[b]] /\ mishaps' = mishaps
           \/ mishaps' = mishaps \cup {"redis"} /\ cache' = cache
    BY DEF CacheAnswer, Save, GoTo
  <1>3. mishaps \subseteq mishaps' /\ mishaps' \subseteq Mishaps
    BY <1>2 DEF EInv, TypeOK, Mishaps
  <1>4. TypeOK'
    BY <1>1, <1>2, <1>3 DEF EInv, TypeOK, Steps, rows
  <1>5. Only(b) /\ step'[b] = s
    BY <1>2 DEF Only, EInv, TypeOK
  <1>6. BatchOK(b)'
    BY <1>1, <1>2, <1>5 DEF EInv, BatchOK, Busy, Steps
  <1>7. WroteOK(b)'
    BY <1>1, <1>2, <1>3, <1>5 DEF EInv, WroteOK
  <1>8. FreshOK(b)'
    BY <1>1, <1>2, <1>3, <1>5 DEF EInv, FreshOK, Busy, Steps, rows
  <1>9. AskedOK'
    <2>. SUFFICES ASSUME mishaps' \cap Excuses = {} PROVE AskedOK'
      BY DEF AskedOK
    <2>1. /\ mishaps' = mishaps /\ mishaps \cap Excuses = {}
          /\ cache' = [cache EXCEPT ![t] = answer[b]]
      BY <1>2 DEF Excuses
    <2>. HIDE DEF t, s
    <2>2. \A c \in Batches \ {b} : step[c] = "off" /\ step'[c] = "off"
      BY <1>1, <1>5, <2>1 DEF EInv, Alone, Excuses, Only
    <2>3. ASSUME NEW u \in Texts
          PROVE  asked'[u] = 0 \/ (asked'[u] = 1 /\ cache'[u] # "none")
      <3>1. asked'[u] = asked[u]
        BY <1>2
      <3>2. CASE u # t
        <4>1. cache'[u] = cache[u]
          BY <2>1, <3>2 DEF EInv, TypeOK
        <4>. QED BY <2>1, <2>2, <3>1, <3>2, <4>1 DEF EInv, AskedOK, t
      <3>3. CASE u = t
        <4>1. cache'[t] = answer[b]
          BY <1>1, <2>1 DEF EInv, TypeOK
        <4>2. asked[t] = 0 \/ (asked[t] = 1 /\ (cache[t] # "none" \/ answer[b] # "none"))
          BY <1>1, <2>1, <2>2 DEF EInv, AskedOK
        <4>3. cache[t] = "none"
          BY <1>1, <2>1 DEF EInv, AskedOK, t
        <4>. QED BY <3>1, <3>3, <4>1, <4>2, <4>3
      <3>. QED BY <3>2, <3>3
    <2>4. \A c \in Batches : step'[c] \notin {"gemini", "groq", "cache"}
      BY <1>5, <2>2 DEF s
    <2>. QED BY <2>3, <2>4 DEF AskedOK
  <1>. QED BY <1>1, <1>2, <1>3, <1>4, <1>5, <1>6, <1>7, <1>8, <1>9, Local

\* The end of an article, with or without what it has written.
LEMMA NextTyped ==
  ASSUME EInv, NEW b \in Batches, step[b] \in Busy, NextArticle(b), wrote' \in [Batches -> Written],
         \A c \in Batches \ {b} : wrote'[c] = wrote[c],
         aborted' \in [Batches -> BOOLEAN],
         \A c \in Batches \ {b} : aborted'[c] = aborted[c],
         UNCHANGED <<rows, cache, queue, asked>>, mishaps' \subseteq Mishaps
  PROVE  /\ TypeOK' /\ Only(b)
         /\ step'[b] = "next" /\ answer'[b] = "none" /\ queue'[b] = queue[b]
  <1>1. step' = [step EXCEPT ![b] = "next"] /\ current' = [current EXCEPT ![b] = "none"]
        /\ answer' = [answer EXCEPT ![b] = "none"]
    BY DEF NextArticle, GoTo
  <1>2. Only(b) /\ step'[b] = "next" /\ answer'[b] = "none"
    BY <1>1 DEF Only, EInv, TypeOK
  <1>3. \A c \in Batches : step'[c] = "off" => wrote'[c] = Nothing /\ ~aborted'[c]
    BY <1>2 DEF EInv, TypeOK, Only
  <1>4. TypeOK'
    BY <1>1, <1>3 DEF EInv, TypeOK, Steps, rows, Written
  <1>. QED BY <1>2, <1>4

\* The answer becomes a row of article_ai, or ends its article.
LEMMA SaveAnswerKeeps == ASSUME EInv, NEW b \in Batches, SaveAnswer(b) PROVE EInv'
  <1>. DEFINE a == current[b]
  <1>1. step[b] = "save" /\ UNCHANGED <<rows, cache, queue, asked, mishaps>>
    BY DEF SaveAnswer
  <1>2. a \in Articles /\ a \notin queue[b] /\ a \notin wrote[b].ai
    BY <1>1 DEF EInv, BatchOK, Busy, Steps
  <1>3. wrote \in [Batches -> Written] /\ mishaps \subseteq Mishaps
    BY DEF EInv, TypeOK, Written
  <1>4. CASE /\ answer[b] = "good"
             /\ wrote' = [wrote EXCEPT ![b].ai = @ \cup {a}]
             /\ step' = [step EXCEPT ![b] = "embed"]
             /\ UNCHANGED <<current, answer, aborted>>
    <2>. HIDE DEF a
    <2>1. /\ wrote'[b].ai = wrote[b].ai \cup {a}
          /\ wrote'[b].emb = wrote[b].emb /\ wrote'[b].tags = wrote[b].tags
          /\ \A c \in Batches \ {b} : wrote'[c] = wrote[c]
      BY <1>3, <1>4 DEF Written
    <2>2. wrote' \in [Batches -> Written]
      <3>. DEFINE new == [wrote[b] EXCEPT !.ai = @ \cup {a}]
      <3>1. new \in Written
        BY <1>2, <1>3 DEF Written
      <3>2. wrote' = [wrote EXCEPT ![b] = new]
        BY <1>3, <1>4
      <3>. HIDE DEF new
      <3>. QED BY <1>3, <3>1, <3>2
    <2>3. Only(b) /\ step'[b] = "embed"
      BY <1>1, <1>4, <2>1 DEF Only, EInv, TypeOK
    <2>4. TypeOK'
      <3>1. \A c \in Batches : step'[c] = "off" => wrote'[c] = Nothing /\ ~aborted'[c]
        BY <1>4, <2>1, <2>3 DEF EInv, TypeOK, Only
      <3>. QED BY <1>1, <1>4, <2>2, <3>1 DEF EInv, TypeOK, Steps, rows, Written
    <2>5. BatchOK(b)'
      BY <1>1, <1>2, <1>4, <2>1, <2>3 DEF EInv, BatchOK, Busy, Steps, a
    <2>6. WroteOK(b)'
      <3>1. \A d \in Articles :
              /\ d \in wrote[b].ai => wrote[b].emb[d] = "summary" \/ "encoder" \in mishaps
              /\ wrote[b].emb[d] = "summary" => d \in wrote[b].ai
              /\ wrote[b].tags[d] # "none" => wrote[b].emb[d] # "none"
              /\ wrote[b].tags[d] = "summary" => d \in wrote[b].ai
        BY <1>1 DEF EInv, WroteOK
      <3>2. current'[b] = a
        BY <1>4 DEF a
      <3>. QED BY <1>1, <2>1, <2>3, <3>1, <3>2 DEF WroteOK
    <2>7. FreshOK(b)'
      <3>1. "overlap" \notin mishaps => a \notin ai
        BY <1>1 DEF EInv, FreshOK, Busy, Steps, a
      <3>2. current' = current
        BY <1>4
      <3>. QED BY <1>1, <2>1, <2>3, <3>1, <3>2 DEF EInv, FreshOK, Busy, Steps, rows
    <2>8. AskedOK'
      BY <1>1, <2>3, AskKeeps
    <2>. QED BY <1>1, <2>3, <2>4, <2>5, <2>6, <2>7, <2>8, Local
  <1>5. CASE NextArticle(b) /\ wrote' = wrote /\ aborted' \in {aborted, [aborted EXCEPT ![b] = TRUE]}
    <2>0. aborted' \in [Batches -> BOOLEAN] /\ \A c \in Batches \ {b} : aborted'[c] = aborted[c]
      BY <1>5 DEF EInv, TypeOK
    <2>1. /\ TypeOK' /\ Only(b)
          /\ step'[b] = "next" /\ answer'[b] = "none" /\ queue'[b] = queue[b]
      BY <1>1, <1>3, <1>5, <2>0, NextTyped DEF Busy, Steps
    <2>2. BatchOK(b)'
      BY <1>5, <2>1 DEF EInv, BatchOK, Busy
    <2>3. WroteOK(b)'
      BY <1>1, <1>5, <2>1 DEF EInv, WroteOK
    <2>4. FreshOK(b)'
      BY <1>1, <1>5, <2>1 DEF EInv, FreshOK, Busy, rows
    <2>5. AskedOK'
      BY <1>1, <2>1, AskKeeps
    <2>. QED BY <1>1, <2>1, <2>2, <2>3, <2>4, <2>5, Local
  <1>. QED BY <1>4, <1>5 DEF SaveAnswer, GoTo, NextArticle

\* The embedding is that of the summary exactly when the batch has the answer.
LEMMA SaveEmbeddingKeeps == ASSUME EInv, NEW b \in Batches, SaveEmbedding(b) PROVE EInv'
  <1>. DEFINE a == current[b]
              text == IF answer[b] = "none" THEN "title" ELSE "summary"
  <1>1. step[b] = "embed" /\ UNCHANGED <<rows, cache, queue, aborted, asked>>
    BY DEF SaveEmbedding
  <1>2. a \in Articles /\ a \notin queue[b] /\ (answer[b] # "none" <=> a \in wrote[b].ai)
    BY <1>1 DEF EInv, BatchOK, Busy, Steps
  <1>3. wrote \in [Batches -> Written] /\ mishaps \subseteq Mishaps /\ text \in Inputs
    BY DEF EInv, TypeOK, Written, Inputs
  <1>4. CASE /\ wrote' = [wrote EXCEPT ![b].emb[a] = text]
             /\ step' = [step EXCEPT ![b] = "tag"]
             /\ UNCHANGED <<current, answer, mishaps>>
    <2>0. text = "summary" <=> a \in wrote[b].ai
      BY <1>2
    <2>9. text # "none" /\ current'[b] = a
      BY <1>4
    <2>. HIDE DEF a, text
    <2>1. /\ wrote'[b].ai = wrote[b].ai /\ wrote'[b].tags = wrote[b].tags
          /\ wrote'[b].emb = [wrote[b].emb EXCEPT ![a] = text]
          /\ \A c \in Batches \ {b} : wrote'[c] = wrote[c]
      BY <1>3, <1>4 DEF Written
    <2>2. wrote' \in [Batches -> Written]
      <3>. DEFINE new == [wrote[b] EXCEPT !.emb[a] = text]
      <3>1. new \in Written
        BY <1>2, <1>3 DEF Written
      <3>2. wrote' = [wrote EXCEPT ![b] = new]
        BY <1>3, <1>4
      <3>. HIDE DEF new
      <3>. QED BY <1>3, <3>1, <3>2
    <2>3. Only(b) /\ step'[b] = "tag"
      BY <1>1, <1>4, <2>1 DEF Only, EInv, TypeOK
    <2>4. TypeOK'
      <3>1. \A c \in Batches : step'[c] = "off" => wrote'[c] = Nothing /\ ~aborted'[c]
        BY <1>1, <1>4, <2>1, <2>3 DEF EInv, TypeOK, Only
      <3>. QED BY <1>1, <1>4, <2>2, <3>1 DEF EInv, TypeOK, Steps, rows, Written
    <2>5. BatchOK(b)'
      <3>1. current[b] = a
        BY DEF a
      <3>. QED BY <1>1, <1>2, <1>4, <2>1, <2>3, <3>1 DEF EInv, BatchOK, Busy, Steps
    <2>6. \A d \in Articles : wrote'[b].emb[d] = IF d = a THEN text ELSE wrote[b].emb[d]
      BY <1>2, <1>3, <2>1 DEF Written
    <2>7. WroteOK(b)'
      <3>1. \A d \in Articles :
              /\ d \in wrote[b].ai => \/ wrote[b].emb[d] = "summary" \/ d = a
                                      \/ "encoder" \in mishaps
              /\ wrote[b].emb[d] = "summary" => d \in wrote[b].ai
              /\ wrote[b].tags[d] # "none" => wrote[b].emb[d] # "none"
              /\ wrote[b].tags[d] = "summary" => d \in wrote[b].ai
        BY DEF EInv, WroteOK, a
      <3>. QED BY <1>1, <1>4, <2>0, <2>9, <2>1, <2>6, <3>1 DEF WroteOK
    <2>8. FreshOK(b)'
      <3>1. "overlap" \notin mishaps => a \notin ai
        BY <1>1 DEF EInv, FreshOK, Busy, Steps, a
      <3>2. current' = current /\ mishaps' = mishaps
        BY <1>4
      <3>3. ai \subseteq Articles
        BY DEF EInv, TypeOK
      <3>. QED BY <1>1, <2>1, <2>3, <2>6, <3>1, <3>2, <3>3 DEF EInv, FreshOK, Busy, Steps, rows
    <2>10. AskedOK'
      BY <1>1, <1>4, <2>3, AskKeeps
    <2>. QED BY <1>1, <1>4, <2>3, <2>4, <2>5, <2>7, <2>8, <2>10, Local
  <1>5. CASE mishaps' = mishaps \cup {"encoder"} /\ NextArticle(b) /\ wrote' = wrote
    <2>0. /\ aborted' \in [Batches -> BOOLEAN] /\ \A c \in Batches \ {b} : aborted'[c] = aborted[c]
          /\ mishaps' \subseteq Mishaps /\ "encoder" \in mishaps'
      BY <1>1, <1>5 DEF EInv, TypeOK, Mishaps
    <2>1. /\ TypeOK' /\ Only(b)
          /\ step'[b] = "next" /\ answer'[b] = "none" /\ queue'[b] = queue[b]
      BY <1>1, <1>3, <1>5, <2>0, NextTyped DEF Busy, Steps
    <2>2. BatchOK(b)'
      BY <1>5, <2>1 DEF EInv, BatchOK, Busy
    <2>3. WroteOK(b)'
      BY <1>5, <2>0, <2>1 DEF EInv, WroteOK
    <2>4. FreshOK(b)'
      BY <1>1, <1>5, <2>1 DEF EInv, FreshOK, Busy, rows
    <2>5. AskedOK'
      BY <1>1, <1>5, <2>1, AskKeeps
    <2>. QED BY <1>1, <1>5, <2>1, <2>2, <2>3, <2>4, <2>5, Local
  <1>. QED BY <1>4, <1>5 DEF SaveEmbedding, GoTo

\* The tags are those of the embedding the batch has written.
LEMMA SaveTagsKeeps == ASSUME EInv, NEW b \in Batches, SaveTags(b) PROVE EInv'
  <1>. DEFINE a == current[b]
              text == wrote[b].emb[a]
  <1>1. /\ step[b] = "tag" /\ NextArticle(b)
        /\ UNCHANGED <<rows, cache, queue, aborted, asked, mishaps>>
    BY DEF SaveTags
  <1>2. a \in Articles
    BY <1>1 DEF EInv, BatchOK, Busy, Steps
  <1>3. wrote \in [Batches -> Written] /\ mishaps \subseteq Mishaps /\ text \in Inputs
    BY <1>2 DEF EInv, TypeOK, Written
  <1>4. wrote' = wrote \/ wrote' = [wrote EXCEPT ![b].tags[a] = text]
    BY DEF SaveTags
  <1>5. text = wrote[b].emb[a]
    OBVIOUS
  <1>. HIDE DEF a, text
  <1>6. /\ wrote' \in [Batches -> Written]
        /\ \A c \in Batches \ {b} : wrote'[c] = wrote[c]
        /\ wrote'[b].ai = wrote[b].ai /\ wrote'[b].emb = wrote[b].emb
        /\ \A d \in Articles : wrote'[b].tags[d] \in {wrote[b].tags[d], wrote[b].emb[d]}
    <2>1. CASE wrote' = wrote
      BY <1>3, <2>1
    <2>2. CASE wrote' = [wrote EXCEPT ![b].tags[a] = text]
      <3>1. /\ wrote'[b].ai = wrote[b].ai /\ wrote'[b].emb = wrote[b].emb
            /\ wrote'[b].tags = [wrote[b].tags EXCEPT ![a] = text]
            /\ \A c \in Batches \ {b} : wrote'[c] = wrote[c]
        BY <1>3, <2>2 DEF Written
      <3>2. wrote' \in [Batches -> Written]
        <4>. DEFINE new == [wrote[b] EXCEPT !.tags[a] = text]
        <4>1. new \in Written
          BY <1>2, <1>3 DEF Written
        <4>2. wrote' = [wrote EXCEPT ![b] = new]
          BY <1>3, <2>2
        <4>. HIDE DEF new
        <4>. QED BY <1>3, <4>1, <4>2
      <3>3. \A d \in Articles : wrote'[b].tags[d] = IF d = a THEN text ELSE wrote[b].tags[d]
        BY <1>2, <1>3, <3>1 DEF Written
      <3>. QED BY <1>5, <3>1, <3>2, <3>3
    <2>. QED BY <1>4, <2>1, <2>2
  <1>7. aborted' \in [Batches -> BOOLEAN] /\ \A c \in Batches \ {b} : aborted'[c] = aborted[c]
    BY <1>1 DEF EInv, TypeOK
  <1>8. /\ TypeOK' /\ Only(b)
        /\ step'[b] = "next" /\ answer'[b] = "none" /\ queue'[b] = queue[b]
    BY <1>1, <1>3, <1>6, <1>7, NextTyped DEF Busy, Steps
  <1>9. BatchOK(b)'
    BY <1>6, <1>8 DEF EInv, BatchOK, Busy
  <1>10. WroteOK(b)'
    BY <1>1, <1>6, <1>8 DEF EInv, WroteOK
  <1>11. FreshOK(b)'
    BY <1>1, <1>6, <1>8 DEF EInv, FreshOK, Busy, rows
  <1>12. AskedOK'
    BY <1>1, <1>8, AskKeeps
  <1>. QED BY <1>1, <1>8, <1>9, <1>10, <1>11, <1>12, Local

\* An answer that expires may be given again.
LEMMA ExpireKeeps == ASSUME EInv, NEW t \in Texts, Expire(t) PROVE EInv'
  <1>1. /\ cache' = [cache EXCEPT ![t] = "none"] /\ asked' = [asked EXCEPT ![t] = 0]
        /\ UNCHANGED <<rows, step, queue, current, answer, aborted, wrote, mishaps>>
    BY DEF Expire
  <1>2. TypeOK'
    BY <1>1 DEF EInv, TypeOK, rows
  <1>3. Alone' /\ RowsOK'
    BY <1>1 DEF EInv, Alone, RowsOK, EmbeddedWithAnswer, SummaryIsEmbedded, TagsHaveTheirSource, rows
  <1>4. \A b \in Batches : BatchOK(b)' /\ WroteOK(b)' /\ FreshOK(b)'
    BY <1>1 DEF EInv, BatchOK, WroteOK, FreshOK, rows
  <1>5. AskedOK'
    <2>1. \A u \in Texts : /\ cache'[u] \in {cache[u], "none"}
                           /\ u # t => cache'[u] = cache[u] /\ asked'[u] = asked[u]
      BY <1>1 DEF EInv, TypeOK
    <2>2. asked'[t] = 0
      BY <1>1 DEF EInv, TypeOK
    <2>3. \A b \in Batches : step[b] \in {"gemini", "groq"} => Text(current[b]) \in Texts
      BY DEF EInv, BatchOK, Busy, Steps, Texts
    <2>. QED BY <1>1, <2>1, <2>2, <2>3 DEF EInv, AskedOK
  <1>. QED BY <1>2, <1>3, <1>4, <1>5 DEF EInv

\* No batch has begun.
LEMMA InitHolds == Init => EInv
  <1>. SUFFICES ASSUME Init PROVE EInv
    OBVIOUS
  <1>1. Cardinality({}) = 0 /\ Limit \in Nat
    BY FS_EmptySet, EnrichmentAssumption
  <1>2. TypeOK
    BY <1>1 DEF Init, TypeOK, Steps, Inputs, Untouched, Nothing
  <1>3. \A b \in Batches : BatchOK(b) /\ WroteOK(b) /\ FreshOK(b)
    BY DEF Init, BatchOK, WroteOK, FreshOK, Busy, Nothing, Untouched
  <1>4. Alone /\ RowsOK
    BY DEF Init, Alone, RowsOK, EmbeddedWithAnswer, SummaryIsEmbedded, TagsHaveTheirSource, Untouched
  <1>5. AskedOK
    BY DEF Init, AskedOK
  <1>. QED BY <1>2, <1>3, <1>4, <1>5 DEF EInv

\* Every step keeps the invariant.
LEMMA NextHolds == ASSUME EInv, [Next]_vars PROVE EInv'
  <1>1. CASE \E b \in Batches : Start(b)
    BY <1>1, StartKeeps
  <1>2. CASE \E b \in Batches : Finish(b)
    BY <1>2, FinishKeeps
  <1>3. CASE \E b \in Batches : Fail(b) \/ Kill(b)
    <2>1. ASSUME NEW b \in Batches, Fail(b) PROVE EInv'
      BY <2>1, EndKeeps DEF Fail
    <2>2. ASSUME NEW b \in Batches, Kill(b) PROVE EInv'
      BY <2>2, EndKeeps DEF Kill
    <2>. QED BY <1>3, <2>1, <2>2
  <1>4. CASE \E b \in Batches : Take(b)
    BY <1>4, TakeKeeps
  <1>5. CASE \E b \in Batches : AskGemini(b) \/ AskGroq(b) \/ CacheAnswer(b)
    BY <1>5, AskStep, SilentKeeps, AnswerKeeps, CacheKeeps
  <1>6. CASE \E b \in Batches : SaveAnswer(b)
    BY <1>6, SaveAnswerKeeps
  <1>7. CASE \E b \in Batches : SaveEmbedding(b)
    BY <1>7, SaveEmbeddingKeeps
  <1>8. CASE \E b \in Batches : SaveTags(b)
    BY <1>8, SaveTagsKeeps
  <1>9. CASE \E t \in Texts : Expire(t)
    BY <1>9, ExpireKeeps
  <1>10. CASE UNCHANGED vars
    BY <1>10 DEF vars, rows, EInv, TypeOK, Alone, BatchOK, WroteOK, FreshOK, RowsOK, AskedOK,
                 EmbeddedWithAnswer, SummaryIsEmbedded, TagsHaveTheirSource
  <1>. QED BY <1>1, <1>2, <1>3, <1>4, <1>5, <1>6, <1>7, <1>8, <1>9, <1>10 DEF Next, Advance

LEMMA Invariant == Spec => []EInv
  BY InitHolds, NextHolds, PTL DEF Spec

\* ai_service.py:8 "Persist all three outputs": the rows of an article belong to one
\* answer, though batches fail, are killed and find no LLM, and overlap for the first
\* part: an article with a summary has an embedding, of the summary.
THEOREM OutputsTogether == Spec => []EnrichmentInv
  <1>1. EInv => EnrichmentInv
    BY DEF EInv, RowsOK, EnrichmentInv
  <1>. QED BY <1>1, Invariant, PTL

\* ai_service.py:10 "Each article touches the LLM at most once": until its answer expires a
\* text is answered once, though batches fail, roll back and are killed, unless two overlap,
\* Redis fails or one is killed between an answer and its caching (Answered, CacheAnswer).
THEOREM AnsweredOnce == Spec => []AskedOnce
  <1>1. EInv => AskedOnce
    BY DEF EInv, AskedOK, AskedOnce
  <1>. QED BY <1>1, Invariant, PTL

\* replace_tags of ai_repo.py: an article has tags only with an embedding, and those of
\* a summary only with the summary, though batches overlap, fail and are killed.
THEOREM TagsFollow == Spec => []TagsHaveTheirSource
  <1>1. EInv => TagsHaveTheirSource
    BY DEF EInv, RowsOK
  <1>. QED BY <1>1, Invariant, PTL
===============================================================================
