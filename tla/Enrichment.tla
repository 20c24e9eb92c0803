------------------------------ MODULE Enrichment ------------------------------
(***************************************************************************)
(* Batches of app/services/ai_service.py.  A batch takes the newest        *)
(* articles that have no row in article_ai and gives each a summary (from  *)
(* the Redis cache, from Gemini or from Groq), an embedding and tags.  It  *)
(* is one PostgreSQL transaction, while the cache is written at once.  An  *)
(* exception inside one article is swallowed, but one that PostgreSQL      *)
(* raised leaves the transaction aborted.  Cron starts a batch every half  *)
(* hour, and more can be started by hand.                                  *)
(*                                                                         *)
(* Of an answer of the LLM the model keeps what becomes of it:             *)
(*   "good"   it can be stored;                                            *)
(*   "skip"   storing it raises in Python (a JSON list has no .get, a      *)
(*            quality_score that is not a number cannot be encoded);       *)
(*   "abort"  PostgreSQL refuses it (a text with U+0000);                  *)
(*   "none"   it is JSON null: nothing is stored, and in the cache it      *)
(*            reads as a miss.                                             *)
(***************************************************************************)
EXTENDS Naturals, FiniteSets

CONSTANTS Articles, Batches,
          Published(_),  \* when an article was published
          Text(_),     \* the normalized body of an article, the key of the cache
          Answers(_),  \* what the LLM may answer for a text
          Limit,       \* enrich_batch's limit (50)
          Gemini,      \* what a call of Gemini may do: "answers", "refuses" (429,
                       \* 4xx, 5xx, bad output) or "breaks" (no connection, timeout)
          Groq,        \* what a call of Groq may do: "answers" or "refuses"
          Mortal       \* batches that may be killed (the workflow's time limit)

Texts == {Text(a) : a \in Articles}
Kinds == {"good", "skip", "abort"}

ASSUME EnrichmentAssumption ==
    /\ IsFiniteSet(Articles) /\ \A a \in Articles : Published(a) \in Nat
    /\ \A a \in Articles : Answers(Text(a)) \subseteq Kinds \cup {"none"}
    /\ Limit \in Nat \ {0}
    /\ Mortal \subseteq Batches
    /\ Gemini \subseteq {"answers", "refuses", "breaks"}
    /\ Groq \subseteq {"answers", "refuses"}

VARIABLES
    \* committed rows
    ai,       \* articles with a row in article_ai
    emb,      \* emb[a]: "none", or the text of a that was embedded
    tags,     \* tags[a]: "none", or the text a's tags were computed from
    \* Redis
    cache,    \* cache[t]: the answer cached for text t, or "none"
    \* the batches
    step,     \* step[b]: where batch b is
    queue,    \* queue[b]: its articles that are still to come
    current,  \* current[b]: the article it is enriching, or "none"
    answer,   \* answer[b]: ai_data of that article, or "none"
    aborted,  \* aborted[b]: PostgreSQL has aborted the transaction of b
    wrote,    \* wrote[b]: the rows batch b has written, not committed
    \* history
    asked,    \* asked[t]: answers but null received for t (0, 1, 2 = more)
    mishaps   \* what has gone wrong so far

rows == <<ai, emb, tags>>
vars == <<rows, cache, step, queue, current, answer, aborted, wrote, asked, mishaps>>

Steps == {"off", "next", "gemini", "groq", "cache", "save", "embed", "tag"}
Inputs == {"none", "title", "summary"}
Mishaps == {"overlap",  \* a batch was started while another was running
            "redis",    \* Redis failed
            "unsaved",  \* a batch was killed between an answer and its caching
            "encoder"}  \* the encoder raised
Untouched == [a \in Articles |-> "none"]
Nothing == [ai |-> {}, emb |-> Untouched, tags |-> Untouched]

TypeOK ==
    /\ ai \subseteq Articles
    /\ emb \in [Articles -> Inputs] /\ tags \in [Articles -> Inputs]
    /\ cache \in [Texts -> Kinds \cup {"none"}]
    /\ step \in [Batches -> Steps]
    /\ queue \in [Batches -> SUBSET Articles]
    /\ \A b \in Batches : Cardinality(queue[b]) <= Limit
    /\ current \in [Batches -> Articles \cup {"none"}]
    /\ answer \in [Batches -> Kinds \cup {"none"}]
    /\ aborted \in [Batches -> BOOLEAN]
    /\ wrote \in [Batches -> [ai: SUBSET Articles, emb: [Articles -> Inputs],
                              tags: [Articles -> Inputs]]]
    /\ asked \in [Texts -> 0..2] /\ mishaps \subseteq Mishaps
    /\ \A b \in Batches : step[b] = "off" => wrote[b] = Nothing /\ ~aborted[b]

Init ==
    /\ ai = {} /\ emb = Untouched /\ tags = Untouched
    /\ cache = [t \in Texts |-> "none"]
    /\ step = [b \in Batches |-> "off"]
    /\ queue = [b \in Batches |-> {}]
    /\ current = [b \in Batches |-> "none"]
    /\ answer = [b \in Batches |-> "none"]
    /\ aborted = [b \in Batches |-> FALSE]
    /\ wrote = [b \in Batches |-> Nothing]
    /\ asked = [t \in Texts |-> 0] /\ mishaps = {}

-----------------------------------------------------------------------------

\* Another batch has written a row of article a.
Held(b, a) ==
    \E c \in Batches \ {b} : a \in wrote[c].ai \/ wrote[c].emb[a] # "none"

Overwrite(old, new) == [a \in Articles |-> IF new[a] = "none" THEN old[a] ELSE new[a]]

GoTo(b, s) == step' = [step EXCEPT ![b] = s]

\* ai_data outlives its article.
NextArticle_KeepsAnswer(b) ==
    /\ GoTo(b, "next")
    /\ current' = [current EXCEPT ![b] = "none"]
    /\ UNCHANGED answer

\* The article is finished, or an exception in it was caught and logged.
NextArticle(b) ==
    /\ GoTo(b, "next")
    /\ current' = [current EXCEPT ![b] = "none"]
    /\ answer' = [answer EXCEPT ![b] = "none"]

\* The next batch is given the session of this one.
EndBatch_KeepsSession(b) ==
    /\ GoTo(b, "off")
    /\ queue' = [queue EXCEPT ![b] = {}]
    /\ current' = [current EXCEPT ![b] = "none"]
    /\ answer' = [answer EXCEPT ![b] = "none"]
    /\ wrote' = [wrote EXCEPT ![b] = Nothing]
    /\ UNCHANGED aborted

\* The batch and its transaction end.
EndBatch(b) ==
    /\ GoTo(b, "off")
    /\ queue' = [queue EXCEPT ![b] = {}]
    /\ current' = [current EXCEPT ![b] = "none"]
    /\ answer' = [answer EXCEPT ![b] = "none"]
    /\ aborted' = [aborted EXCEPT ![b] = FALSE]
    /\ wrote' = [wrote EXCEPT ![b] = Nothing]

\* What ORDER BY published_at DESC LIMIT may return of a set of articles.
Newest(S) ==
    {q \in SUBSET S : /\ Cardinality(q) = IF Cardinality(S) < Limit THEN Cardinality(S)
                                                                   ELSE Limit
                      /\ \A a \in q, c \in S \ q : Published(c) <= Published(a)}

\* The articles that have a row in article_ai are listed too.
Missing_All == Newest(Articles)

\* The articles of a batch: list_missing_ai.
Missing == Newest(Articles \ ai)

-----------------------------------------------------------------------------
(* enrich_batch *)

Start(b) ==
    /\ step[b] = "off"
    /\ GoTo(b, "next")
    /\ \E q \in Missing \ {{}} : queue' = [queue EXCEPT ![b] = q]
    /\ mishaps' = mishaps \cup IF \E c \in Batches : step[c] # "off" THEN {"overlap"} ELSE {}
    /\ UNCHANGED <<rows, cache, current, answer, aborted, wrote, asked>>

\* The end of session_scope.  COMMIT of an aborted transaction rolls it back,
\* and says nothing.
Finish(b) ==
    /\ step[b] = "next" /\ queue[b] = {}
    /\ IF aborted[b]
       THEN UNCHANGED rows
       ELSE /\ ai' = ai \cup wrote[b].ai
            /\ emb' = Overwrite(emb, wrote[b].emb)
            /\ tags' = Overwrite(tags, wrote[b].tags)
    /\ EndBatch(b)
    /\ UNCHANGED <<cache, asked, mishaps>>

\* db.get is outside the try: in an aborted transaction it ends the batch.
Fail(b) ==
    /\ step[b] = "next" /\ queue[b] # {} /\ aborted[b]
    /\ EndBatch(b)
    /\ UNCHANGED <<rows, cache, asked, mishaps>>

Kill(b) ==
    /\ b \in Mortal
    /\ step[b] # "off"
    /\ EndBatch(b)
    /\ mishaps' = mishaps \cup IF step[b] = "cache" THEN {"unsaved"} ELSE {}
    /\ UNCHANGED <<rows, cache, asked>>

-----------------------------------------------------------------------------
(* enrich_article *)

\* cache_get_json: a Redis that fails is a miss.
LookUp(b, hit) ==
    \/ /\ hit # "none"
       /\ answer' = [answer EXCEPT ![b] = hit]
       /\ GoTo(b, "save")
       /\ UNCHANGED mishaps
    \/ /\ \/ hit = "none" /\ UNCHANGED mishaps
          \/ hit # "none" /\ mishaps' = mishaps \cup {"redis"}
       /\ GoTo(b, "gemini")
       /\ UNCHANGED answer

\* The next article, and the cache.
Take(b) ==
    /\ step[b] = "next" /\ ~aborted[b]
    /\ \E a \in queue[b] :
         /\ \A c \in queue[b] : Published(c) <= Published(a)
         /\ queue' = [queue EXCEPT ![b] = @ \ {a}]
         /\ current' = [current EXCEPT ![b] = a]
         /\ LookUp(b, cache[Text(a)])
    /\ UNCHANGED <<rows, cache, aborted, wrote, asked>>

\* A provider answers.
Answered(b, kind) ==
    /\ answer' = [answer EXCEPT ![b] = kind]
    /\ asked' = [asked EXCEPT ![Text(current[b])] = IF kind = "none" \/ @ = 2 THEN @ ELSE @ + 1]
    /\ GoTo(b, "cache")
    /\ UNCHANGED <<rows, cache, queue, current, aborted, wrote, mishaps>>

\* No answer: the article is embedded without a summary.
Unanswered(b) ==
    /\ GoTo(b, "embed")
    /\ UNCHANGED <<rows, cache, queue, current, answer, aborted, wrote, asked, mishaps>>

\* _call_gemini.  A refusal falls through to Groq; an error of the connection
\* that outlasts the retry is not caught by complete_json.
AskGemini(b) ==
    /\ step[b] = "gemini"
    /\ \/ /\ "answers" \in Gemini
          /\ \E kind \in Answers(Text(current[b])) : Answered(b, kind)
       \/ /\ "refuses" \in Gemini
          /\ GoTo(b, "groq")
          /\ UNCHANGED <<rows, cache, queue, current, answer, aborted, wrote, asked, mishaps>>
       \/ /\ "breaks" \in Gemini
          /\ Unanswered(b)

\* _call_groq
AskGroq(b) ==
    /\ step[b] = "groq"
    /\ \/ /\ "answers" \in Groq
          /\ \E kind \in Answers(Text(current[b])) : Answered(b, kind)
       \/ /\ "refuses" \in Groq
          /\ Unanswered(b)

\* With or without its summary.
Save(b) == GoTo(b, IF answer[b] = "none" THEN "embed" ELSE "save")

\* An answer that cannot be stored is not cached either.
CacheAnswer_GoodOnly(b) ==
    /\ step[b] = "cache"
    /\ \/ /\ cache' = IF answer[b] = "good" THEN [cache EXCEPT ![Text(current[b])] = answer[b]]
                                            ELSE cache
          /\ UNCHANGED mishaps
       \/ mishaps' = mishaps \cup {"redis"} /\ UNCHANGED cache
    /\ Save(b)
    /\ UNCHANGED <<rows, queue, current, answer, aborted, wrote, asked>>

\* cache_set_json, once the answer is there: it is cached whatever it is.
CacheAnswer(b) ==
    /\ step[b] = "cache"
    /\ \/ cache' = [cache EXCEPT ![Text(current[b])] = answer[b]] /\ UNCHANGED mishaps
       \/ mishaps' = mishaps \cup {"redis"} /\ UNCHANGED cache
    /\ Save(b)
    /\ UNCHANGED <<rows, queue, current, answer, aborted, wrote, asked>>

\* The row of article_ai is committed on its own.
SaveAnswer_Committed(b) ==
    /\ step[b] = "save"
    /\ \/ /\ answer[b] = "good"
          /\ ai' = ai \cup {current[b]}
          /\ GoTo(b, "embed")
          /\ UNCHANGED <<current, answer>>
       \/ /\ answer[b] # "good"
          /\ NextArticle(b)
          /\ UNCHANGED ai
    /\ UNCHANGED <<emb, tags, cache, queue, aborted, wrote, asked, mishaps>>

\* ArticleAIRepo.upsert.  It waits for a batch that has written the row.
SaveAnswer(b) ==
    /\ step[b] = "save"
    /\ \/ /\ answer[b] = "good" /\ ~Held(b, current[b])
          /\ wrote' = [wrote EXCEPT ![b].ai = @ \cup {current[b]}]
          /\ GoTo(b, "embed")
          /\ UNCHANGED <<current, answer, aborted>>
       \/ /\ answer[b] = "skip"
          /\ NextArticle(b)
          /\ UNCHANGED <<aborted, wrote>>
       \/ /\ answer[b] = "abort"
          /\ aborted' = [aborted EXCEPT ![b] = TRUE]
          /\ NextArticle(b)
          /\ UNCHANGED wrote
    /\ UNCHANGED <<rows, cache, queue, asked, mishaps>>

\* The embedding is always that of the title.
SaveEmbedding_TitleOnly(b) ==
    /\ step[b] = "embed"
    /\ ~Held(b, current[b])
    /\ wrote' = [wrote EXCEPT ![b].emb[current[b]] = "title"]
    /\ GoTo(b, "tag")
    /\ UNCHANGED <<rows, cache, queue, current, answer, aborted, asked, mishaps>>

\* encode_one and EmbeddingRepo.upsert.
SaveEmbedding(b) ==
    /\ step[b] = "embed"
    /\ \/ /\ ~Held(b, current[b])
          /\ wrote' = [wrote EXCEPT ![b].emb[current[b]] =
                           IF answer[b] = "none" THEN "title" ELSE "summary"]
          /\ GoTo(b, "tag")
          /\ UNCHANGED <<current, answer, mishaps>>
       \/ /\ mishaps' = mishaps \cup {"encoder"}
          /\ NextArticle(b)
          /\ UNCHANGED wrote
    /\ UNCHANGED <<rows, cache, queue, aborted, asked>>

\* replace_tags, unless no microtopic is close enough.
SaveTags(b) ==
    /\ step[b] = "tag"
    /\ \/ wrote' = [wrote EXCEPT ![b].tags[current[b]] = wrote[b].emb[current[b]]]
       \/ UNCHANGED wrote
    /\ NextArticle(b)
    /\ UNCHANGED <<rows, cache, queue, aborted, asked, mishaps>>

\* Fourteen days (CACHE_TTL_SECONDS) after an answer.
Expire(t) ==
    /\ cache[t] # "none"
    /\ cache' = [cache EXCEPT ![t] = "none"]
    /\ asked' = [asked EXCEPT ![t] = 0]
    /\ UNCHANGED <<rows, step, queue, current, answer, aborted, wrote, mishaps>>

-----------------------------------------------------------------------------

Advance(b) ==
    \/ Finish(b) \/ Fail(b) \/ Take(b) \/ AskGemini(b) \/ AskGroq(b) \/ CacheAnswer(b)
    \/ SaveAnswer(b) \/ SaveEmbedding(b) \/ SaveTags(b)

Next ==
    \/ \E b \in Batches : Start(b) \/ Advance(b) \/ Kill(b)
    \/ \E t \in Texts : Expire(t)

Spec == Init /\ [][Next]_vars

GetsAnswer(b, a) ==
    /\ current[b] = a
    /\ AskGemini(b) \/ AskGroq(b)
    /\ answer'[b] # "none"

\* Cron starts batches for ever and a batch runs on; when the providers may answer
\* they do so now and then, for every article that goes on asking.
FairSpec ==
    /\ Spec
    /\ \A b \in Batches :
         /\ WF_vars(Start(b)) /\ WF_vars(Advance(b))
         /\ \A a \in Articles : SF_vars(GetsAnswer(b, a))

-----------------------------------------------------------------------------
(* Properties *)

\* What makes a batch ask again for a text that has been answered.
Excuses == {"overlap", "redis", "unsaved"}

\* ai_service.py:10 "Each article touches the LLM at most once": whatever becomes of the
\* transaction, a text is answered once, null left out, until its answer expires, if
\* batches do not overlap, Redis works and no batch dies between the answer and the SET of
\* Redis (ai_service.py:111-114).  A batch that dies anywhere else is no excuse.
AskedOnce ==
    mishaps \cap Excuses = {} => \A t \in Texts : asked[t] <= 1

\* ai_service.py:8 "Persist all three outputs": an article that will not be taken
\* again, because it has its row in article_ai, has its embedding, however many
\* batches were killed, failed or ran together.
EmbeddedWithAnswer ==
    "encoder" \notin mishaps => \A a \in ai : emb[a] # "none"

\* ... and, after batches that failed, were killed or found no LLM, it is the
\* embedding of the summary.
SummaryIsEmbedded ==
    mishaps \cap {"overlap", "encoder"} = {} => \A a \in ai : emb[a] = "summary"

\* The invariant of the rows of an article: they belong to one answer.
EnrichmentInv == TypeOK /\ EmbeddedWithAnswer /\ SummaryIsEmbedded

\* Tags are never older or newer than the transaction of their embedding: an
\* article has tags only when it has an embedding, and tags made from the summary
\* only when article_ai has the summary.
TagsHaveTheirSource ==
    \A a \in Articles :
        /\ tags[a] # "none" => emb[a] # "none"
        /\ tags[a] = "summary" => a \in ai

\* An article whose answer can be stored gets it, though others' answers cannot be
\* (ai_service.py:199 catches what one article raises) and though Gemini refuses
\* (enrich.yml:4 "newly-ingested articles get enriched promptly").
GoodIsEnriched ==
    \A a \in Articles : Answers(Text(a)) = {"good"} => <>(a \in ai)
===============================================================================
