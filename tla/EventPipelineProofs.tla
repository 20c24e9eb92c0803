------------------------- MODULE EventPipelineProofs -------------------------
(***************************************************************************)
(* Proofs about EventPipeline, for any events, workers, batch sizes, length *)
(* of the stream and number of faults.                                     *)
(***************************************************************************)
EXTENDS EventPipeline, TLAPS

Distinct(s) == \A i, j \in DOMAIN s : s[i] = s[j] => i = j

Disjoint(S, T) == \A e \in S : e \notin T

-----------------------------------------------------------------------------
(* Sequences *)

\* What a flush or a read takes and what it leaves are parts of what was there.
LEMMA SplitType ==
  ASSUME NEW S, NEW s \in Seq(S), NEW n \in Nat
  PROVE  /\ Front(s, n) \in Seq(S) /\ After(s, n) \in Seq(S)
         /\ Len(Front(s, n)) \in Nat
         /\ \A i \in DOMAIN Front(s, n) : i \in DOMAIN s /\ i <= n /\ Front(s, n)[i] = s[i]
         /\ \A i \in DOMAIN After(s, n) : n + i \in DOMAIN s /\ After(s, n)[i] = s[n + i]
  BY DEF Front, After

\* Together they are all of it, and they overlap only in an event that was there twice.
LEMMA SplitElements ==
  ASSUME NEW S, NEW s \in Seq(S), NEW n \in Nat
  PROVE  /\ Elements(Front(s, n)) \cup Elements(After(s, n)) = Elements(s)
         /\ Distinct(s) => /\ Distinct(Front(s, n)) /\ Distinct(After(s, n))
                           /\ Disjoint(Elements(Front(s, n)), Elements(After(s, n)))
  <1>1. ASSUME NEW e, e \in Elements(Front(s, n)) \/ e \in Elements(After(s, n))
        PROVE  e \in Elements(s)
    <2>1. CASE e \in Elements(Front(s, n))
      <3>1. PICK i \in DOMAIN Front(s, n) : Front(s, n)[i] = e
        BY <2>1 DEF Elements
      <3>2. i \in DOMAIN s /\ s[i] = e
        BY <3>1, SplitType
      <3>. QED BY <3>2 DEF Elements
    <2>2. CASE e \in Elements(After(s, n))
      <3>1. PICK i \in DOMAIN After(s, n) : After(s, n)[i] = e
        BY <2>2 DEF Elements
      <3>2. n + i \in DOMAIN s /\ s[n + i] = e
        BY <3>1, SplitType
      <3>. QED BY <3>2 DEF Elements
    <2>. QED BY <1>1, <2>1, <2>2
  <1>2. ASSUME NEW e \in Elements(s)
        PROVE  e \in Elements(Front(s, n)) \cup Elements(After(s, n))
    <2>1. PICK i \in DOMAIN s : s[i] = e
      BY DEF Elements
    <2>2. CASE i <= n
      <3>1. i \in DOMAIN Front(s, n) /\ Front(s, n)[i] = e
        BY <2>1, <2>2 DEF Front
      <3>. QED BY <3>1 DEF Elements
    <2>3. CASE i > n
      <3>1. i - n \in DOMAIN After(s, n) /\ After(s, n)[i - n] = e
        BY <2>1, <2>3 DEF After
      <3>. QED BY <3>1 DEF Elements
    <2>. QED BY <2>2, <2>3
  <1>3. Distinct(s) => Distinct(Front(s, n))
    BY SplitType DEF Distinct
  <1>4. ASSUME Distinct(s)
        PROVE  Distinct(After(s, n))
    <2> SUFFICES ASSUME NEW i \in DOMAIN After(s, n), NEW j \in DOMAIN After(s, n),
                        After(s, n)[i] = After(s, n)[j]
                 PROVE  i = j
      BY DEF Distinct
    <2>1. n + i \in DOMAIN s /\ n + j \in DOMAIN s /\ s[n + i] = s[n + j]
      BY SplitType
    <2>2. n + i = n + j
      BY <1>4, <2>1 DEF Distinct
    <2>3. i \in Nat /\ j \in Nat
      BY SplitType
    <2>. QED BY <2>2, <2>3
  <1>5. ASSUME Distinct(s), NEW e \in Elements(Front(s, n))
        PROVE  e \notin Elements(After(s, n))
    <2> SUFFICES ASSUME e \in Elements(After(s, n)) PROVE FALSE
      OBVIOUS
    <2>1. PICK i \in DOMAIN Front(s, n) : Front(s, n)[i] = e
      BY DEF Elements
    <2>2. PICK j \in DOMAIN After(s, n) : After(s, n)[j] = e
      BY DEF Elements
    <2>3. i \in DOMAIN s /\ n + j \in DOMAIN s /\ i <= n /\ s[i] = s[n + j]
      BY <2>1, <2>2, SplitType
    <2>4. i = n + j
      BY <1>5, <2>3 DEF Distinct
    <2>5. j \in Nat /\ j > 0
      BY SplitType
    <2>. QED BY <2>3, <2>4, <2>5
  <1>. QED BY <1>1, <1>2, <1>3, <1>4, <1>5 DEF Disjoint

\* Sequences that are joined.
LEMMA JoinElements ==
  ASSUME NEW S, NEW s \in Seq(S), NEW t \in Seq(S)
  PROVE  /\ Elements(s \o t) = Elements(s) \cup Elements(t)
         /\ Distinct(s) /\ Distinct(t) /\ Disjoint(Elements(s), Elements(t)) => Distinct(s \o t)
  <1>1. s \o t \in Seq(S) /\ Len(s \o t) = Len(s) + Len(t)
    OBVIOUS
  <1>2. ASSUME NEW i \in DOMAIN (s \o t)
        PROVE  \/ i \in DOMAIN s /\ (s \o t)[i] = s[i]
               \/ i > Len(s) /\ i - Len(s) \in DOMAIN t /\ (s \o t)[i] = t[i - Len(s)]
    <2>1. CASE i <= Len(s)
      BY <2>1
    <2>2. CASE i > Len(s)
      <3>1. i \in 1..(Len(s) + Len(t))
        BY <1>1
      <3>2. i - Len(s) \in 1..Len(t)
        BY <2>2, <3>1
      <3>. QED BY <2>2, <3>1, <3>2
    <2>. QED BY <2>1, <2>2
  <1>3. \A i \in DOMAIN s : i \in DOMAIN (s \o t) /\ (s \o t)[i] = s[i]
    OBVIOUS
  <1>4. \A i \in DOMAIN t : Len(s) + i \in DOMAIN (s \o t) /\ (s \o t)[Len(s) + i] = t[i]
    OBVIOUS
  <1>5. Elements(s \o t) = Elements(s) \cup Elements(t)
    <2>1. ASSUME NEW e \in Elements(s \o t) PROVE e \in Elements(s) \cup Elements(t)
      <3>1. PICK i \in DOMAIN (s \o t) : (s \o t)[i] = e
        BY DEF Elements
      <3>. QED BY <1>2, <3>1 DEF Elements
    <2>2. ASSUME NEW e \in Elements(s) PROVE e \in Elements(s \o t)
      <3>1. PICK i \in DOMAIN s : s[i] = e
        BY DEF Elements
      <3>. QED BY <1>3, <3>1 DEF Elements
    <2>3. ASSUME NEW e \in Elements(t) PROVE e \in Elements(s \o t)
      <3>1. PICK i \in DOMAIN t : t[i] = e
        BY DEF Elements
      <3>. QED BY <1>4, <3>1 DEF Elements
    <2>. QED BY <2>1, <2>2, <2>3
  <1>6. ASSUME Distinct(s), Distinct(t), Disjoint(Elements(s), Elements(t))
        PROVE  Distinct(s \o t)
    <2> SUFFICES ASSUME NEW i \in DOMAIN (s \o t), NEW j \in DOMAIN (s \o t),
                        (s \o t)[i] = (s \o t)[j]
                 PROVE  i = j
      BY DEF Distinct
    <2>1. \A k \in DOMAIN s, l \in DOMAIN t : s[k] # t[l]
      BY <1>6 DEF Disjoint, Elements
    <2>2. CASE i \in DOMAIN s /\ (s \o t)[i] = s[i]
      BY <1>2, <1>6, <2>1, <2>2 DEF Distinct
    <2>3. CASE i > Len(s) /\ i - Len(s) \in DOMAIN t /\ (s \o t)[i] = t[i - Len(s)]
      <3>1. j > Len(s) /\ j - Len(s) \in DOMAIN t /\ (s \o t)[j] = t[j - Len(s)]
        BY <1>2, <2>1, <2>3
      <3>2. i - Len(s) = j - Len(s)
        BY <1>6, <2>3, <3>1 DEF Distinct
      <3>3. i \in Nat /\ j \in Nat
        BY <1>1
      <3>. QED BY <3>2, <3>3
    <2>. QED BY <1>2, <2>2, <2>3
  <1>. QED BY <1>5, <1>6

\* An event that is appended.
LEMMA AppendElements ==
  ASSUME NEW S, NEW s \in Seq(S), NEW e \in S
  PROVE  /\ Append(s, e) \in Seq(S)
         /\ Elements(Append(s, e)) = Elements(s) \cup {e}
         /\ Distinct(s) /\ e \notin Elements(s) => Distinct(Append(s, e))
  BY DEF Elements, Distinct

-----------------------------------------------------------------------------
(* The invariant *)

\* Nothing is queued, posted or streamed that was not made, and nothing twice.
MadeOK ==
    /\ Distinct(queue) /\ Elements(queue) \subseteq created
    /\ \A b \in posts : Distinct(b) /\ Elements(b) \subseteq created
    /\ \A b, c \in posts : b # c => Disjoint(Elements(b), Elements(c))
    /\ Distinct(backlog) /\ Elements(backlog) \subseteq published
    /\ pending \subseteq published

\* A worker holds pending events that are no longer to be read: not stored before its
\* commit, stored after it.
WorkersOK ==
    \A d \in Drainers :
        /\ pc[d] \in {"off", "ready"} => batch[d] = <<>>
        /\ \A e \in Elements(batch[d]) :
             /\ e \in pending /\ e \notin Elements(backlog)
             /\ pc[d] = "write" => stored[e] = 0
             /\ pc[d] = "ack" => stored[e] > 0

\* A row is that of an event that was read.
RowsOK == \A e \in Events : stored[e] > 0 => e \in published /\ e \notin Elements(backlog)

IInv ==
    /\ TypeOK
    /\ MadeOK
    /\ WorkersOK
    /\ RowsOK
    /\ OneCopy
    /\ StoredOnce
    /\ NothingVanishes

\* Events that begin their way as q, made by the browser and nowhere else.
QueueFits(q, made) ==
    /\ q \in Seq(Events) /\ Distinct(q)
    /\ created \subseteq made /\ made \subseteq Events /\ Elements(q) \subseteq made
    /\ Disjoint(Elements(q), published)
    /\ \A b \in posts : Disjoint(Elements(b), Elements(q))

\* _flush moves events from the queue to a request.
LEMMA FlushKeeps ==
  ASSUME IInv, NEW q, QueueFits(q, created'), FlushQueue(q),
         UNCHANGED <<loggedIn, redis, drain, server, faults>>
  PROVE  IInv'
  <1>1. UNCHANGED <<group, backlog, kept, pending, pc, batch, stored,
                    published, trimmed>>
    BY DEF redis, drain, server
  <1>2. MaxBatch \in Nat
    BY EventAssumption
  <1>3. \/ queue' = q /\ posts' = posts
        \/ queue' = After(q, MaxBatch) /\ posts' = posts \cup {Front(q, MaxBatch)}
    BY DEF FlushQueue
  <1>. DEFINE F == Front(q, MaxBatch)
              A == After(q, MaxBatch)
  <1>4. /\ F \in Seq(Events) /\ A \in Seq(Events) /\ Distinct(F) /\ Distinct(A)
        /\ Elements(F) \subseteq Elements(q) /\ Elements(A) \subseteq Elements(q)
        /\ Disjoint(Elements(F), Elements(A))
    <2>1. q \in Seq(Events) /\ Distinct(q)
      BY DEF QueueFits
    <2>2. F \in Seq(Events) /\ A \in Seq(Events)
      BY <1>2, <2>1, SplitType
    <2>3. /\ Elements(F) \cup Elements(A) = Elements(q)
          /\ Distinct(F) /\ Distinct(A) /\ Disjoint(Elements(F), Elements(A))
      BY <1>2, <2>1, SplitElements
    <2>. QED BY <2>2, <2>3
  <1>. HIDE DEF F, A
  <1>5. TypeOK'
    BY <1>1, <1>3, <1>4 DEF F, A, IInv, TypeOK, QueueFits, FlushQueue
  <1>6. MadeOK'
    BY <1>1, <1>3, <1>4 DEF F, A, IInv, MadeOK, QueueFits, Disjoint
  <1>7. OneCopy'
    BY <1>1, <1>3, <1>4 DEF F, A, IInv, OneCopy, QueueFits, Disjoint
  <1>8. WorkersOK' /\ RowsOK' /\ StoredOnce' /\ NothingVanishes'
    BY <1>1 DEF IInv, WorkersOK, RowsOK, StoredOnce, NothingVanishes
  <1>. QED BY <1>5, <1>6, <1>7, <1>8 DEF IInv

\* A new event is appended to the queue, which may then be flushed.
LEMMA PushKeeps ==
  ASSUME IInv, NEW e \in Events, Push(e)
  PROVE  IInv'
  <1>. DEFINE q == Append(queue, e)
  <1>1. queue \in Seq(Events) /\ created' = created \cup {e} /\ e \notin created
    BY DEF Push, IInv, TypeOK
  <1>2. e \notin Elements(queue) /\ e \notin published /\ \A b \in posts : e \notin Elements(b)
    BY <1>1 DEF IInv, TypeOK, MadeOK
  <1>3. QueueFits(q, created')
    BY <1>1, <1>2, AppendElements DEF QueueFits, IInv, TypeOK, MadeOK, OneCopy, Disjoint
  <1>4. CASE FlushQueue(q)
    BY <1>3, <1>4, FlushKeeps DEF Push
  <1>5. CASE queue' = q /\ timer' = TRUE /\ UNCHANGED posts
    <2>1. UNCHANGED <<loggedIn, group, backlog, kept, pending, pc, batch, stored,
                      published, trimmed, faults>>
      BY DEF Push, redis, drain, server
    <2>2. TypeOK'
      BY <1>1, <1>3, <1>5, <2>1 DEF IInv, TypeOK, QueueFits
    <2>3. MadeOK'
      BY <1>3, <1>5, <2>1 DEF IInv, MadeOK, QueueFits
    <2>4. OneCopy'
      BY <1>3, <1>5, <2>1 DEF IInv, OneCopy, QueueFits, Disjoint
    <2>5. WorkersOK' /\ RowsOK' /\ StoredOnce' /\ NothingVanishes'
      BY <2>1 DEF IInv, WorkersOK, RowsOK, StoredOnce, NothingVanishes
    <2>. QED BY <2>2, <2>3, <2>4, <2>5 DEF IInv
  <1>. QED BY <1>4, <1>5 DEF Push

\* The timer, and the page that is hidden.
LEMMA FlushesKeep ==
  ASSUME IInv, TimerFlush \/ HideFlush
  PROVE  IInv'
  <1>1. QueueFits(queue, created')
    BY DEF TimerFlush, HideFlush, QueueFits, IInv, TypeOK, MadeOK, OneCopy, Disjoint
  <1>. QED BY <1>1, FlushKeeps DEF TimerFlush, HideFlush

\* Steps of Redis and of the workers that neither read, store nor acknowledge.
LEMMA QuietKeeps ==
  ASSUME IInv, TypeOK',
         UNCHANGED <<queue, posts, created, published, backlog, pending, stored,
                     trimmed>>,
         \A d \in Drainers : \/ pc'[d] = pc[d] /\ batch'[d] = batch[d]
                             \/ /\ batch[d] = <<>> /\ batch'[d] = <<>>
                                /\ pc'[d] \in {"off", "ready"}
                             \/ pc'[d] \in {"off", "ready"} /\ batch'[d] = <<>>
  PROVE  IInv'
  <1>. Elements(<<>>) = {}
    BY DEF Elements
  <1>1. MadeOK'
    BY DEF IInv, MadeOK
  <1>2. WorkersOK'
    BY DEF IInv, WorkersOK
  <1>3. OneCopy'
    BY DEF IInv, OneCopy
  <1>4. RowsOK' /\ StoredOnce' /\ NothingVanishes'
    BY DEF IInv, RowsOK, StoredOnce, NothingVanishes
  <1>. QED BY <1>1, <1>2, <1>3, <1>4 DEF IInv

\* The stream after the XADD of a posted batch: MAXLEN drops entries, and makes none.
LEMMA StreamAfterAdd ==
  ASSUME IInv, NEW b \in posts, AddToStream(b)
  PROVE  LET both == Elements(backlog) \cup Elements(b) IN
         /\ backlog' \in Seq(Events) /\ Distinct(backlog') /\ Elements(backlog') \subseteq both
         /\ kept' \in Nat
         /\ trimmed' = trimmed \cup (both \ Elements(backlog'))
         /\ published' = published \cup Elements(b)
         /\ UNCHANGED <<group, pending>>
  <1>. DEFINE all == backlog \o b
  <1>1. /\ b \in Seq(Events) /\ backlog \in Seq(Events) /\ all \in Seq(Events)
        /\ kept \in Nat /\ MaxStream \in Nat
    BY EventAssumption DEF IInv, TypeOK
  <1>2. Disjoint(Elements(backlog), Elements(b)) /\ Distinct(b) /\ Distinct(backlog)
    BY DEF IInv, MadeOK, OneCopy, Disjoint
  <1>3. Elements(all) = Elements(backlog) \cup Elements(b) /\ Distinct(all)
    BY <1>1, <1>2, JoinElements
  <1>4. PICK n \in Nat :
          /\ kept' = IF n < kept THEN kept - n ELSE 0
          /\ backlog' = IF n > kept THEN After(all, n - kept) ELSE all
          /\ trimmed' = trimmed \cup (Elements(all) \ Elements(backlog'))
          /\ published' = published \cup Elements(b)
          /\ UNCHANGED <<group, pending>>
    BY <1>1 DEF AddToStream
  <1>5. backlog' \in Seq(Events) /\ Distinct(backlog') /\ Elements(backlog') \subseteq Elements(all)
    <2>1. CASE n > kept
      <3>1. n - kept \in Nat /\ all \in Seq(Events)
        BY <1>1, <2>1
      <3>2. backlog' = After(all, n - kept)
        BY <1>4, <2>1
      <3> HIDE DEF all
      <3>3. After(all, n - kept) \in Seq(Events)
        BY <3>1, SplitType
      <3>4. Distinct(After(all, n - kept)) /\ Elements(After(all, n - kept)) \subseteq Elements(all)
        BY <1>3, <3>1, SplitElements
      <3>. QED BY <3>2, <3>3, <3>4
    <2>2. CASE ~(n > kept)
      BY <1>1, <1>3, <1>4, <2>2
    <2>. QED BY <2>1, <2>2
  <1>. HIDE DEF all
  <1>6. kept' \in Nat
    BY <1>1, <1>4
  <1>. QED BY <1>3, <1>4, <1>5, <1>6

\* XADD of a posted batch, of which MAXLEN may drop the oldest entries.
LEMMA AddKeeps ==
  ASSUME IInv, NEW b \in posts, AddToStream(b), posts' = posts \ {b},
         faults' \in 0..MaxFaults,
         UNCHANGED <<client, drain>>
  PROVE  IInv'
  <1>1. LET both == Elements(backlog) \cup Elements(b) IN
        /\ backlog' \in Seq(Events) /\ Distinct(backlog') /\ Elements(backlog') \subseteq both
        /\ kept' \in Nat
        /\ trimmed' = trimmed \cup (both \ Elements(backlog'))
        /\ published' = published \cup Elements(b)
        /\ UNCHANGED <<group, pending>>
    BY StreamAfterAdd
  <1>2. UNCHANGED <<loggedIn, queue, timer, created, pc, batch, stored>>
    BY DEF client, drain
  <1>3. Elements(b) \subseteq created /\ Elements(backlog) \subseteq published
    BY DEF IInv, MadeOK
  <1>4. TypeOK'
    BY <1>1, <1>2, <1>3 DEF IInv, TypeOK
  <1>5. MadeOK'
    BY <1>1, <1>2, <1>3 DEF IInv, MadeOK
  <1>6. \A e \in Elements(b) : e \notin published /\ e \notin Elements(queue)
    BY DEF IInv, OneCopy
  <1>7. WorkersOK'
    BY <1>1, <1>2, <1>6 DEF IInv, WorkersOK, MadeOK
  <1>8. OneCopy'
    <2>1. \A c \in posts' : /\ c \in posts
                           /\ Disjoint(Elements(c), Elements(b))
      BY DEF IInv, MadeOK
    <2>2. pending \subseteq published
      BY DEF IInv, MadeOK
    <2>. QED BY <1>1, <1>2, <1>6, <2>1, <2>2 DEF IInv, OneCopy, Disjoint
  <1>9. RowsOK' /\ StoredOnce'
    BY <1>1, <1>2, <1>6 DEF IInv, RowsOK, StoredOnce, TypeOK
  <1>10. NothingVanishes'
    BY <1>1, <1>2 DEF IInv, NothingVanishes
  <1>. QED BY <1>4, <1>5, <1>7, <1>8, <1>9, <1>10 DEF IInv

\* A batch that is lost or refused.
LEMMA DropKeeps ==
  ASSUME IInv, NEW b \in posts, posts' = posts \ {b},
         faults' \in 0..MaxFaults,
         UNCHANGED <<client, redis, drain, published, trimmed>>
  PROVE  IInv'
  <1>1. UNCHANGED <<loggedIn, queue, timer, created, group, backlog, kept, pending,
                    pc, batch, stored>>
    BY DEF client, redis, drain
  <1>2. TypeOK'
    BY <1>1 DEF IInv, TypeOK, MadeOK
  <1>3. MadeOK'
    BY <1>1 DEF IInv, MadeOK
  <1>4. OneCopy'
    BY <1>1 DEF IInv, OneCopy
  <1>5. WorkersOK' /\ RowsOK' /\ StoredOnce' /\ NothingVanishes'
    BY <1>1 DEF IInv, WorkersOK, RowsOK, StoredOnce, NothingVanishes
  <1>. QED BY <1>2, <1>3, <1>4, <1>5 DEF IInv

\* POST /v1/interactions.
LEMMA PublishKeeps ==
  ASSUME IInv, NEW b \in posts, Publish(b) \/ Refuse(b)
  PROVE  IInv'
  <1>1. faults' \in 0..MaxFaults
    BY EventAssumption DEF Publish, Refuse, Fault, IInv, TypeOK
  <1>2. CASE Publish(b) /\ AddToStream(b)
    BY <1>1, <1>2, AddKeeps DEF Publish
  <1>3. CASE Publish(b) /\ UNCHANGED <<redis, published, trimmed>>
    BY <1>1, <1>3, DropKeeps DEF Publish
  <1>4. CASE Refuse(b)
    BY <1>1, <1>4, DropKeeps DEF Refuse, server
  <1>. QED BY <1>2, <1>3, <1>4 DEF Publish

\* XREADGROUP moves events from the stream to the group's pending list and a worker.
LEMMA ReadKeeps ==
  ASSUME IInv, NEW d \in Drainers, DrainRead(d)
  PROVE  IInv'
  <1>. DEFINE F == Front(backlog, DrainBatch)
              A == After(backlog, DrainBatch)
  <1>1. /\ backlog \in Seq(Events) /\ DrainBatch \in Nat /\ Distinct(backlog)
        /\ Elements(backlog) \subseteq published
    BY EventAssumption DEF IInv, TypeOK, MadeOK
  <1>2. F \in Seq(Events) /\ A \in Seq(Events) /\ Len(F) \in Nat
    BY <1>1, SplitType
  <1>3. /\ Elements(F) \cup Elements(A) = Elements(backlog)
        /\ Distinct(A) /\ Disjoint(Elements(F), Elements(A))
    BY <1>1, SplitElements
  <1>4. /\ pc[d] = "ready"
        /\ batch' = [batch EXCEPT ![d] = F] /\ pending' = pending \cup Elements(F)
        /\ kept' = kept + Len(F) /\ backlog' = A /\ pc' = [pc EXCEPT ![d] = "write"]
        /\ UNCHANGED <<loggedIn, queue, timer, created, posts, group, stored,
                       published, trimmed, faults>>
    BY DEF DrainRead, client, server
  <1>. HIDE DEF F, A
  <1>5. TypeOK'
    BY <1>1, <1>2, <1>3, <1>4 DEF IInv, TypeOK
  <1>6. MadeOK'
    BY <1>1, <1>3, <1>4 DEF IInv, MadeOK
  <1>7. batch \in [Drainers -> Seq(Events)] /\ pc \in [Drainers -> {"off", "ready", "write", "ack"}]
    BY DEF IInv, TypeOK
  <1>8. \A e \in Elements(F) : e \in Events /\ e \in Elements(backlog) /\ e \notin Elements(A)
    BY <1>1, <1>3 DEF Disjoint, IInv, TypeOK
  <1>9. WorkersOK'
    <2>1. \A e \in Elements(F) : stored[e] = 0
      BY <1>8 DEF IInv, RowsOK, TypeOK
    <2>2. \A c \in Drainers \ {d} : batch'[c] = batch[c] /\ pc'[c] = pc[c]
      BY <1>4, <1>7
    <2>3. batch'[d] = F /\ pc'[d] = "write"
      BY <1>4, <1>7
    <2>4. /\ Elements(A) \subseteq Elements(backlog) /\ pending' = pending \cup Elements(F)
          /\ stored' = stored /\ backlog' = A
      BY <1>3, <1>4
    <2>5. ASSUME NEW c \in Drainers, c # d
          PROVE  /\ pc'[c] \in {"off", "ready"} => batch'[c] = <<>>
                 /\ \A e \in Elements(batch'[c]) :
                      /\ e \in pending' /\ e \notin Elements(backlog')
                      /\ pc'[c] = "write" => stored'[e] = 0
                      /\ pc'[c] = "ack" => stored'[e] > 0
      BY <2>2, <2>4, <2>5 DEF IInv, WorkersOK
    <2>6. \A e \in Elements(F) : e \in pending' /\ e \notin Elements(backlog') /\ stored'[e] = 0
      BY <1>1, <1>8, <2>1, <2>4
    <2>. QED BY <2>3, <2>5, <2>6 DEF WorkersOK
  <1>10. OneCopy'
    <2>1. \A c \in Drainers : \A e \in Elements(batch[c]) : e \notin Elements(backlog)
      BY DEF IInv, WorkersOK
    <2>2. \A c, e \in Drainers : c # e => Elements(batch'[c]) \cap Elements(batch'[e]) = {}
      BY <1>4, <1>7, <1>8, <2>1 DEF IInv, OneCopy
    <2>3. Elements(backlog') \cap pending' = {}
      BY <1>3, <1>4 DEF Disjoint, IInv, OneCopy
    <2>. QED BY <1>4, <2>2, <2>3 DEF IInv, OneCopy
  <1>11. RowsOK' /\ StoredOnce' /\ NothingVanishes'
    BY <1>3, <1>4 DEF IInv, RowsOK, StoredOnce, NothingVanishes
  <1>. QED BY <1>5, <1>6, <1>9, <1>10, <1>11 DEF IInv

\* One transaction stores a batch that no other worker has, and that has no rows.
LEMMA CommitKeeps ==
  ASSUME IInv, NEW d \in Drainers, DrainCommit(d)
  PROVE  IInv'
  <1>1. UNCHANGED <<loggedIn, queue, timer, created, posts, group, backlog, kept,
                    pending, batch, published, trimmed, faults>>
    BY DEF DrainCommit, client, redis, server
  <1>2. /\ pc[d] = "write" /\ pc' = [pc EXCEPT ![d] = "ack"]
        /\ stored' = [e \in Events |-> IF e \in Elements(batch[d]) THEN stored[e] + 1 ELSE stored[e]]
    BY DEF DrainCommit
  <1>3. stored \in [Events -> Nat] /\ pc \in [Drainers -> {"off", "ready", "write", "ack"}]
    BY DEF IInv, TypeOK
  <1>4. \A e \in Elements(batch[d]) : e \in Events /\ e \in published /\ e \notin Elements(backlog) /\ stored[e] = 0
    BY <1>2 DEF IInv, WorkersOK, MadeOK, TypeOK
  <1>5. TypeOK'
    BY <1>1, <1>2, <1>3 DEF IInv, TypeOK
  <1>6. MadeOK' /\ OneCopy'
    BY <1>1 DEF IInv, MadeOK, OneCopy
  <1>7. WorkersOK'
    <2>1. \A e \in Elements(batch[d]) : stored'[e] > 0
      BY <1>2, <1>4
    <2>2. \A c \in Drainers : c # d => \A e \in Elements(batch[c]) : e \in Events /\ e \notin Elements(batch[d])
      BY DEF IInv, OneCopy, WorkersOK, TypeOK
    <2>3. \A c \in Drainers : c # d => \A e \in Elements(batch[c]) : stored'[e] = stored[e]
      BY <1>2, <2>2
    <2>. QED BY <1>1, <1>2, <1>3, <2>1, <2>3 DEF IInv, WorkersOK
  <1>8. RowsOK' /\ StoredOnce' /\ NothingVanishes'
    BY <1>1, <1>2, <1>3, <1>4 DEF IInv, RowsOK, StoredOnce, NothingVanishes, TypeOK
  <1>. QED BY <1>5, <1>6, <1>7, <1>8 DEF IInv

\* XACK of a batch whose rows are committed.
LEMMA AckKeeps ==
  ASSUME IInv, NEW d \in Drainers, DrainAck(d)
  PROVE  IInv'
  <1>. Elements(<<>>) = {}
    BY DEF Elements
  <1>1. UNCHANGED <<loggedIn, queue, timer, created, posts, group, backlog, kept,
                    stored, published, trimmed, faults>>
    BY DEF DrainAck, client, server
  <1>2. /\ pc[d] = "ack" /\ pending' = pending \ Elements(batch[d])
        /\ \E there \in {"off", "ready"} : pc' = [pc EXCEPT ![d] = there]
        /\ batch' = [batch EXCEPT ![d] = <<>>]
    BY DEF DrainAck, Rest
  <1>3. TypeOK'
    BY <1>1, <1>2 DEF IInv, TypeOK
  <1>4. MadeOK'
    BY <1>1, <1>2 DEF IInv, MadeOK
  <1>5. WorkersOK'
    <2>1. \A c \in Drainers : c # d => /\ batch'[c] = batch[c] /\ pc'[c] = pc[c]
                                      /\ Elements(batch[c]) \cap Elements(batch[d]) = {}
      BY <1>2 DEF IInv, OneCopy, TypeOK
    <2>2. batch'[d] = <<>> /\ pc'[d] \in {"off", "ready"}
      BY <1>2 DEF IInv, TypeOK
    <2>. QED BY <1>1, <1>2, <2>1, <2>2 DEF IInv, WorkersOK
  <1>6. OneCopy'
    BY <1>1, <1>2 DEF IInv, OneCopy, TypeOK
  <1>7. NothingVanishes'
    BY <1>1, <1>2 DEF IInv, NothingVanishes, WorkersOK
  <1>8. RowsOK' /\ StoredOnce'
    BY <1>1 DEF IInv, RowsOK, StoredOnce
  <1>. QED BY <1>3, <1>4, <1>5, <1>6, <1>7, <1>8 DEF IInv

\* Workers that start, find nothing, fail or are killed, and readers who log in or out.
LEMMA OthersKeep ==
  ASSUME IInv,
         \/ \E d \in Drainers : \/ StartContinuous(d) \/ StartCron(d) \/ DrainNothing(d)
                                \/ DrainFail(d) \/ DrainCrash(d)
         \/ Login \/ Logout \/ UNCHANGED vars
  PROVE  IInv'
  <1>1. CASE \E d \in Drainers : \/ StartContinuous(d) \/ StartCron(d) \/ DrainNothing(d)
                                \/ DrainFail(d) \/ DrainCrash(d)
    <2>1. PICK d \in Drainers : \/ StartContinuous(d) \/ StartCron(d) \/ DrainNothing(d)
                               \/ DrainFail(d) \/ DrainCrash(d)
      BY <1>1
    <2>2. /\ UNCHANGED <<loggedIn, queue, timer, created, posts, backlog, kept,
                         pending, stored, published, trimmed>>
          /\ \E there \in {"off", "ready"} : pc' = [pc EXCEPT ![d] = there]
          /\ \/ batch' = [batch EXCEPT ![d] = <<>>]
             \/ pc[d] = "off" /\ UNCHANGED batch
          /\ group' \in {group, TRUE}
      BY <2>1 DEF StartContinuous, StartCron, DrainNothing, DrainFail, DrainCrash,
             Rest, client, redis, server
    <2>3. faults' \in 0..MaxFaults
      BY <2>1, EventAssumption DEF StartContinuous, StartCron, DrainNothing,
             DrainFail, DrainCrash, Fault, IInv, TypeOK
    <2>4. TypeOK'
      <3>1. pc' \in [Drainers -> {"off", "ready", "write", "ack"}] /\ group' \in BOOLEAN
        BY <2>2 DEF IInv, TypeOK
      <3>2. <<>> \in Seq(Events)
        OBVIOUS
      <3>3. batch' \in [Drainers -> Seq(Events)]
        BY <2>2, <3>2 DEF IInv, TypeOK
      <3>. QED BY <2>2, <2>3, <3>1, <3>3 DEF IInv, TypeOK
    <2>5. pc[d] = "off" => batch[d] = <<>>
      BY DEF IInv, WorkersOK
    <2>. QED BY <2>2, <2>4, <2>5, QuietKeeps DEF IInv, TypeOK
  <1>2. CASE Login \/ Logout \/ UNCHANGED vars
    <2>1. /\ UNCHANGED <<queue, timer, created, posts, group, backlog, kept,
                         pending, pc, batch, stored, published, trimmed,
                         faults>>
          /\ loggedIn' \in {loggedIn, TRUE, FALSE}
      BY <1>2 DEF Login, Logout, vars, redis, drain, server
    <2>2. TypeOK'
      BY <2>1 DEF IInv, TypeOK
    <2>. QED BY <2>1, <2>2, QuietKeeps
  <1>. QED BY <1>1, <1>2

\* A logged-in reader, empty queues and tables.
LEMMA InitHolds == Init => IInv
  <1> SUFFICES ASSUME Init PROVE IInv
    OBVIOUS
  <1>1. Elements(<<>>) = {} /\ Distinct(<<>>)
    BY DEF Elements, Distinct
  <1>2. 0 \in 0..MaxFaults /\ <<>> \in Seq(Events)
    BY EventAssumption
  <1>3. TypeOK
    BY <1>2 DEF Init, TypeOK
  <1>4. MadeOK
    BY <1>1 DEF Init, MadeOK
  <1>5. WorkersOK
    BY <1>1 DEF Init, WorkersOK
  <1>6. OneCopy
    BY <1>1 DEF Init, OneCopy
  <1>7. RowsOK /\ StoredOnce /\ NothingVanishes
    BY DEF Init, RowsOK, StoredOnce, NothingVanishes
  <1>. QED BY <1>3, <1>4, <1>5, <1>6, <1>7 DEF IInv

\* Every step keeps the invariant.
LEMMA NextKeeps ==
  ASSUME IInv, [Next]_vars
  PROVE  IInv'
  BY PushKeeps, FlushesKeep, PublishKeeps, ReadKeeps, CommitKeeps, AckKeeps, OthersKeep DEF Next,
         Drain

\* The inductive invariant, whatever fails.
LEMMA Invariance == Spec => []IInv
  BY InitHolds, NextKeeps, PTL DEF Spec

\* Every variable keeps its type; in particular the length of the stream, which XADD
\* and MAXLEN change together, is never negative.
THEOREM TypeCorrect == Spec => []TypeOK
  <1>1. IInv => TypeOK
    BY DEF IInv
  <1>. QED BY <1>1, Invariance, PTL

\* An event has at most one row, whatever fails and however many workers run: an event
\* that was read once is never read again (XREADGROUP with ">").
THEOREM Once == Spec => []StoredOnce
  <1>1. IInv => StoredOnce
    BY DEF IInv
  <1>. QED BY <1>1, Invariance, PTL

\* An event is in one place on its way: no flush, XADD or XREADGROUP copies it.
THEOREM Copies == Spec => []OneCopy
  <1>1. IInv => OneCopy
    BY DEF IInv
  <1>. QED BY <1>1, Invariance, PTL

\* An event reaches the table at most once.
THEOREM Delivered == Spec => []AtMostOnce
  <1>1. OneCopy /\ StoredOnce => AtMostOnce
    BY DEF AtMostOnce
  <1>. QED BY <1>1, Once, Copies, PTL

\* A published event is waiting, pending, stored, or was trimmed from a full stream:
\* drain_stream_to_db acknowledges after its commit.
THEOREM Accounted == Spec => []NothingVanishes
  <1>1. IInv => NothingVanishes
    BY DEF IInv
  <1>. QED BY <1>1, Invariance, PTL
\* The types, and what is forgotten.
THEOREM Kept == Spec => []EventsInv
  <1>1. TypeOK /\ NothingVanishes => EventsInv
    BY DEF EventsInv
  <1>. QED BY <1>1, TypeCorrect, Accounted, PTL

-----------------------------------------------------------------------------
(* The pipeline is a channel that delivers at most once *)

LEMMA AddAccepts ==
  ASSUME IInv, NEW b \in posts, AddToStream(b), UNCHANGED stored
  PROVE  Channel!Next
  <1>. DEFINE both == Elements(backlog) \cup Elements(b)
              D == both \ Elements(backlog')
  <1>1. /\ Elements(backlog') \subseteq both
        /\ trimmed' = trimmed \cup (both \ Elements(backlog'))
        /\ published' = published \cup Elements(b)
        /\ UNCHANGED pending
    BY StreamAfterAdd
  <1>2. /\ Elements(b) \subseteq Events \ published
        /\ Elements(backlog) \subseteq published /\ published \subseteq Events
        /\ Elements(backlog) \cap pending = {} /\ pending \subseteq published
    BY DEF IInv, TypeOK, MadeOK, OneCopy
  <1>3. D \subseteq OnTheWay \cup Elements(b)
    BY DEF OnTheWay
  <1>4. OnTheWay' = (OnTheWay \cup Elements(b)) \ D
    BY <1>1, <1>2 DEF OnTheWay
  <1>5. Channel!Accept(Elements(b), D)
    BY <1>1, <1>2, <1>3, <1>4 DEF Channel!Accept
  <1>6. Elements(b) \in SUBSET Events /\ D \in SUBSET Events
    BY <1>2
  <1>. QED BY <1>5, <1>6 DEF Channel!Next

\* What a worker has read and not stored is on its way.
LEMMA BatchWaits ==
  ASSUME IInv, NEW d \in Drainers, pc[d] = "write"
  PROVE  Elements(batch[d]) \subseteq OnTheWay
  <1>. SUFFICES ASSUME NEW e \in Elements(batch[d])
                PROVE  e \in OnTheWay
    OBVIOUS
  <1>. QED BY DEF IInv, WorkersOK, OnTheWay, NothingVanishes

LEMMA CommitDelivers ==
  ASSUME IInv, NEW d \in Drainers, DrainCommit(d)
  PROVE  Channel!Next
  <1>. DEFINE S == Elements(batch[d])
  <1>1. /\ pc[d] = "write"
        /\ stored' = [e \in Events |-> IF e \in S THEN stored[e] + 1 ELSE stored[e]]
        /\ UNCHANGED <<backlog, pending, published, trimmed>>
    BY DEF DrainCommit, redis, server
  <1>2. /\ \A e \in S : e \in Events /\ e \notin Elements(backlog) /\ stored[e] = 0
        /\ S \subseteq OnTheWay
        /\ stored \in [Events -> Nat] /\ pending \subseteq Events
    BY <1>1, BatchWaits DEF IInv, WorkersOK, TypeOK
  <1>. HIDE DEF S
  <1>3. stored' = [e \in Events |-> IF e \in S THEN 1 ELSE stored[e]]
    BY <1>1, <1>2
  <1>4. OnTheWay' = OnTheWay \ S
    BY <1>1, <1>2 DEF OnTheWay
  <1>5. Channel!Deliver(S) /\ S \in SUBSET Events
    BY <1>1, <1>2, <1>3, <1>4 DEF Channel!Deliver
  <1>. QED BY <1>5 DEF Channel!Next

\* A read moves what waits from the stream to the group.
LEMMA ReadStutters ==
  ASSUME IInv, NEW d \in Drainers, DrainRead(d)
  PROVE  UNCHANGED Channel!vars
  <1>. DEFINE F == Front(backlog, DrainBatch)
              A == After(backlog, DrainBatch)
  <1>1. backlog \in Seq(Events) /\ DrainBatch \in Nat
    BY EventAssumption DEF IInv, TypeOK
  <1>2. Elements(F) \cup Elements(A) = Elements(backlog)
    BY <1>1, SplitElements
  <1>3. /\ pending' = pending \cup Elements(F) /\ backlog' = A
        /\ UNCHANGED <<stored, published, trimmed>>
    BY DEF DrainRead, server
  <1>. HIDE DEF F, A
  <1>4. \A e \in Elements(backlog) : stored[e] = 0
    BY DEF IInv, RowsOK, MadeOK, TypeOK
  <1>5. OnTheWay' = OnTheWay
    BY <1>2, <1>3, <1>4 DEF OnTheWay
  <1>. QED BY <1>3, <1>5 DEF Channel!vars

\* An acknowledgement forgets what has its row.
LEMMA AckStutters ==
  ASSUME IInv, NEW d \in Drainers, DrainAck(d)
  PROVE  UNCHANGED Channel!vars
  <1>1. /\ pc[d] = "ack" /\ pending' = pending \ Elements(batch[d])
        /\ UNCHANGED <<backlog, stored, published, trimmed>>
    BY DEF DrainAck, server
  <1>2. \A e \in Elements(batch[d]) : stored[e] # 0
    BY <1>1 DEF IInv, WorkersOK
  <1>3. OnTheWay' = OnTheWay
    BY <1>1, <1>2 DEF OnTheWay
  <1>. QED BY <1>1, <1>3 DEF Channel!vars

LEMMA QuietStutters ==
  ASSUME UNCHANGED <<backlog, pending, stored, published, trimmed>>
  PROVE  UNCHANGED Channel!vars
  BY DEF Channel!vars, OnTheWay

LEMMA StepsOfTheChannel ==
  ASSUME IInv, [Next]_vars
  PROVE  [Channel!Next]_(Channel!vars)
  <1>1. CASE \/ \E e \in Events : Push(e)
             \/ TimerFlush \/ HideFlush \/ Logout \/ Login \/ UNCHANGED vars
    BY <1>1, QuietStutters DEF Push, TimerFlush, HideFlush, Logout, Login, redis, drain, server, vars
  <1>2. ASSUME NEW b \in posts, Publish(b)
        PROVE  [Channel!Next]_(Channel!vars)
    <2>1. CASE AddToStream(b)
      BY <1>2, <2>1, AddAccepts DEF Publish, drain
    <2>2. CASE UNCHANGED <<redis, published, trimmed>>
      BY <1>2, <2>2, QuietStutters DEF Publish, drain, redis
    <2>. QED BY <1>2, <2>1, <2>2 DEF Publish
  <1>3. ASSUME NEW b \in posts, Refuse(b)
        PROVE  UNCHANGED Channel!vars
    BY <1>3, QuietStutters DEF Refuse, redis, drain, server
  <1>4. ASSUME NEW d \in Drainers, \/ StartContinuous(d) \/ StartCron(d) \/ DrainNothing(d)
                                   \/ DrainFail(d) \/ DrainCrash(d)
        PROVE  UNCHANGED Channel!vars
    BY <1>4, QuietStutters DEF StartContinuous, StartCron, DrainNothing, DrainFail, DrainCrash,
       redis, server
  <1>. QED BY <1>1, <1>2, <1>3, <1>4, CommitDelivers, ReadStutters, AckStutters DEF Next, Drain

\* The stream, the group and the workers together implement the channel of Delivery: an
\* event leaves the way into the table, once, or off a full stream, and never comes back,
\* whatever fails and however many workers run.
THEOREM Implements == Spec => ImplementsDelivery
  <1>1. Init => Channel!Init
    BY DEF Init, Channel!Init, OnTheWay, Elements
  <1>. QED BY <1>1, StepsOfTheChannel, Invariance, PTL DEF Spec, ImplementsDelivery, Channel!Spec

\* What an implementation of Delivery gains: a published event is in one place, on its
\* way, in the table with one row, or trimmed.
THEOREM InOnePlace == Spec => []Channel!OnePlace
  <1>1. Channel!Init => Channel!OnePlace
    BY DEF Channel!Init, Channel!OnePlace
  <1>2. ASSUME Channel!OnePlace, [Channel!Next]_(Channel!vars)
        PROVE  Channel!OnePlace'
    <2>. USE DEF Channel!OnePlace
    <2>1. ASSUME NEW S \in SUBSET Events, NEW D \in SUBSET Events, Channel!Accept(S, D)
          PROVE  Channel!OnePlace'
      BY <1>2, <2>1 DEF Channel!Accept
    <2>2. ASSUME NEW S \in SUBSET Events, Channel!Deliver(S)
          PROVE  Channel!OnePlace'
      BY <1>2, <2>2 DEF Channel!Deliver
    <2>3. CASE UNCHANGED Channel!vars
      BY <1>2, <2>3 DEF Channel!vars
    <2>. QED BY <1>2, <2>1, <2>2, <2>3 DEF Channel!Next
  <1>. QED BY <1>1, <1>2, Implements, PTL DEF ImplementsDelivery, Channel!Spec
=============================================================================
