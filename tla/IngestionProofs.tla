--------------------------- MODULE IngestionProofs ---------------------------
(***************************************************************************)
(* Proofs about Ingestion, for any items, sources and runs (finitely many  *)
(* where they are counted), any two bounds of the semaphores and both      *)
(* types of the simhash column.                                            *)
(***************************************************************************)
EXTENDS Ingestion, FiniteSetTheorems, TLAPS

\* What the two properties below need to know of the types.
RowsOK ==
    /\ articles \in SUBSET Items
    /\ inserted \in [Runs -> SUBSET Items]
    /\ appended \in [Runs -> SUBSET Items]
    /\ run \in [Runs -> {"off", "running", "committed", "failed"}]
    /\ stmt \in [Runs -> Items \cup Sources \cup {None}]

\* Only a run that runs waits for a row.
WaitersRun == \A r \in Runs : stmt[r] # None => Running(r)

\* The unique index on articles.url also holds between runs that have not committed.
UrlsApart ==
    \A r, q \in Runs : r # q =>
        \A i \in inserted[r], j \in inserted[q] : Url(i) # Url(j)

\* A run that has not begun has written nothing, and remembers nothing.
OffIsEmpty == \A r \in Runs : run[r] = "off" => inserted[r] = {} /\ appended[r] = {}

IInv ==
    /\ RowsOK
    /\ WaitersRun
    /\ UrlsApart
    /\ OffIsEmpty
    /\ UrlStoredOnce
    /\ AllOrNothing

\* A run that raises takes back what it has inserted, and is not among the committed.
LEMMA RaiseKeeps ==
  ASSUME IInv, NEW r \in Runs, Running(r), Raise(r)
  PROVE  IInv'
  <1>1. RowsOK'
    BY DEF IInv, RowsOK, Raise, table, memory
  <1>2. UrlStoredOnce' /\ UrlsApart'
    BY DEF IInv, RowsOK, UrlStoredOnce, UrlsApart, Visible, Raise, table
  <1>5. WaitersRun'
    BY DEF IInv, RowsOK, WaitersRun, Running, Raise
  <1>3. OffIsEmpty'
    BY DEF IInv, RowsOK, OffIsEmpty, Raise, memory
  <1>4. AllOrNothing'
    <2>1. {q \in Runs : run'[q] = "committed"} = {q \in Runs : run[q] = "committed"}
      BY DEF IInv, RowsOK, Running, Raise
    <2>. QED BY <2>1 DEF IInv, RowsOK, AllOrNothing, Running, Raise, table, memory
  <1>. QED BY <1>1, <1>2, <1>3, <1>4, <1>5 DEF IInv

\* A run that commits publishes what it has inserted, which is what it remembers.
LEMMA FinishKeeps ==
  ASSUME IInv, NEW r \in Runs, FinishRun(r)
  PROVE  IInv'
  <1>. USE DEF Free, Running
  <1>1. RowsOK'
    BY DEF IInv, RowsOK, FinishRun, memory
  <1>2. UrlStoredOnce' /\ UrlsApart'
    BY DEF IInv, RowsOK, UrlStoredOnce, UrlsApart, Visible, FinishRun
  <1>5. WaitersRun'
    BY DEF IInv, RowsOK, WaitersRun, FinishRun
  <1>3. OffIsEmpty'
    BY DEF IInv, RowsOK, OffIsEmpty, FinishRun, memory
  <1>4. AllOrNothing'
    <2>1. {q \in Runs : run'[q] = "committed"} = {q \in Runs : run[q] = "committed"} \cup {r}
      BY DEF IInv, RowsOK, FinishRun
    <2>2. appended' = appended /\ articles' = articles \cup appended[r]
      BY DEF IInv, AllOrNothing, FinishRun, memory
    <2>3. \A q \in Runs : Running(q)' => q # r /\ Running(q) /\ inserted'[q] = inserted[q]
      BY DEF IInv, RowsOK, FinishRun
    <2>. QED BY <2>1, <2>2, <2>3 DEF IInv, AllOrNothing
  <1>. QED BY <1>1, <1>2, <1>3, <1>4, <1>5 DEF IInv

\* An INSERT that neither waits nor raises adds one url nobody else has inserted.
LEMMA InsertKeeps ==
  ASSUME IInv, NEW r \in Runs, NEW i \in Items, Insert(r, i)
  PROVE  IInv'
  <1>1. Running(r)
    BY DEF Insert, MayExecute, Free
  <1>2. CASE Raise(r)
    BY <1>1, <1>2, RaiseKeeps
  <1>3. CASE ~Raise(r)
    <2>1. /\ UNCHANGED <<articles, run>>
          /\ stmt' \in {[stmt EXCEPT ![r] = i], [stmt EXCEPT ![r] = None]}
          /\ \/ UNCHANGED <<inserted, appended>>
             \/ /\ ~Held(r, i) /\ \A j \in Visible(r) : Url(j) # Url(i)
                /\ inserted' = [inserted EXCEPT ![r] = @ \cup {i}]
                /\ appended' = [appended EXCEPT ![r] = @ \cup {i}]
      BY <1>3 DEF Insert, table, memory
    <2>2. RowsOK'
      BY <2>1 DEF IInv, RowsOK
    <2>3. WaitersRun'
      BY <1>1, <2>1 DEF IInv, RowsOK, WaitersRun, Running
    <2>4. UrlStoredOnce' /\ UrlsApart'
      BY <2>1 DEF IInv, RowsOK, UrlStoredOnce, UrlsApart, Visible, Held
    <2>5. OffIsEmpty'
      BY <1>1, <2>1 DEF IInv, RowsOK, OffIsEmpty, Running
    <2>6. AllOrNothing'
      <3>1. \A q \in Runs : run[q] = "committed" => appended'[q] = appended[q]
        BY <1>1, <2>1 DEF IInv, RowsOK, Running
      <3>2. UNION {appended'[q] : q \in {p \in Runs : run'[p] = "committed"}}
              = UNION {appended[q] : q \in {p \in Runs : run[p] = "committed"}}
        BY <2>1, <3>1
      <3>3. \A q \in Runs : Running(q) => appended'[q] = inserted'[q]
        <4>1. \A q \in Runs : Running(q) => appended[q] = inserted[q]
          BY DEF IInv, AllOrNothing
        <4>. QED BY <2>1, <4>1 DEF IInv, RowsOK
      <3>. QED BY <2>1, <3>2, <3>3 DEF IInv, AllOrNothing, Running
    <2>. QED BY <2>2, <2>3, <2>4, <2>5, <2>6 DEF IInv
  <1>. QED BY <1>2, <1>3

\* A step that changes neither rows nor memory, and makes only running runs wait.
LEMMA QuietKeeps ==
  ASSUME IInv, RowsOK', WaitersRun',
         UNCHANGED <<articles, inserted, appended, run>>
  PROVE  IInv'
  BY DEF IInv, UrlStoredOnce, UrlsApart, OffIsEmpty, AllOrNothing, Visible, Running

\* A run that begins has nothing yet.
LEMMA StartKeeps ==
  ASSUME IInv, NEW r \in Runs, StartRun(r)
  PROVE  IInv'
  <1>1. UNCHANGED <<articles, inserted, appended, stmt>>
    BY DEF StartRun, table
  <1>2. run[r] = "off" /\ run' = [run EXCEPT ![r] = "running"]
    BY DEF StartRun
  <1>3. RowsOK' /\ WaitersRun' /\ OffIsEmpty'
    BY <1>1, <1>2 DEF IInv, RowsOK, WaitersRun, OffIsEmpty, Running
  <1>4. UrlStoredOnce' /\ UrlsApart'
    BY <1>1 DEF IInv, UrlStoredOnce, UrlsApart, Visible
  <1>5. {q \in Runs : run'[q] = "committed"} = {q \in Runs : run[q] = "committed"}
    BY <1>2 DEF IInv, RowsOK
  <1>6. \A q \in Runs : Running(q)' => appended[q] = inserted[q]
    BY <1>2 DEF IInv, RowsOK, OffIsEmpty, AllOrNothing, Running
  <1>. QED BY <1>1, <1>3, <1>4, <1>5, <1>6 DEF IInv, AllOrNothing

\* The steps of a source.
LEMMA SourceKeeps ==
  ASSUME IInv, NEW r \in Runs, NEW s \in Sources,
         \/ BeginSource(r, s) \/ FeedArrives(r, s)
         \/ FailSource(r, s) \/ FinishSource(r, s)
  PROVE  IInv'
  <1>1. UNCHANGED <<articles, inserted, appended, run>>
    BY DEF BeginSource, FeedArrives, FailSource, FinishSource, table, memory
  <1>2. /\ Running(r)
        /\ stmt' \in {stmt, [stmt EXCEPT ![r] = s], [stmt EXCEPT ![r] = None]}
    BY DEF BeginSource, FeedArrives, FailSource, FinishSource, MarkSource,
           MayExecute, Free
  <1>3. RowsOK' /\ WaitersRun'
    BY <1>1, <1>2 DEF IInv, RowsOK, WaitersRun, Running
  <1>. QED BY <1>1, <1>3, QuietKeeps

\* The steps of an item before its INSERT.
LEMMA ItemKeeps ==
  ASSUME IInv, NEW r \in Runs, NEW i \in Items,
         BeginItem(r, i) \/ CheckUrl(r, i) \/ FetchBody(r, i) \/ CheckText(r, i)
  PROVE  IInv'
  <1>1. CASE CheckText(r, i) /\ Raise(r)
    BY <1>1, RaiseKeeps DEF CheckText, Free
  <1>2. CASE ~(CheckText(r, i) /\ Raise(r))
    <2>1. UNCHANGED <<articles, inserted, appended, run, stmt>>
      BY <1>2 DEF BeginItem, CheckUrl, FetchBody, CheckText, table, memory
    <2>2. RowsOK' /\ WaitersRun'
      BY <2>1 DEF IInv, RowsOK, WaitersRun, Running
    <2>. QED BY <2>1, <2>2, QuietKeeps
  <1>. QED BY <1>1, <1>2

\* A database with neither articles nor runs.
LEMMA InitHolds == Init => IInv
  BY DEF Init, IInv, RowsOK, WaitersRun, UrlsApart, OffIsEmpty, UrlStoredOnce,
         AllOrNothing, Visible, Running

\* Every step of a run keeps the invariant, and so do kills and the passing of time.
LEMMA NextKeeps ==
  ASSUME IInv, [Next]_vars
  PROVE  IInv'
  <1>1. CASE \E r \in Runs : StartRun(r)
    BY <1>1, StartKeeps
  <1>2. CASE \E r \in Runs : FinishRun(r)
    BY <1>2, FinishKeeps
  <1>3. CASE \E r \in Runs : BreakDeadlock(r) \/ KillRun(r)
    BY <1>3, RaiseKeeps DEF BreakDeadlock, KillRun, IInv, WaitersRun
  <1>4. CASE \E r \in Runs, s \in Sources : \/ BeginSource(r, s) \/ FeedArrives(r, s)
                                            \/ FailSource(r, s) \/ FinishSource(r, s)
    BY <1>4, SourceKeeps
  <1>5. CASE \E r \in Runs, i \in Items : \/ BeginItem(r, i) \/ CheckUrl(r, i)
                                          \/ FetchBody(r, i) \/ CheckText(r, i)
    BY <1>5, ItemKeeps
  <1>6. CASE \E r \in Runs, i \in Items : Insert(r, i)
    BY <1>6, InsertKeeps
  <1>7. CASE Age \/ UNCHANGED vars
    <2>1. UNCHANGED <<articles, inserted, appended, run, stmt>>
      BY <1>7 DEF Age, vars, memory
    <2>2. RowsOK' /\ WaitersRun'
      BY <2>1 DEF IInv, RowsOK, WaitersRun, Running
    <2>. QED BY <2>1, <2>2, QuietKeeps
  <1>. QED BY <1>1, <1>2, <1>3, <1>4, <1>5, <1>6, <1>7 DEF Next, Work

\* The inductive invariant, whatever runs overlap, fail or are killed.
LEMMA Invariance == Spec => []IInv
  BY InitHolds, NextKeeps, PTL DEF Spec

\* No url is stored twice, whatever tasks and runs overlap: what the check of layer 1
\* let through, ON CONFLICT (url) DO NOTHING of article_repo.py decides.
THEOREM UrlsOnce == Spec => []UrlStoredOnce
  <1>1. IInv => UrlStoredOnce
    BY DEF IInv
  <1>. QED BY <1>1, Invariance, PTL

\* The one transaction of run_ingestion is all or nothing: the table holds what the
\* committed runs inserted, and a run remembers in recent_simhashes what it inserted.
THEOREM WholeRuns == Spec => []AllOrNothing
  <1>1. IInv => AllOrNothing
    BY DEF IInv
  <1>. QED BY <1>1, Invariance, PTL

-----------------------------------------------------------------------------
(* Types, and the copies of a text *)

Committed == {q \in Runs : run[q] = "committed"}

\* A source has failed in as many committed runs as its counter says, or in more.
ErrorsOK == \A s \in Sources : errors[s] <= Cardinality(Committed)

Bounded(S) == IsFiniteSet(S) /\ Cardinality(S) <= MaxItems

\* The semaphore of every source.
PlacesOK == \A r \in Runs, s \in Sources : Bounded(Active(r, s))

\* The copies of the text of i that run r has inserted from source s, or is about to.
Copies(r, i, s) ==
    {j \in Items : /\ Feed(j) = s /\ Text(j) = Text(i)
                   /\ j \in inserted[r] \/ task[r][j] = "insert"}

\* They all held places of the semaphore at once: one that comes later finds a row.
WindowOK == \A r \in Runs, i \in Items, s \in Sources : Bounded(Copies(r, i, s))

TInv == TypeOK /\ ErrorsOK /\ PlacesOK /\ WindowOK

\* What is part of something bounded is bounded.
LEMMA Shrunk == ASSUME NEW S, Bounded(S), NEW T \in SUBSET S PROVE Bounded(T)
  <1>1. MaxItems \in Nat
    BY IngestionAssumption
  <1>2. IsFiniteSet(T) /\ Cardinality(T) <= Cardinality(S)
    BY FS_Subset DEF Bounded
  <1>3. Cardinality(S) \in Nat /\ Cardinality(T) \in Nat
    BY <1>2, FS_CardinalityType DEF Bounded
  <1>. QED BY <1>1, <1>2, <1>3 DEF Bounded

\* A step after which no item holds a place, or is a copy, that did and was not before.
LEMMA TasksKeep ==
  ASSUME PlacesOK, WindowOK,
         \A r \in Runs, i \in Items :
            /\ task'[r][i] \notin {"wait", "done"} => task[r][i] \notin {"wait", "done"}
            /\ i \in inserted'[r] \/ task'[r][i] = "insert"
                 => i \in inserted[r] \/ task[r][i] = "insert"
  PROVE  PlacesOK' /\ WindowOK'
  <1>1. ASSUME NEW r \in Runs, NEW s \in Sources
        PROVE  Bounded(Active(r, s)')
    <2>1. Active(r, s)' \in SUBSET Active(r, s)
      BY DEF Active
    <2>. QED BY <2>1, Shrunk DEF PlacesOK
  <1>2. ASSUME NEW r \in Runs, NEW i \in Items, NEW s \in Sources
        PROVE  Bounded(Copies(r, i, s)')
    <2>1. Copies(r, i, s)' \in SUBSET Copies(r, i, s)
      BY DEF Copies
    <2>. QED BY <2>1, Shrunk DEF WindowOK
  <1>. QED BY <1>1, <1>2 DEF PlacesOK, WindowOK, Bounded

\* A step that commits nothing leaves the counters.
LEMMA ErrorsKeep ==
  ASSUME ErrorsOK, errors' = errors,
         \A r \in Runs : run'[r] = "committed" <=> run[r] = "committed"
  PROVE  ErrorsOK'
  <1>1. Committed' = Committed
    BY DEF Committed
  <1>. QED BY <1>1 DEF ErrorsOK

\* A run that raises, or is killed.
LEMMA RaiseTyped == ASSUME TInv, NEW r \in Runs, Running(r), Raise(r) PROVE TInv'
  <1>1. TypeOK'
    BY DEF TInv, TypeOK, Raise, NoMarks, table, memory
  <1>2. ErrorsOK'
    <2>1. errors' = errors /\ \A q \in Runs : run'[q] = "committed" <=> run[q] = "committed"
      BY DEF TInv, TypeOK, Raise, Running, table
    <2>. QED BY <2>1, ErrorsKeep DEF TInv
  <1>3. PlacesOK' /\ WindowOK'
    <2>1. \A q \in Runs : task'[q] = task[q] /\ inserted'[q] \subseteq inserted[q]
      BY DEF TInv, TypeOK, Raise
    <2>. QED BY <2>1, TasksKeep DEF TInv
  <1>. QED BY <1>1, <1>2, <1>3 DEF TInv

\* A run that commits counts its errors, each source's at most once.
LEMMA FinishTyped == ASSUME TInv, NEW r \in Runs, FinishRun(r) PROVE TInv'
  <1>1. run[r] = "running" /\ run' = [run EXCEPT ![r] = "committed"]
    BY DEF FinishRun, Free, Running
  <1>2. /\ IsFiniteSet(Committed)
        /\ Committed' = Committed \cup {r} /\ r \notin Committed
        /\ Cardinality(Committed) \in Nat /\ Cardinality(Committed') \in Nat
        /\ Cardinality(Committed') = Cardinality(Committed) + 1
        /\ Cardinality(Committed') <= Cardinality(Runs) /\ Cardinality(Runs) \in Nat
    <2>1. Committed' = Committed \cup {r} /\ r \notin Committed
      BY <1>1 DEF TInv, TypeOK, Committed
    <2>2. Committed \in SUBSET Runs /\ Committed' \in SUBSET Runs /\ IsFiniteSet(Runs)
      BY IngestionAssumption DEF Committed
    <2>3. IsFiniteSet(Committed) /\ Cardinality(Committed') <= Cardinality(Runs)
      BY <2>2, FS_Subset
    <2>4. Cardinality(Committed') = Cardinality(Committed) + 1
      BY <2>1, <2>3, FS_AddElement
    <2>5. Cardinality(Committed) \in Nat /\ Cardinality(Runs) \in Nat
      BY <2>2, <2>3, FS_CardinalityType
    <2>6. Cardinality(Committed') \in Nat
      BY <2>4, <2>5
    <2>. QED BY <2>1, <2>3, <2>4, <2>5, <2>6
  <1>3. \A s \in Sources : errors'[s] \in Nat /\ errors'[s] <= Cardinality(Committed')
    <2>1. \A s \in Sources : errors[s] \in Nat /\ errors[s] <= Cardinality(Committed)
      BY <1>2 DEF TInv, TypeOK, ErrorsOK
    <2>2. \A s \in Sources : errors'[s] \in {errors[s] + 1, 0, errors[s]}
      BY DEF FinishRun, TInv, TypeOK
    <2>. QED BY <1>2, <2>1, <2>2
  <1>4. errors' \in [Sources -> 0..Cardinality(Runs)]
    <2>. DEFINE after(s) == CASE marks[r][s] = "error"   -> errors[s] + 1
                              [] marks[r][s] = "fetched" -> 0
                              [] marks[r][s] = "none"    -> errors[s]
    <2>1. errors' = [s \in Sources |-> after(s)]
      BY DEF FinishRun
    <2>. HIDE DEF after
    <2>2. ASSUME NEW s \in Sources PROVE errors'[s] \in 0..Cardinality(Runs)
      <3>1. /\ errors'[s] \in Nat /\ Cardinality(Runs) \in Nat /\ Cardinality(Committed') \in Nat
            /\ errors'[s] <= Cardinality(Committed') /\ Cardinality(Committed') <= Cardinality(Runs)
        BY <1>2, <1>3
      <3>. QED BY <3>1
    <2>. QED BY <2>1, <2>2
  <1>5. TypeOK'
    BY <1>4 DEF TInv, TypeOK, FinishRun, Free, NoMarks, memory
  <1>6. ErrorsOK'
    BY <1>3 DEF ErrorsOK
  <1>7. PlacesOK' /\ WindowOK'
    <2>1. \A q \in Runs : task'[q] = task[q] /\ inserted'[q] \subseteq inserted[q]
      BY DEF TInv, TypeOK, FinishRun
    <2>. QED BY <2>1, TasksKeep DEF TInv
  <1>. QED BY <1>5, <1>6, <1>7 DEF TInv

\* The steps of a run and of its sources move no item.
LEMMA SourceTyped ==
  ASSUME TInv, NEW r \in Runs, NEW s \in Sources,
         \/ StartRun(r) \/ BeginSource(r, s) \/ FeedArrives(r, s)
         \/ FailSource(r, s) \/ FinishSource(r, s)
  PROVE  TInv'
  <1>. USE DEF table, memory
  <1>1. UNCHANGED <<articles, errors, stale, task, inserted>>
    BY DEF StartRun, BeginSource, FeedArrives, FailSource, FinishSource
  <1>2. TypeOK'
    <2>1. CASE StartRun(r)
      BY <2>1, <1>1 DEF TInv, TypeOK, StartRun
    <2>2. CASE BeginSource(r, s) \/ FeedArrives(r, s)
      <3>1. PICK step \in {"fetch", "items", "broken"} :
              source' = [source EXCEPT ![r][s] = step]
        BY <2>2 DEF BeginSource, FeedArrives
      <3>2. source' \in [Runs -> [Sources -> {"wait", "fetch", "broken", "items", "done"}]]
        BY <3>1 DEF TInv, TypeOK
      <3>3. UNCHANGED <<run, loaded, appended, marks, stmt>>
        BY <2>2 DEF BeginSource, FeedArrives
      <3>. QED BY <1>1, <3>2, <3>3 DEF TInv, TypeOK
    <2>3. CASE FailSource(r, s) \/ FinishSource(r, s)
      <3>1. /\ Running(r) /\ UNCHANGED <<run, loaded, appended>>
            /\ MarkSource(r, s, "error") \/ MarkSource(r, s, "fetched")
        BY <2>3 DEF FailSource, FinishSource, MayExecute, Free
      <3>2. source' \in [Runs -> [Sources -> {"wait", "fetch", "broken", "items", "done"}]]
        <4>1. source' \in {source, [source EXCEPT ![r][s] = "done"]}
          BY <3>1 DEF MarkSource
        <4>2. CASE source' = [source EXCEPT ![r][s] = "done"]
          BY <4>2 DEF TInv, TypeOK
        <4>. QED BY <4>1, <4>2 DEF TInv, TypeOK
      <3>3. marks' \in [Runs -> [Sources -> {"none", "error", "fetched"}]]
        <4>1. PICK mark \in {"error", "fetched"} :
                marks' \in {marks, [marks EXCEPT ![r][s] = mark]}
          BY <3>1 DEF MarkSource
        <4>2. CASE marks' = [marks EXCEPT ![r][s] = mark]
          BY <4>2 DEF TInv, TypeOK
        <4>. QED BY <4>1, <4>2 DEF TInv, TypeOK
      <3>4. /\ stmt' \in [Runs -> Items \cup Sources \cup {None}]
            /\ \A q \in Runs : stmt'[q] # None => run'[q] = "running"
        <4>1. PICK row \in {s, None} : stmt' = [stmt EXCEPT ![r] = row]
          BY <3>1 DEF MarkSource
        <4>. QED BY <3>1, <4>1 DEF TInv, TypeOK, Running
      <3>. QED BY <1>1, <3>1, <3>2, <3>3, <3>4 DEF TInv, TypeOK
    <2>. QED BY <2>1, <2>2, <2>3
  <1>3. ErrorsOK'
    <2>1. \A q \in Runs : run'[q] = "committed" <=> run[q] = "committed"
      BY DEF TInv, TypeOK, StartRun, BeginSource, FeedArrives, FailSource, FinishSource
    <2>. QED BY <1>1, <2>1, ErrorsKeep DEF TInv
  <1>4. PlacesOK' /\ WindowOK'
    BY <1>1, TasksKeep DEF TInv
  <1>. QED BY <1>2, <1>3, <1>4 DEF TInv

\* An item that gets a place is one more in its source, and not a copy yet.
LEMMA BeginItemTyped ==
  ASSUME TInv, NEW r \in Runs, NEW i \in Items, BeginItem(r, i)
  PROVE  TInv'
  <1>1. /\ UNCHANGED <<articles, errors, stale, run, source, loaded, appended, inserted, marks, stmt>>
        /\ task' = [task EXCEPT ![r][i] = "url"] /\ task[r][i] = "wait"
        /\ Cardinality(Active(r, Feed(i))) < MaxItems
    BY DEF BeginItem, MoveTask, table, memory
  <1>2. TypeOK'
    BY <1>1 DEF TInv, TypeOK, Steps
  <1>3. ErrorsOK'
    BY <1>1, ErrorsKeep DEF TInv
  <1>4. ASSUME NEW q \in Runs, NEW s \in Sources
        PROVE  Bounded(Active(q, s)')
    <2>1. CASE q = r /\ s = Feed(i)
      <3>1. Active(q, s)' \in SUBSET (Active(q, s) \cup {i})
        BY <1>1, <2>1 DEF Active, TInv, TypeOK
      <3>2. IsFiniteSet(Active(q, s)) /\ MaxItems \in Nat
        BY IngestionAssumption DEF TInv, PlacesOK, Bounded
      <3>3. Cardinality(Active(q, s)) \in Nat
        BY <3>2, FS_CardinalityType
      <3>4. Bounded(Active(q, s) \cup {i})
        <4>. DEFINE A == Active(q, s)
        <4>1. IsFiniteSet(A) /\ Cardinality(A) \in Nat /\ Cardinality(A) < MaxItems
          BY <1>1, <2>1, <3>2, <3>3
        <4>. HIDE DEF A
        <4>2. /\ IsFiniteSet(A \cup {i})
              /\ Cardinality(A \cup {i}) \in {Cardinality(A), Cardinality(A) + 1}
          BY <4>1, FS_AddElement
        <4>3. Cardinality(A \cup {i}) <= MaxItems
          BY <3>2, <4>1, <4>2
        <4>4. Bounded(A \cup {i})
          BY <4>2, <4>3 DEF Bounded
        <4>. QED BY <4>4 DEF A
      <3>. QED BY <3>1, <3>4, Shrunk
    <2>2. CASE ~(q = r /\ s = Feed(i))
      <3>1. Active(q, s)' \in SUBSET Active(q, s)
        BY <1>1, <2>2 DEF Active, TInv, TypeOK
      <3>. QED BY <3>1, Shrunk DEF TInv, PlacesOK
    <2>. QED BY <2>1, <2>2
  <1>5. ASSUME NEW q \in Runs, NEW j \in Items, NEW s \in Sources
        PROVE  Bounded(Copies(q, j, s)')
    <2>1. Copies(q, j, s)' \in SUBSET Copies(q, j, s)
      BY <1>1 DEF Copies, TInv, TypeOK
    <2>. QED BY <2>1, Shrunk DEF TInv, WindowOK
  <1>. QED BY <1>2, <1>3, <1>4, <1>5 DEF TInv, PlacesOK, WindowOK, Bounded

\* The checks of an item that has a place; the last one makes it a copy, and then there
\* is none in the table yet, so that all of them hold places.
LEMMA CheckTyped ==
  ASSUME TInv, NEW r \in Runs, NEW i \in Items,
         CheckUrl(r, i) \/ FetchBody(r, i) \/ CheckText(r, i)
  PROVE  TInv'
  <1>1. CASE CheckText(r, i) /\ Raise(r)
    BY <1>1, RaiseTyped DEF CheckText, Free
  <1>2. CASE ~(CheckText(r, i) /\ Raise(r))
    <2>1. PICK step \in {"body", "hash", "insert", "done"} :
            /\ UNCHANGED <<articles, errors, stale, run, source, loaded, appended, inserted, marks, stmt>>
            /\ task' = [task EXCEPT ![r][i] = step]
            /\ task[r][i] \notin {"wait", "done"}
            /\ step = "insert" => \A j \in inserted[r] : Text(j) # Text(i)
      <3>1. CASE CheckUrl(r, i) \/ FetchBody(r, i)
        BY <3>1 DEF CheckUrl, FetchBody, MoveTask, table, memory
      <3>2. CASE CheckText(r, i)
        BY <1>2, <3>2 DEF CheckText, MoveTask, Visible, table, memory
      <3>. QED BY <3>1, <3>2
    <2>2. TypeOK'
      BY <2>1 DEF TInv, TypeOK, Steps
    <2>3. ErrorsOK'
      BY <2>1, ErrorsKeep DEF TInv
    <2>4. ASSUME NEW q \in Runs, NEW s \in Sources
          PROVE  Bounded(Active(q, s)')
      <3>1. Active(q, s)' \in SUBSET Active(q, s)
        BY <2>1 DEF Active, TInv, TypeOK
      <3>. QED BY <3>1, Shrunk DEF TInv, PlacesOK
    <2>5. ASSUME NEW q \in Runs, NEW j \in Items, NEW s \in Sources
          PROVE  Bounded(Copies(q, j, s)')
      <3>1. CASE q = r /\ step = "insert" /\ Text(j) = Text(i)
        <4>1. Copies(q, j, s)' \in SUBSET Active(q, s)'
          BY <2>1, <3>1 DEF Copies, Active
        <4>. QED BY <4>1, <2>4, Shrunk
      <3>2. CASE ~(q = r /\ step = "insert" /\ Text(j) = Text(i))
        <4>1. Copies(q, j, s)' \in SUBSET Copies(q, j, s)
          BY <2>1, <3>2 DEF Copies, TInv, TypeOK
        <4>. QED BY <4>1, Shrunk DEF TInv, WindowOK
      <3>. QED BY <3>1, <3>2
    <2>. QED BY <2>2, <2>3, <2>4, <2>5 DEF TInv, PlacesOK, WindowOK, Bounded
  <1>. QED BY <1>1, <1>2

\* An INSERT stores what was a copy already.
LEMMA InsertTyped ==
  ASSUME TInv, NEW r \in Runs, NEW i \in Items, Insert(r, i)
  PROVE  TInv'
  <1>1. Running(r) /\ task[r][i] = "insert"
    BY DEF Insert, MayExecute, Free
  <1>2. CASE Raise(r)
    BY <1>1, <1>2, RaiseTyped
  <1>3. CASE ~Raise(r)
    <2>1. /\ UNCHANGED <<articles, errors, stale, run, source, loaded, marks>>
          /\ stmt' \in {[stmt EXCEPT ![r] = i], [stmt EXCEPT ![r] = None]}
          /\ task' \in {task, [task EXCEPT ![r][i] = "done"]}
          /\ inserted' \in {inserted, [inserted EXCEPT ![r] = @ \cup {i}]}
          /\ appended' \in {appended, [appended EXCEPT ![r] = @ \cup {i}]}
      BY <1>3 DEF Insert, MoveTask, table, memory
    <2>2. TypeOK'
      <3>1. task' \in [Runs -> [Items -> Steps]]
        <4>1. CASE task' = [task EXCEPT ![r][i] = "done"]
          BY <4>1 DEF TInv, TypeOK, Steps
        <4>. QED BY <2>1, <4>1 DEF TInv, TypeOK
      <3>2. inserted' \in [Runs -> SUBSET Items]
        <4>1. CASE inserted' = [inserted EXCEPT ![r] = @ \cup {i}]
          BY <4>1 DEF TInv, TypeOK
        <4>. QED BY <2>1, <4>1 DEF TInv, TypeOK
      <3>3. appended' \in [Runs -> SUBSET Items]
        <4>1. CASE appended' = [appended EXCEPT ![r] = @ \cup {i}]
          BY <4>1 DEF TInv, TypeOK
        <4>. QED BY <2>1, <4>1 DEF TInv, TypeOK
      <3>4. /\ stmt' \in [Runs -> Items \cup Sources \cup {None}]
            /\ \A q \in Runs : stmt'[q] # None => run'[q] = "running"
        <4>1. PICK row \in {i, None} : stmt' = [stmt EXCEPT ![r] = row]
          BY <2>1
        <4>. QED BY <1>1, <2>1, <4>1 DEF TInv, TypeOK, Running
      <3>. QED BY <2>1, <3>1, <3>2, <3>3, <3>4 DEF TInv, TypeOK
    <2>3. ErrorsOK'
      BY <2>1, ErrorsKeep DEF TInv
    <2>4. \A q \in Runs, j \in Items :
            /\ task'[q][j] \notin {"wait", "done"} => task[q][j] \notin {"wait", "done"}
            /\ task'[q][j] = "insert" => task[q][j] = "insert"
      <3>1. CASE task' = task
        BY <3>1
      <3>2. CASE task' = [task EXCEPT ![r][i] = "done"]
        <4>1. \A q \in Runs, j \in Items : task'[q][j] \in {task[q][j], "done"}
          BY <3>2 DEF TInv, TypeOK
        <4>. QED BY <4>1
      <3>. QED BY <2>1, <3>1, <3>2
    <2>5. \A q \in Runs : \A j \in inserted'[q] : j \in inserted[q] \/ (q = r /\ j = i)
      <3>1. CASE inserted' = inserted
        BY <3>1
      <3>2. CASE inserted' = [inserted EXCEPT ![r] = @ \cup {i}]
        BY <3>2 DEF TInv, TypeOK
      <3>. QED BY <2>1, <3>1, <3>2
    <2>6. PlacesOK' /\ WindowOK'
      BY <1>1, <2>4, <2>5, TasksKeep DEF TInv
    <2>. QED BY <2>2, <2>3, <2>6 DEF TInv
  <1>. QED BY <1>2, <1>3

\* No run has begun.
LEMMA InitTyped == Init => TInv
  <1>. SUFFICES ASSUME Init PROVE TInv
    OBVIOUS
  <1>1. Cardinality(Runs) \in Nat /\ MaxItems \in Nat
    BY IngestionAssumption, FS_CardinalityType
  <1>2. TypeOK
    BY <1>1 DEF Init, TypeOK, Steps, NoMarks
  <1>3. ErrorsOK
    <2>1. Committed = {}
      BY DEF Init, Committed
    <2>. QED BY <2>1, FS_EmptySet DEF Init, ErrorsOK
  <1>4. Bounded({})
    BY <1>1, FS_EmptySet DEF Bounded
  <1>5. /\ \A r \in Runs, s \in Sources : Active(r, s) = {}
        /\ \A r \in Runs, i \in Items, s \in Sources : Copies(r, i, s) = {}
    BY DEF Init, Active, Copies
  <1>6. WindowOK
    BY <1>4, <1>5 DEF WindowOK
  <1>7. PlacesOK
    BY <1>4, <1>5 DEF PlacesOK
  <1>. QED BY <1>2, <1>3, <1>6, <1>7 DEF TInv

\* Every step keeps the types and the bounds.
LEMMA NextTyped == ASSUME TInv, [Next]_vars PROVE TInv'
  <1>1. CASE \E r \in Runs : StartRun(r)
    BY <1>1, IngestionAssumption, SourceTyped
  <1>2. CASE \E r \in Runs : FinishRun(r)
    BY <1>2, FinishTyped
  <1>3. CASE \E r \in Runs : BreakDeadlock(r) \/ KillRun(r)
    BY <1>3, RaiseTyped DEF BreakDeadlock, KillRun, TInv, TypeOK, Running
  <1>4. CASE \E r \in Runs, s \in Sources : \/ BeginSource(r, s) \/ FeedArrives(r, s)
                                            \/ FailSource(r, s) \/ FinishSource(r, s)
    BY <1>4, SourceTyped
  <1>5. CASE \E r \in Runs, i \in Items : BeginItem(r, i)
    BY <1>5, BeginItemTyped
  <1>6. CASE \E r \in Runs, i \in Items : CheckUrl(r, i) \/ FetchBody(r, i) \/ CheckText(r, i)
    BY <1>6, CheckTyped
  <1>7. CASE \E r \in Runs, i \in Items : Insert(r, i)
    BY <1>7, InsertTyped
  <1>8. CASE Age \/ UNCHANGED vars
    <2>1. /\ UNCHANGED <<articles, errors, run, source, task, loaded, appended, inserted, marks, stmt>>
          /\ stale' \in {stale, articles}
      BY <1>8 DEF Age, vars, memory
    <2>2. TypeOK'
      BY <2>1 DEF TInv, TypeOK
    <2>3. ErrorsOK' /\ PlacesOK' /\ WindowOK'
      BY <2>1, ErrorsKeep, TasksKeep DEF TInv
    <2>. QED BY <2>2, <2>3 DEF TInv
  <1>. QED BY <1>1, <1>2, <1>3, <1>4, <1>5, <1>6, <1>7, <1>8 DEF Next, Work

\* Copies of one text that a run stores from one source are at most as many as the
\* places of the source's semaphore (CONCURRENT_ARTICLES of ingestion_service.py): the
\* hash check of a later one sees the row of the first.
THEOREM CopiesWithinPlaces == Spec => []IngestionInv
  <1>1. TInv => IngestionInv
    <2>. SUFFICES ASSUME TInv, NEW r \in Runs, NEW i \in Items, NEW s \in Sources
                  PROVE  Cardinality({j \in inserted[r] : Feed(j) = s /\ Text(j) = Text(i)}) <= MaxItems
      BY DEF TInv, IngestionInv, CopiesBounded
    <2>1. {j \in inserted[r] : Feed(j) = s /\ Text(j) = Text(i)} \in SUBSET Copies(r, i, s)
      BY DEF Copies, TInv, TypeOK
    <2>. QED BY <2>1, Shrunk DEF TInv, WindowOK, Bounded
  <1>2. Spec => []TInv
    BY InitTyped, NextTyped, PTL DEF Spec
  <1>. QED BY <1>1, <1>2, PTL
=============================================================================
