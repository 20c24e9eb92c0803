------------------------------ MODULE Ingestion ------------------------------
(***************************************************************************)
(* Runs of app/services/ingestion_service.py.  A run fetches the feeds of  *)
(* all active sources in parallel, and the items of a feed in parallel     *)
(* (asyncio tasks of one process, bounded by two semaphores); every item   *)
(* goes through three layers of deduplication before it is inserted.  All  *)
(* tasks share ONE database session, hence one transaction, which commits  *)
(* when every task has ended and rolls back when any of them raises.       *)
(* A task is interrupted at its awaits: each action goes from one await to *)
(* the next.  The session executes one statement at a time.                *)
(*                                                                         *)
(* An item is an entry of a feed, and the article made from it.  Of its    *)
(* url and text the model keeps what the layers compare: the url, the      *)
(* normalized text (content_hash) and the class of texts within a small    *)
(* Hamming distance (simhash).                                             *)
(***************************************************************************)
EXTENDS Naturals, FiniteSets

CONSTANTS Items, Sources, None,
          Runs,          \* bound: the runs of the worker, each used once
          Feed(_),       \* the source of an item
          Url(_), Text(_), Story(_),
          Short,         \* items with no usable text (MIN_BODY_CHARS)
          Broken,        \* items PostgreSQL refuses (an author of 256 characters)
          Mortal,        \* runs that may be killed (the workflow's time limit)
          MaxSources,    \* src_sem (4)
          MaxItems,      \* CONCURRENT_ARTICLES (5)
          SimhashColumn  \* "text" as in app/models/article.py, or "bigint" as in
                         \* migrations/versions/0002_sources_articles.py

ASSUME IngestionAssumption ==
    /\ Sources # {} /\ \A i \in Items : Feed(i) \in Sources
    /\ \A i, j \in Items : Text(i) = Text(j) => Story(i) = Story(j)
    /\ Short \cup Broken \subseteq Items
    /\ Mortal \subseteq Runs /\ IsFiniteSet(Runs)
    /\ MaxSources \in Nat \ {0} /\ MaxItems \in Nat \ {0}
    /\ None \notin Items \cup Sources
    /\ SimhashColumn \in {"text", "bigint"}

VARIABLES
    \* committed rows
    articles,    \* the items that are rows of articles
    errors,      \* errors[s]: consecutive_errors of source s
    stale,       \* articles ingested more than 72 hours ago
    \* the runs
    run,         \* run[r]: "off", "running", "committed" or "failed"
    source,      \* source[r][s]: "wait", "fetch", "broken", "items" or "done"
    task,        \* task[r][i]: where the task of item i is
    loaded,      \* recent_simhashes as read from the table by run r
    appended,    \* recent_simhashes appended by run r itself
    inserted,    \* articles run r has inserted, not committed
    marks,       \* marks[r][s]: "none", "error" or "fetched", not committed
    stmt         \* stmt[r]: the row the session of run r is waiting for, or None

table == <<articles, errors, stale>>
memory == <<loaded, appended>>
vars == <<articles, errors, stale, run, source, task, loaded, appended, inserted,
          marks, stmt>>

Steps == {"wait", "url", "body", "hash", "insert", "done"}

TypeOK ==
    /\ articles \subseteq Items /\ stale \subseteq articles
    /\ errors \in [Sources -> 0..Cardinality(Runs)]
    /\ run \in [Runs -> {"off", "running", "committed", "failed"}]
    /\ source \in [Runs -> [Sources -> {"wait", "fetch", "broken", "items", "done"}]]
    /\ task \in [Runs -> [Items -> Steps]]
    /\ loaded \in [Runs -> SUBSET Items] /\ appended \in [Runs -> SUBSET Items]
    /\ inserted \in [Runs -> SUBSET Items]
    /\ marks \in [Runs -> [Sources -> {"none", "error", "fetched"}]]
    /\ stmt \in [Runs -> Items \cup Sources \cup {None}]
    /\ \A r \in Runs : stmt[r] # None => run[r] = "running"

NoMarks == [s \in Sources |-> "none"]

Init ==
    /\ articles = {} /\ stale = {}
    /\ errors = [s \in Sources |-> 0]
    /\ run = [r \in Runs |-> "off"]
    /\ source = [r \in Runs |-> [s \in Sources |-> "wait"]]
    /\ task = [r \in Runs |-> [i \in Items |-> "wait"]]
    /\ loaded = [r \in Runs |-> {}]
    /\ appended = [r \in Runs |-> {}]
    /\ inserted = [r \in Runs |-> {}]
    /\ marks = [r \in Runs |-> NoMarks]
    /\ stmt = [r \in Runs |-> None]

-----------------------------------------------------------------------------

Running(r) == run[r] = "running"

\* The session of run r is free to execute a statement.
Free(r) == Running(r) /\ stmt[r] = None

\* The rows a statement of run r sees: the committed ones and its own.
Visible(r) == articles \cup inserted[r]

\* Another run has inserted the url of item i, or updated source s.
Held(r, x) ==
    \E q \in Runs \ {r} :
        \/ x \in Items /\ \E j \in inserted[q] : Url(j) = Url(x)
        \/ x \in Sources /\ marks[q][x] # "none"

\* A task that has ended never gives its place back.
Active_Leaked(r, s) == {i \in Items : Feed(i) = s /\ task[r][i] # "wait"}

\* The items of source s that hold a place of its semaphore.
Active(r, s) == {i \in Items : Feed(i) = s /\ task[r][i] \notin {"wait", "done"}}

MoveTask(r, i, step) == task' = [task EXCEPT ![r][i] = step]

\* The transaction commits what it has when a task raises.
Raise_Commits(r) ==
    /\ run' = [run EXCEPT ![r] = "failed"]
    /\ articles' = articles \cup inserted[r]
    /\ inserted' = [inserted EXCEPT ![r] = {}]
    /\ marks' = [marks EXCEPT ![r] = NoMarks]
    /\ stmt' = [stmt EXCEPT ![r] = None]
    /\ UNCHANGED <<errors, stale, source, task, memory>>

\* The statement that was being waited for is not given up.
Raise_StillWaiting(r) ==
    /\ run' = [run EXCEPT ![r] = "failed"]
    /\ inserted' = [inserted EXCEPT ![r] = {}]
    /\ marks' = [marks EXCEPT ![r] = NoMarks]
    /\ UNCHANGED <<table, source, task, memory, stmt>>

\* An exception in any task ends the run: gather raises, session_scope rolls back.
Raise(r) ==
    /\ run' = [run EXCEPT ![r] = "failed"]
    /\ inserted' = [inserted EXCEPT ![r] = {}]
    /\ marks' = [marks EXCEPT ![r] = NoMarks]
    /\ stmt' = [stmt EXCEPT ![r] = None]
    /\ UNCHANGED <<table, source, task, memory>>

-----------------------------------------------------------------------------
(* run_ingestion *)

StartRun(r) ==
    /\ run[r] = "off"
    /\ run' = [run EXCEPT ![r] = "running"]
    /\ loaded' = [loaded EXCEPT ![r] = articles \ stale]
    /\ UNCHANGED <<table, source, task, appended, inserted, marks, stmt>>

\* The source gets one of the places of src_sem.
BeginSource(r, s) ==
    /\ Running(r)
    /\ source[r][s] = "wait"
    /\ Cardinality({t \in Sources : source[r][t] \notin {"wait", "done"}}) < MaxSources
    /\ source' = [source EXCEPT ![r][s] = "fetch"]
    /\ UNCHANGED <<table, run, task, memory, inserted, marks, stmt>>

\* All tasks have ended: the transaction commits.
FinishRun(r) ==
    /\ Free(r)
    /\ \A s \in Sources : source[r][s] = "done"
    /\ articles' = articles \cup inserted[r]
    /\ errors' = [s \in Sources |-> CASE marks[r][s] = "error"   -> errors[s] + 1
                                      [] marks[r][s] = "fetched" -> 0
                                      [] marks[r][s] = "none"    -> errors[s]]
    /\ run' = [run EXCEPT ![r] = "committed"]
    /\ inserted' = [inserted EXCEPT ![r] = {}]
    /\ marks' = [marks EXCEPT ![r] = NoMarks]
    /\ UNCHANGED <<stale, source, task, memory, stmt>>

\* The workflow's time limit, a lost connection, a dead runner.
KillRun(r) == r \in Mortal /\ Running(r) /\ Raise(r)

-----------------------------------------------------------------------------
(* ingest_one_source *)

\* fetch_feed returns the items, or raises after its three attempts.
FeedArrives(r, s) ==
    /\ Running(r)
    /\ source[r][s] = "fetch"
    /\ \E step \in {"items", "broken"} : source' = [source EXCEPT ![r][s] = step]
    /\ UNCHANGED <<table, run, task, memory, inserted, marks, stmt>>

\* mark_error and mark_fetched: an UPDATE of the source's row, which waits for
\* the run that updated it.
MarkSource(r, s, mark) ==
    IF Held(r, s)
    THEN /\ stmt' = [stmt EXCEPT ![r] = s]
         /\ UNCHANGED <<source, marks>>
    ELSE /\ stmt' = [stmt EXCEPT ![r] = None]
         /\ marks' = [marks EXCEPT ![r][s] = mark]
         /\ source' = [source EXCEPT ![r][s] = "done"]

\* Is the session about to execute the statement on row x, or waiting for it
\* with no reason to wait any more?
MayExecute(r, x) ==
    \/ Free(r)
    \/ Running(r) /\ stmt[r] = x /\ ~Held(r, x)

FailSource(r, s) ==
    /\ MayExecute(r, s)
    /\ source[r][s] = "broken"
    /\ MarkSource(r, s, "error")
    /\ UNCHANGED <<table, run, task, memory, inserted>>

FinishSource(r, s) ==
    /\ MayExecute(r, s)
    /\ source[r][s] = "items"
    /\ \A i \in Items : Feed(i) = s => task[r][i] = "done"
    /\ MarkSource(r, s, "fetched")
    /\ UNCHANGED <<table, run, task, memory, inserted>>

-----------------------------------------------------------------------------
(* _process_item *)

\* No limit to the items in progress.
BeginItem_Unbounded(r, i) ==
    /\ Running(r)
    /\ source[r][Feed(i)] = "items"
    /\ task[r][i] = "wait"
    /\ MoveTask(r, i, "url")
    /\ UNCHANGED <<table, run, source, memory, inserted, marks, stmt>>

\* The item gets one of the places of its source's semaphore.
BeginItem(r, i) ==
    /\ Running(r)
    /\ source[r][Feed(i)] = "items"
    /\ task[r][i] = "wait"
    /\ Cardinality(Active(r, Feed(i))) < MaxItems
    /\ MoveTask(r, i, "url")
    /\ UNCHANGED <<table, run, source, memory, inserted, marks, stmt>>

\* Layer 1.
CheckUrl(r, i) ==
    /\ Free(r)
    /\ task[r][i] = "url"
    /\ MoveTask(r, i, IF \E j \in Visible(r) : Url(j) = Url(i) THEN "done" ELSE "body")
    /\ UNCHANGED <<table, run, source, memory, inserted, marks, stmt>>

\* The page is fetched, or not; without a usable text the item is skipped.
FetchBody(r, i) ==
    /\ Running(r)
    /\ task[r][i] = "body"
    /\ \/ i \notin Short /\ MoveTask(r, i, "hash")
       \/ MoveTask(r, i, "done")
    /\ UNCHANGED <<table, run, source, memory, inserted, marks, stmt>>

\* Layers 2 and 3: nothing is awaited between the answer of the content hash
\* query and the comparison with recent_simhashes.  That list begins with what
\* the table returned, and comparing an int with a str raises.
CheckText(r, i) ==
    /\ Free(r)
    /\ task[r][i] = "hash"
    /\ IF \E j \in Visible(r) : Text(j) = Text(i)
       THEN MoveTask(r, i, "done") /\ UNCHANGED <<table, run, source, memory,
                                                  inserted, marks, stmt>>
       ELSE IF SimhashColumn = "text" /\ loaded[r] # {}
       THEN Raise(r)
       ELSE /\ MoveTask(r, i, IF \E j \in loaded[r] \cup appended[r] : Story(j) = Story(i)
                              THEN "done" ELSE "insert")
            /\ UNCHANGED <<table, run, source, memory, inserted, marks, stmt>>

\* An INSERT that relies on the check of layer 1.
Insert_Unchecked(r, i) ==
    /\ Free(r)
    /\ task[r][i] = "insert"
    /\ inserted' = [inserted EXCEPT ![r] = @ \cup {i}]
    /\ appended' = [appended EXCEPT ![r] = @ \cup {i}]
    /\ MoveTask(r, i, "done")
    /\ UNCHANGED <<table, run, source, loaded, marks, stmt>>

\* INSERT ... ON CONFLICT (url) DO NOTHING, and the append to recent_simhashes.
\* Like every statement it may have to wait for another run.
Insert(r, i) ==
    /\ MayExecute(r, i)
    /\ task[r][i] = "insert"
    /\ IF Held(r, i)
       THEN /\ stmt' = [stmt EXCEPT ![r] = i]
            /\ UNCHANGED <<table, run, source, task, memory, inserted, marks>>
       ELSE IF i \in Broken \/ SimhashColumn = "bigint"
       THEN Raise(r)
       ELSE /\ IF \E j \in Visible(r) : Url(j) = Url(i)
               THEN UNCHANGED <<inserted, appended>>
               ELSE /\ inserted' = [inserted EXCEPT ![r] = @ \cup {i}]
                    /\ appended' = [appended EXCEPT ![r] = @ \cup {i}]
            /\ MoveTask(r, i, "done")
            /\ stmt' = [stmt EXCEPT ![r] = None]
            /\ UNCHANGED <<table, run, source, loaded, marks>>

\* Two runs that wait for each other: PostgreSQL makes one statement raise.
BreakDeadlock(r) ==
    /\ stmt[r] # None
    /\ \E q \in Runs \ {r} :
         stmt[q] # None /\ Held(r, stmt[r]) /\ Held(q, stmt[q])
    /\ Raise(r)

\* Three days without a run.
Age ==
    /\ \A r \in Runs : ~Running(r)
    /\ stale' = articles
    /\ UNCHANGED <<articles, errors, run, source, task, memory, inserted, marks, stmt>>

-----------------------------------------------------------------------------

Work(r) ==
    \/ FinishRun(r) \/ BreakDeadlock(r)
    \/ \E s \in Sources : BeginSource(r, s) \/ FeedArrives(r, s) \/ FailSource(r, s)
                            \/ FinishSource(r, s)
    \/ \E i \in Items : BeginItem(r, i) \/ CheckUrl(r, i) \/ FetchBody(r, i)
                            \/ CheckText(r, i) \/ Insert(r, i)

Next ==
    \/ \E r \in Runs : StartRun(r) \/ Work(r) \/ KillRun(r)
    \/ Age

Spec == Init /\ [][Next]_vars

\* The event loop runs every task that is ready, and PostgreSQL wakes a waiter
\* or breaks its deadlock.
FairSpec == Spec /\ \A r \in Runs : WF_vars(Work(r))

-----------------------------------------------------------------------------
(* Properties *)

\* No url is stored twice, whatever tasks and runs overlap: the check of layer 1
\* is made long before the insert, and ON CONFLICT has the last word.
UrlStoredOnce ==
    /\ \A i, j \in articles : Url(i) = Url(j) => i = j
    /\ \A r \in Runs : \A i \in inserted[r] : \A j \in Visible(r) : Url(i) = Url(j) => i = j

\* Copies of one text that a single run stores from one source are copies that were
\* between their hash check and their insert together: at most one for every place
\* of the source's semaphore.
CopiesBounded ==
    \A r \in Runs : \A i \in Items : \A s \in Sources :
        Cardinality({j \in inserted[r] : Feed(j) = s /\ Text(j) = Text(i)}) <= MaxItems

\* The invariant of the runs.
IngestionInv == TypeOK /\ CopiesBounded

\* The table holds what the committed runs inserted, all of it and nothing else:
\* a run that fails after some of its inserts leaves no article behind, and what
\* a run remembers as appended to recent_simhashes is what it stored.
AllOrNothing ==
    /\ articles = UNION {appended[r] : r \in {q \in Runs : run[q] = "committed"}}
    /\ \A r \in Runs : Running(r) => appended[r] = inserted[r]

\* A run ends: semaphores are released, and runs that overlap do not wait for
\* each other for ever.
RunsEnd == \A r \in Runs : Running(r) ~> ~Running(r)
==============================================================================
