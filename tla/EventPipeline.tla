---------------------------- MODULE EventPipeline ----------------------------
(***************************************************************************)
(* The way of an interaction event from the reader's browser to the table  *)
(* user_interactions: the queue of js/events.js, POST /v1/interactions,    *)
(* the Redis stream with its consumer group, and the drain workers of      *)
(* phase-e-only/ (a continuous worker, and `--once` from cron).            *)
(*                                                                         *)
(* An event is an element of Events.  Some of them the schema refuses (a   *)
(* dwell of more than an hour), and some the table refuses (interacted_at  *)
(* is the browser's clock, and only three monthly partitions exist).       *)
(* Redis runs a pipeline as one MULTI/EXEC, PostgreSQL a commit as one     *)
(* step; either may fail, with or without having done the work.            *)
(***************************************************************************)
EXTENDS Naturals, Sequences, FiniteSets

CONSTANTS Events,       \* bound: the events one browser may produce
          Invalid,      \* those InteractionEvent rejects (a share from the detail
                        \* page has no article_id, app.js:335)
          Unstorable,   \* those no partition of user_interactions takes
          Continuous,   \* drain workers started as run_continuous
          Cron,         \* drain workers started by cron as run_once
          MaxBatch,     \* MAX_BATCH of events.js (50)
          DrainBatch,   \* batch_size of drain_stream_to_db (200)
          MaxStream,    \* MAX_STREAM_LEN (50 000)
          MaxFaults     \* bound: failures of Redis, PostgreSQL and workers

ASSUME EventAssumption ==
    /\ Invalid \subseteq Events /\ Unstorable \subseteq Events
    /\ Continuous \cap Cron = {}
    /\ MaxBatch \in Nat \ {0} /\ DrainBatch \in Nat \ {0}
    /\ MaxStream \in Nat \ {0} /\ MaxFaults \in Nat

Drainers == Continuous \cup Cron

VARIABLES
    \* the browser
    loggedIn,  \* API.isLoggedIn()
    queue,     \* _queue
    timer,     \* is _timer armed?
    posts,     \* the batches that are on their way to the server
    \* Redis
    group,     \* does the consumer group db_writer exist?
    backlog,   \* stream entries not delivered to the group, oldest first
    kept,      \* number of delivered entries the stream still holds
    pending,   \* delivered and not acknowledged
    \* the drain workers and their table
    pc,        \* pc[d]: "off", "ready", "write" or "ack"
    batch,     \* batch[d]: what worker d has read
    stored,    \* stored[e]: number of rows of e in user_interactions
    \* history
    created,   \* the events produced
    published, \* the events that were added to the stream
    trimmed,   \* the events MAXLEN removed before they were delivered
    faults     \* failures so far

client  == <<loggedIn, queue, timer, created>>
redis   == <<group, backlog, kept, pending>>
server  == <<published, trimmed>>
drain   == <<pc, batch, stored>>
vars    == <<loggedIn, queue, timer, posts, group, backlog, kept, pending,
             pc, batch, stored, created, published, trimmed, faults>>

Elements(s) == {s[i] : i \in DOMAIN s}

\* The first n elements of s, and the rest (n may exceed its length).
Front(s, n) == SubSeq(s, 1, IF n < Len(s) THEN n ELSE Len(s))
After(s, n) == SubSeq(s, n + 1, Len(s))

TypeOK ==
    /\ loggedIn \in BOOLEAN /\ timer \in BOOLEAN /\ group \in BOOLEAN
    /\ queue \in Seq(Events) /\ backlog \in Seq(Events)
    /\ posts \subseteq Seq(Events)
    /\ kept \in Nat /\ faults \in 0..MaxFaults
    /\ pending \subseteq Events
    /\ pc \in [Drainers -> {"off", "ready", "write", "ack"}]
    /\ batch \in [Drainers -> Seq(Events)]
    /\ stored \in [Events -> Nat]
    /\ created \subseteq Events
    /\ published \subseteq created /\ trimmed \subseteq published

Init ==
    /\ loggedIn = TRUE /\ timer = FALSE /\ group = FALSE
    /\ queue = <<>> /\ backlog = <<>> /\ posts = {}
    /\ kept = 0 /\ faults = 0
    /\ pending = {} /\ created = {} /\ published = {} /\ trimmed = {}
    /\ pc = [d \in Drainers |-> "off"]
    /\ batch = [d \in Drainers |-> <<>>]
    /\ stored = [e \in Events |-> 0]

Fault == faults < MaxFaults /\ faults' = faults + 1

-----------------------------------------------------------------------------
(* js/events.js *)

\* Variants named <definition>_<what is wrong> are slips this code could make;
\* only the mutant runs use them.
FlushQueue_Copied(q) ==
    /\ timer' = FALSE
    /\ queue' = q
    /\ posts' = IF q = <<>> \/ ~loggedIn THEN posts ELSE posts \cup {Front(q, MaxBatch)}

\* _flush on the queue q: the timer is cleared; a logged-in reader posts the
\* first MAX_BATCH events and forgets them, whatever becomes of the request.
FlushQueue(q) ==
    /\ timer' = FALSE
    /\ IF q = <<>> \/ ~loggedIn
       THEN queue' = q /\ UNCHANGED posts
       ELSE queue' = After(q, MaxBatch) /\ posts' = posts \cup {Front(q, MaxBatch)}

Push(e) ==
    /\ loggedIn
    /\ e \notin created
    /\ created' = created \cup {e}
    /\ LET q == Append(queue, e)
       IN  IF Len(q) >= MaxBatch THEN FlushQueue(q)
                                 ELSE queue' = q /\ timer' = TRUE /\ UNCHANGED posts
    /\ UNCHANGED <<loggedIn, redis, drain, server, faults>>

\* The timer fires after FLUSH_MS.
TimerFlush ==
    /\ timer
    /\ FlushQueue(queue)
    /\ UNCHANGED <<loggedIn, created, redis, drain, server, faults>>

\* visibilitychange and pagehide.
HideFlush ==
    /\ queue # <<>>
    /\ FlushQueue(queue)
    /\ UNCHANGED <<loggedIn, created, redis, drain, server, faults>>

\* clearAuth and saveTokens of js/api.js; the tracker is not told.
Logout == loggedIn /\ loggedIn' = FALSE
          /\ UNCHANGED <<queue, timer, created, posts, redis, drain, server, faults>>
Login  == ~loggedIn /\ loggedIn' = TRUE
          /\ UNCHANGED <<queue, timer, created, posts, redis, drain, server, faults>>

-----------------------------------------------------------------------------
(* POST /v1/interactions *)

AddToStream_Negative(b) ==
    /\ kept' = kept + Len(b) - MaxStream
    /\ backlog' = backlog \o b
    /\ published' = published \cup Elements(b)
    /\ UNCHANGED <<group, pending, trimmed>>

\* XADD of a batch with MAXLEN ~: Redis may drop the oldest entries beyond
\* MaxStream, delivered or not, and may also keep them.
AddToStream(b) ==
    LET all    == backlog \o b
        excess == IF kept + Len(all) > MaxStream THEN kept + Len(all) - MaxStream ELSE 0
    IN  \E n \in 0..excess :
          /\ kept' = IF n < kept THEN kept - n ELSE 0
          /\ backlog' = IF n > kept THEN After(all, n - kept) ELSE all
          /\ trimmed' = trimmed \cup (Elements(all) \ Elements(backlog'))
          /\ published' = published \cup Elements(b)
          /\ UNCHANGED <<group, pending>>

\* A batch whose pipeline failed is sent again.
Publish_Again(b) ==
    /\ b \in posts
    /\ Elements(b) \cap Invalid = {}
    /\ \/ AddToStream(b) /\ posts' = posts \ {b} /\ UNCHANGED faults
       \/ AddToStream(b) /\ posts' = posts /\ Fault
       \/ UNCHANGED <<posts, redis, published, trimmed>> /\ Fault
    /\ UNCHANGED <<client, drain>>

\* publish_events executes one pipeline for the batch.  It may fail with or without
\* having done its work; the answer is 202, and the count of the events, in any case.
Publish(b) ==
    /\ b \in posts
    /\ Elements(b) \cap Invalid = {}
    /\ posts' = posts \ {b}
    /\ \/ AddToStream(b) /\ UNCHANGED faults
       \/ AddToStream(b) /\ Fault
       \/ UNCHANGED <<redis, published, trimmed>> /\ Fault
    /\ UNCHANGED <<client, drain>>

\* One invalid event makes the whole batch a 422; a batch is also lost when the
\* access token has expired (_flush does not refresh it) or the network fails.
Refuse(b) ==
    /\ b \in posts
    /\ \/ Elements(b) \cap Invalid # {} /\ UNCHANGED faults
       \/ Fault
    /\ posts' = posts \ {b}
    /\ UNCHANGED <<client, redis, drain, server>>

-----------------------------------------------------------------------------
(* app/workers/event_drain.py and drain_stream_to_db *)

StartContinuous_NoGroup(d) ==
    /\ d \in Continuous
    /\ pc[d] = "off"
    /\ pc' = [pc EXCEPT ![d] = "ready"]
    /\ UNCHANGED <<client, posts, redis, batch, stored, server, faults>>

\* run_continuous creates the group first; the cron pass never does.
StartContinuous(d) ==
    /\ d \in Continuous
    /\ pc[d] = "off"
    /\ group' = TRUE
    /\ pc' = [pc EXCEPT ![d] = "ready"]
    /\ UNCHANGED <<client, posts, backlog, kept, pending, batch, stored, server, faults>>

StartCron(d) ==
    /\ d \in Cron
    /\ pc[d] = "off"
    /\ pc' = [pc EXCEPT ![d] = "ready"]
    /\ UNCHANGED <<client, posts, redis, batch, stored, server, faults>>

\* Between passes a continuous worker is ready again, a cron worker is gone.
Rest(d) ==
    /\ pc' = [pc EXCEPT ![d] = IF d \in Continuous THEN "ready" ELSE "off"]
    /\ batch' = [batch EXCEPT ![d] = <<>>]

DrainRead_FromZero(d) ==
    /\ pc[d] = "ready"
    /\ group /\ backlog # <<>>
    /\ pending' = pending \cup Elements(backlog)
    /\ \E e \in pending' : batch' = [batch EXCEPT ![d] = <<e>>]
    /\ kept' = kept + Len(backlog)
    /\ backlog' = <<>>
    /\ pc' = [pc EXCEPT ![d] = "write"]
    /\ UNCHANGED <<client, posts, group, stored, server, faults>>

\* XREADGROUP with ">": deliver the oldest undelivered entries to this worker.
DrainRead(d) ==
    /\ pc[d] = "ready"
    /\ group /\ backlog # <<>>
    /\ batch' = [batch EXCEPT ![d] = Front(backlog, DrainBatch)]
    /\ pending' = pending \cup Elements(Front(backlog, DrainBatch))
    /\ kept' = kept + Len(Front(backlog, DrainBatch))
    /\ backlog' = After(backlog, DrainBatch)
    /\ pc' = [pc EXCEPT ![d] = "write"]
    /\ UNCHANGED <<client, posts, group, stored, server, faults>>

\* Nothing to read within 500 ms, or no group (an error that is logged): the
\* pass returns 0.
DrainNothing(d) ==
    /\ d \in Cron
    /\ pc[d] = "ready"
    /\ ~group \/ backlog = <<>>
    /\ Rest(d)
    /\ UNCHANGED <<client, posts, redis, stored, server, faults>>

\* One transaction inserts the whole batch.
DrainCommit(d) ==
    /\ pc[d] = "write"
    /\ Elements(batch[d]) \cap Unstorable = {}
    /\ stored' = [e \in Events |-> IF e \in Elements(batch[d]) THEN stored[e] + 1
                                                               ELSE stored[e]]
    /\ pc' = [pc EXCEPT ![d] = "ack"]
    /\ UNCHANGED <<client, posts, redis, batch, server, faults>>

DrainFail_Acked(d) ==
    /\ pc[d] = "write"
    /\ Elements(batch[d]) \cap Unstorable # {}
    /\ pending' = pending \ Elements(batch[d])
    /\ Rest(d)
    /\ UNCHANGED <<client, posts, group, backlog, kept, stored, server, faults>>

\* A row no partition takes fails the transaction: "Drain failed" is logged,
\* and the batch stays in the group's pending list.
DrainFail(d) ==
    /\ pc[d] = "write"
    /\ Elements(batch[d]) \cap Unstorable # {}
    /\ Rest(d)
    /\ UNCHANGED <<client, posts, redis, stored, server, faults>>

DrainAck(d) ==
    /\ pc[d] = "ack"
    /\ pending' = pending \ Elements(batch[d])
    /\ Rest(d)
    /\ UNCHANGED <<client, posts, group, backlog, kept, stored, server, faults>>

\* PostgreSQL or Redis fails a call, or the worker is killed, at any point.
DrainCrash(d) ==
    /\ pc[d] \in {"write", "ack"}
    /\ Fault
    /\ \/ Rest(d)
       \/ pc' = [pc EXCEPT ![d] = "off"] /\ batch' = [batch EXCEPT ![d] = <<>>]
    /\ UNCHANGED <<client, posts, redis, stored, server>>

-----------------------------------------------------------------------------

Drain(d) ==
    \/ StartContinuous(d) \/ StartCron(d)
    \/ DrainRead(d) \/ DrainNothing(d) \/ DrainCommit(d) \/ DrainFail(d) \/ DrainAck(d)

Next ==
    \/ \E e \in Events : Push(e)
    \/ TimerFlush \/ HideFlush \/ Logout \/ Login
    \/ \E b \in posts : Publish(b) \/ Refuse(b)
    \/ \E d \in Drainers : Drain(d) \/ DrainCrash(d)

Spec == Init /\ [][Next]_vars

\* The browser's timers fire, requests are answered, and the workers run: the
\* continuous one loops for ever, cron starts a pass every five minutes.
FairSpec ==
    /\ Spec
    /\ WF_vars(TimerFlush)
    /\ WF_vars(\E b \in posts : Publish(b) \/ Refuse(b))
    /\ \A d \in Drainers : WF_vars(Drain(d))

-----------------------------------------------------------------------------
(* Properties *)

\* However often workers fail, and however many run, an event has at most one
\* row: delivery is at most once, nothing on the way is ever tried again.
StoredOnce == \A e \in Events : stored[e] <= 1

\* The group forgets an entry only when its row is committed (commit, then
\* XACK): a published event is waiting, pending or stored, unless the stream
\* was full.
NothingVanishes ==
    \A e \in published :
        e \in Elements(backlog) \cup pending \cup trimmed \/ stored[e] > 0

\* An event is only ever in one place on its way.
OneCopy ==
    /\ \A b \in posts : Elements(b) \cap (Elements(queue) \cup published) = {}
    /\ Elements(queue) \cap published = {}
    /\ Elements(backlog) \cap pending = {}
    /\ \A c, d \in Drainers : c # d => Elements(batch[c]) \cap Elements(batch[d]) = {}

\* An event reaches the table at most once: every stage gives away what the next one has.
AtMostOnce == OneCopy /\ StoredOnce

\* The types, and what is forgotten.
EventsInv == TypeOK /\ NothingVanishes

\* The stream, the group and the workers are together no more than Delivery: what waits
\* is on the stream, or was read and has no row yet.
OnTheWay == Elements(backlog) \cup {e \in pending : stored[e] = 0}

Channel == INSTANCE Delivery WITH
    accepted <- published, waiting <- OnTheWay, lost <- trimmed, rows <- stored

\* Every step of the pipeline accepts events, or delivers a batch, or is none of the
\* channel's business: no event leaves the way but into the table or off a full stream,
\* and none comes back.
ImplementsDelivery == Channel!Spec

\* Every published event comes to rest (phase-e-only/app/api/v1/endpoints/
\* interactions.py:3, "DB write is async via drain worker"): it is stored, or was
\* trimmed from a full stream, or was read by a worker that failed and stays pending.
PublishedSettles ==
    \A e \in Events : e \in published ~>
        \/ stored[e] > 0 \/ e \in trimmed
        \/ e \in pending /\ \A d \in Drainers : e \notin Elements(batch[d])
==============================================================================
