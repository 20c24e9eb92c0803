------------------------------ MODULE Onboarding ------------------------------
(***************************************************************************)
(* What the service knows about a reader's taste: the topics and sources   *)
(* chosen in api/v1/endpoints/onboarding.py, the weights services/         *)
(* affinity.py makes of them, and the nightly job (workers/                *)
(* recompute_affinity.py) that mixes in what the reader did and keeps the  *)
(* profile vector (all under phase-e-only/app, except recompute_long_term, *)
(* which is that of app/services/profile_vectors.py: the other one binds   *)
(* its lookback inside a literal, which asyncpg refuses, and always ends   *)
(* like JobBreak).                                                         *)
(*                                                                         *)
(* The module is about the rows of one reader; every query names user_id,  *)
(* and the job opens a session for each reader.  Requests and the job      *)
(* commit in several steps and read before they write: SQLAlchemy sends    *)
(* the UPDATE at the commit, and only of the attributes that differ from   *)
(* what was read.  An INSERT of a row that exists fails the transaction.   *)
(* Scores are in hundredths: 60 stands for 0.6.                            *)
(***************************************************************************)
EXTENDS Naturals, FiniteSets

CONSTANTS Slugs,      \* slugs the client may send
          Taxonomy,   \* those that are rows of microtopics
          Sources,    \* sources the reader may opt out of
          MinSlugs,   \* the fewest topics TopicSelection takes (5)
          Requests,   \* requests of the reader that may be in progress at once
          Signals,    \* what sigmoid(raw / 5) may come to, in tenths
          Lengths,    \* how many embeddings recompute_long_term may find
          NoVector    \* the profile vector of a reader without one

ASSUME OnboardingAssumption ==
    /\ Taxonomy \subseteq Slugs
    /\ MinSlugs \in Nat
    /\ Signals \subseteq 1..9 /\ Lengths \subseteq Nat /\ NoVector \notin Nat

VARIABLES
    \* the reader's row of onboarding_state
    started,    \* is there one?
    step,       \* its step
    chosen,     \* raw_selections["topics"]
    muted,      \* raw_selections["opted_out_sources"]
    \* the reader's rows of user_topic_affinity
    rated,      \* the topics that have one
    explicit,   \* the topics whose explicit_weight is 1 (0 otherwise)
    implicit,   \* implicit[t]: implicit_score, in tenths
    combined,   \* combined[t]: combined_score, in hundredths
    \* the reader's row of user_profile_vectors: interaction_cnt, or NoVector
    profile,
    \* requests
    pc,         \* pc[r]: the next statement of request r
    body,       \* body[r]: the topics or the sources that r sends
    ob,         \* ob[r]: onboarding_state as r has read it
    got,        \* got[r]: the affinity rows r has read
    \* the nightly job
    job,        \* its next statement
    raw,        \* raw[t]: the new implicit score of a topic with interactions
    seen,       \* the affinity rows the job has read
    \* history
    acked,      \* topics of the requests that were answered with 200
    last,       \* what was saved last, until requests overlap
    slips,      \* what has gone wrong so far
    failed      \* has a statement of a request been refused?

state    == <<started, step, chosen, muted>>
affinity == <<rated, explicit, implicit, combined>>
request  == <<pc, body, ob, got>>
night    == <<job, raw, seen>>
history  == <<acked, last, slips, failed>>
taste == <<state, affinity, profile, request, night, history>>

Selections == [chosen: SUBSET Slugs, muted: SUBSET Sources, step: 0..2]
Row == [there: BOOLEAN, explicit: BOOLEAN, implicit: 0..9, combined: 0..96]
Slips == {"requests",  \* two requests of the reader overlapped
          "night"}     \* a request overlapped the job
Nothing == [chosen |-> {}, muted |-> {}, step |-> 0]

\* Rows read so far, by topic.
AreReads(f) == DOMAIN f \subseteq Slugs /\ f \in [DOMAIN f -> Row]
NoReads == [t \in {} |-> 0]

OnboardingTypeOK ==
    /\ started \in BOOLEAN /\ step \in 0..2
    /\ chosen \subseteq Slugs /\ muted \subseteq Sources
    /\ explicit \subseteq rated /\ rated \subseteq Slugs
    /\ implicit \in [Slugs -> 0..9] /\ combined \in [Slugs -> 0..96]
    /\ profile \in Lengths \cup {NoVector}
    /\ pc \in [Requests -> {"off", "topics", "sources", "create", "reload", "select", "seed"}]
    /\ body \in [Requests -> [topics: SUBSET Slugs, sources: SUBSET Sources,
                              kind: {"topics", "sources"}]]
    /\ ob \in [Requests -> Selections]
    /\ DOMAIN got = Requests /\ \A r \in Requests : AreReads(got[r])
    /\ AreReads(seen)
    /\ job \in {"off", "rows", "vector"}
    /\ DOMAIN raw \subseteq Slugs /\ raw \in [DOMAIN raw -> Signals]
    /\ acked \subseteq Slugs
    /\ last \in Selections
    /\ slips \subseteq Slips /\ failed \in BOOLEAN

OnboardingInit ==
    /\ started = FALSE /\ step = 0 /\ chosen = {} /\ muted = {}
    /\ rated = {} /\ explicit = {}
    /\ implicit = [t \in Slugs |-> 0] /\ combined = [t \in Slugs |-> 0]
    /\ profile = NoVector
    /\ pc = [r \in Requests |-> "off"]
    /\ body = [r \in Requests |-> [topics |-> {}, sources |-> {}, kind |-> "topics"]]
    /\ ob = [r \in Requests |-> Nothing]
    /\ got = [r \in Requests |-> NoReads] /\ seen = NoReads
    /\ job = "off" /\ raw = NoReads
    /\ acked = {} /\ last = Nothing /\ slips = {} /\ failed = FALSE

-----------------------------------------------------------------------------

Bigger(a, b) == IF a >= b THEN a ELSE b

\* db.get(UserTopicAffinity, (user_id, t))
AffinityRow(t) ==
    [there |-> t \in rated, explicit |-> t \in explicit,
     implicit |-> implicit[t], combined |-> combined[t]]

\* ... added to the rows that were read before.
AddRow(rows, t) ==
    [u \in DOMAIN rows \cup {t} |-> IF u = t THEN AffinityRow(t) ELSE rows[u]]

\* The topics of S the transaction inserts a row for.
NewRows(S, rows) == {t \in S : ~rows[t].there}

GoTo(r, s) == pc' = [pc EXCEPT ![r] = s]

\* A request ends, and its session with it.
End(r) ==
    /\ GoTo(r, "off")
    /\ body' = [body EXCEPT ![r] = [topics |-> {}, sources |-> {}, kind |-> "topics"]]
    /\ ob' = [ob EXCEPT ![r] = Nothing]
    /\ got' = [got EXCEPT ![r] = NoReads]

\* The overlaps a new request, or the job, makes.
Overlaps(withJob) ==
    (IF \E r \in Requests : pc[r] # "off" THEN {IF withJob THEN "night" ELSE "requests"} ELSE {})
    \cup (IF ~withJob /\ job # "off" THEN {"night"} ELSE {})

-----------------------------------------------------------------------------
(* onboarding.py *)

\* POST /onboarding/topics.  TopicSelection wants MinSlugs of them, and every
\* slug must be a microtopic; the other requests are answered with 422.
PostTopics(r) ==
    /\ pc[r] = "off"
    /\ \E S \in SUBSET Slugs :
         /\ Cardinality(S) >= MinSlugs
         /\ S \subseteq Taxonomy
         /\ body' = [body EXCEPT ![r] = [topics |-> S, sources |-> {}, kind |-> "topics"]]
    /\ GoTo(r, "topics")
    /\ slips' = slips \cup Overlaps(FALSE)
    /\ UNCHANGED <<state, affinity, profile, ob, got, night, acked, last, failed>>

\* POST /onboarding/source-optout
PostSources(r) ==
    /\ pc[r] = "off"
    /\ \E S \in SUBSET Sources :
         body' = [body EXCEPT ![r] = [topics |-> {}, sources |-> S, kind |-> "sources"]]
    /\ GoTo(r, "sources")
    /\ slips' = slips \cup Overlaps(FALSE)
    /\ UNCHANGED <<state, affinity, profile, ob, got, night, acked, last, failed>>

ReadState == [chosen |-> chosen, muted |-> muted, step |-> step]

\* The row is not looked for.
GetState_Blind(r) ==
    /\ pc[r] \in {"topics", "sources"}
    /\ GoTo(r, "create")
    /\ UNCHANGED <<state, affinity, profile, body, ob, got, night, history>>

\* _get_or_create: db.get.
GetState(r) ==
    /\ pc[r] \in {"topics", "sources"}
    /\ IF started
       THEN ob' = [ob EXCEPT ![r] = ReadState] /\ GoTo(r, "select")
       ELSE UNCHANGED ob /\ GoTo(r, "create")
    /\ UNCHANGED <<state, affinity, profile, body, got, night, history>>

\* The row is written whether or not there is one.
CreateState_Upsert(r) ==
    /\ pc[r] = "create"
    /\ started' = TRUE /\ step' = 0 /\ chosen' = {} /\ muted' = {}
    /\ GoTo(r, "reload")
    /\ UNCHANGED <<body, ob, got, failed, affinity, profile, night, acked, last, slips>>

\* _get_or_create: INSERT and COMMIT.
CreateState(r) ==
    /\ pc[r] = "create"
    /\ \/ /\ ~started
          /\ started' = TRUE /\ step' = 0 /\ chosen' = {} /\ muted' = {}
          /\ GoTo(r, "reload")
          /\ UNCHANGED <<body, ob, got, failed>>
       \/ /\ started
          /\ End(r)
          /\ failed' = TRUE
          /\ UNCHANGED state
    /\ UNCHANGED <<affinity, profile, night, acked, last, slips>>

\* _get_or_create: db.refresh.
ReloadState(r) ==
    /\ pc[r] = "reload"
    /\ ob' = [ob EXCEPT ![r] = ReadState]
    /\ GoTo(r, "select")
    /\ UNCHANGED <<state, affinity, profile, body, got, night, history>>

\* The UPDATE of onboarding_state: an attribute that is what was read is left out.
\* (The model has sets where the JSON value has lists: equal sets may be either.)
WriteState(r, new) ==
    /\ step' = IF new.step = ob[r].step THEN step ELSE new.step
    /\ \/ chosen' = new.chosen /\ muted' = new.muted
       \/ /\ new.chosen = ob[r].chosen /\ new.muted = ob[r].muted
          /\ UNCHANGED <<chosen, muted>>
    /\ UNCHANGED started

\* What the handlers make of the row they have read.
Selected_NotMerged(r) ==
    IF body[r].kind = "topics"
    THEN [chosen |-> body[r].topics, muted |-> {}, step |-> Bigger(ob[r].step, 1)]
    ELSE [chosen |-> {}, muted |-> body[r].sources, step |-> Bigger(ob[r].step, 2)]

Selected(r) ==
    IF body[r].kind = "topics"
    THEN [ob[r] EXCEPT !.chosen = body[r].topics, !.step = Bigger(ob[r].step, 1)]
    ELSE [ob[r] EXCEPT !.muted = body[r].sources, !.step = Bigger(ob[r].step, 2)]

\* set_source_optout and the first commit of set_topics.
SaveState(r) ==
    /\ pc[r] = "select"
    /\ WriteState(r, Selected(r))
    /\ last' = IF "requests" \in slips
               THEN Nothing
               ELSE IF body[r].kind = "topics"
               THEN [last EXCEPT !.chosen = body[r].topics, !.step = Bigger(last.step, 1)]
               ELSE [last EXCEPT !.muted = body[r].sources, !.step = 2]
    /\ IF body[r].kind = "topics"
       THEN /\ GoTo(r, "seed")
            /\ ob' = [ob EXCEPT ![r] = Nothing]
            /\ UNCHANGED <<body, got>>
       ELSE End(r)
    /\ UNCHANGED <<affinity, profile, night, acked, slips, failed>>

\* seed_explicit_weights: db.get of one slug after the other.
SeedGet(r) ==
    /\ pc[r] = "seed"
    /\ \E t \in body[r].topics \ DOMAIN got[r] :
         got' = [got EXCEPT ![r] = AddRow(@, t)]
    /\ UNCHANGED <<state, affinity, profile, pc, body, ob, night, history>>

\* Rows that exist are left alone.
SeedRows_NewOnly(S, rows) ==
    LET new == NewRows(S, rows) IN
    /\ rated' = rated \cup new
    /\ explicit' = explicit \cup new
    /\ combined' = [t \in Slugs |-> IF t \in new THEN 60 ELSE combined[t]]
    /\ UNCHANGED implicit

\* The weights are not mixed into the score of a row that exists.
SeedRows_Unmixed(S, rows) ==
    LET new == NewRows(S, rows) IN
    /\ rated' = rated \cup new
    /\ explicit' = explicit \cup {t \in S : ~rows[t].explicit}
    /\ combined' = [t \in Slugs |-> IF t \in new THEN 60 ELSE combined[t]]
    /\ UNCHANGED implicit

\* What seed_explicit_weights writes for the topics S.
SeedRows(S, rows) ==
    LET new == NewRows(S, rows) IN
    /\ rated' = rated \cup new
    /\ explicit' = explicit \cup {t \in S : ~rows[t].explicit}
    /\ combined' = [t \in Slugs |->
                      IF t \in S /\ rows[t].combined < 60 THEN 60 ELSE combined[t]]
    /\ UNCHANGED implicit

\* seed_explicit_weights: the commit, and the answer of set_topics.
SeedSave(r) ==
    /\ pc[r] = "seed"
    /\ DOMAIN got[r] = body[r].topics
    /\ IF NewRows(body[r].topics, got[r]) \cap rated = {}
       THEN /\ SeedRows(body[r].topics, got[r])
            /\ acked' = acked \cup body[r].topics
            /\ UNCHANGED failed
       ELSE /\ failed' = TRUE
            /\ UNCHANGED <<affinity, acked>>
    /\ End(r)
    /\ UNCHANGED <<state, profile, night, last, slips>>

\* PostgreSQL or the process fails between two statements; the client gets a
\* 500 or nothing.
Break(r) ==
    /\ pc[r] # "off"
    /\ End(r)
    /\ UNCHANGED <<state, affinity, profile, night, history>>

-----------------------------------------------------------------------------
(* recompute_affinity.py, for one reader active in the last 24 hours *)

JobEnd ==
    /\ job' = "off" /\ raw' = NoReads /\ seen' = NoReads

\* recompute_implicit: the signals of the last 90 days.
JobStart ==
    /\ job = "off"
    /\ \E S \in SUBSET Taxonomy : raw' \in [S -> Signals]
    /\ job' = "rows"
    /\ slips' = slips \cup Overlaps(TRUE)
    /\ UNCHANGED <<state, affinity, profile, request, seen, acked, last, failed>>

\* recompute_implicit: db.get of one topic after the other.
JobGet ==
    /\ job = "rows"
    /\ \E t \in DOMAIN raw \ DOMAIN seen : seen' = AddRow(seen, t)
    /\ UNCHANGED <<state, affinity, profile, request, job, raw, history>>

\* combined = 0.6 * explicit_weight + 0.4 * implicit_score
Mixed_ImplicitOnly(row, impl) == 4 * impl
Mixed_Unscaled(row, impl) == (IF row.explicit THEN 60 ELSE 0) + 10 * impl
Mixed(row, impl) == (IF row.explicit THEN 60 ELSE 0) + 4 * impl

\* recompute_implicit: the commit.  A refused INSERT ends the reader's turn.
JobRows ==
    /\ job = "rows"
    /\ DOMAIN seen = DOMAIN raw
    /\ IF NewRows(DOMAIN raw, seen) \cap rated = {}
       THEN /\ rated' = rated \cup DOMAIN raw
            /\ implicit' = [t \in Slugs |->
                 IF t \in DOMAIN raw /\ raw[t] # seen[t].implicit THEN raw[t] ELSE implicit[t]]
            /\ combined' = [t \in Slugs |->
                 IF t \in DOMAIN raw /\ Mixed(seen[t], raw[t]) # seen[t].combined
                 THEN Mixed(seen[t], raw[t]) ELSE combined[t]]
            /\ job' = "vector"
            /\ UNCHANGED <<explicit, raw, seen>>
       ELSE JobEnd /\ UNCHANGED affinity
    /\ UNCHANGED <<state, profile, request, history>>

\* recompute_long_term (app/services): nothing to average, or a new vector.  Only a new row gets
\* an interaction_cnt.  Nothing else writes the row, so that its db.get, INSERT or
\* UPDATE and commit are one step.
JobVector ==
    /\ job = "vector"
    /\ IF profile = NoVector THEN profile' \in Lengths \cup {NoVector} ELSE UNCHANGED profile
    /\ JobEnd
    /\ UNCHANGED <<state, affinity, request, history>>

\* An exception is logged and the next reader follows; the workflow's time limit.
JobBreak ==
    /\ job # "off"
    /\ JobEnd
    /\ UNCHANGED <<state, affinity, profile, request, history>>

-----------------------------------------------------------------------------

Serve(r) ==
    \/ GetState(r) \/ CreateState(r) \/ ReloadState(r) \/ SaveState(r)
    \/ SeedGet(r) \/ SeedSave(r)

Job == JobGet \/ JobRows \/ JobVector

OnboardingNext ==
    \/ \E r \in Requests : PostTopics(r) \/ PostSources(r) \/ Serve(r) \/ Break(r)
    \/ JobStart \/ Job \/ JobBreak

OnboardingSpec == OnboardingInit /\ [][OnboardingNext]_taste

-----------------------------------------------------------------------------
(* Properties *)

\* onboarding.py:63 answers "ok" only when every topic of the request weighs 1
\* ("Seed explicit affinity rows", affinity.py:48), and nothing takes that weight
\* away: neither the job, which read the row before, nor another request.
AcknowledgedIsWeighted == acked \subseteq explicit

\* onboarding.py:96: a reader who has completed the onboarding stays so, whatever
\* stale row a request writes back.
StaysComplete == [][step >= 1 => step' >= 1]_taste

\* Topics and sources are saved by different requests into one JSON value, and the
\* step only grows: as long as the reader's requests come one after the other, the
\* row is what they saved last (onboarding.py:58, 59, 74-78).
SelectionsKept ==
    "requests" \notin slips =>
        chosen = last.chosen /\ muted = last.muted /\ step = last.step

\* affinity.py:3 "combined = 0.6 * explicit_weight + 0.4 * implicit_score": a chosen
\* topic is worth 0.6 at least, unless the job ran while a request did.
ChosenRanksHigh ==
    "night" \notin slips => \A t \in explicit : combined[t] >= 60

\* A request whose statements PostgreSQL refuses has met another request or the job:
\* alone, every order of requests finds or makes its rows.
AloneSucceeds == failed => slips # {}

\* The invariant of the weights: what the reader chose counts.
OnboardingInv == OnboardingTypeOK /\ AcknowledgedIsWeighted /\ ChosenRanksHigh

\* What requests that do not overlap may rely on: they succeed, and keep what the others saved.
RequestsInTurn == SelectionsKept /\ AloneSucceeds

\* The job commits a new score for topic t.
JobRates(t) == JobRows /\ t \in DOMAIN raw /\ job' = "vector"

\* affinity.py:93-112: a score the job computed from a row it had read too early is
\* repaired for good, as long as the reader goes on reading about the topic so that
\* the job comes back to the row.
RanksSettle ==
    \A t \in Taxonomy :
        []<><<JobRates(t)>>_taste => (t \in explicit ~> [](combined[t] >= 60))
===============================================================================
