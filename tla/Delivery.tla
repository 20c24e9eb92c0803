------------------------------- MODULE Delivery -------------------------------
(***************************************************************************)
(* What the way from POST /v1/interactions to the table promises, without  *)
(* streams, groups, batches and workers: an event is accepted once, then   *)
(* waits, and either gets its one row or is given up because the stream is *)
(* full.  Nothing comes back from there, and nothing leaves otherwise.     *)
(***************************************************************************)
EXTENDS Naturals

CONSTANT Events

VARIABLES accepted,  \* the events the API has put on the way
          waiting,   \* those still on it, being read ones included
          lost,      \* those given up
          rows       \* rows[e]: the rows of e in user_interactions

vars == <<accepted, waiting, lost, rows>>

Init ==
    /\ accepted = {} /\ waiting = {} /\ lost = {}
    /\ rows = [e \in Events |-> 0]

\* publish_events: S comes in, and MAXLEN gives up D, of what waits or of S itself.
Accept(S, D) ==
    /\ S \subseteq Events \ accepted
    /\ D \subseteq waiting \cup S
    /\ accepted' = accepted \cup S
    /\ waiting' = (waiting \cup S) \ D
    /\ lost' = lost \cup D
    /\ UNCHANGED rows

\* A transaction of drain_stream_to_db.
Deliver(S) ==
    /\ S \subseteq waiting
    /\ waiting' = waiting \ S
    /\ rows' = [e \in Events |-> IF e \in S THEN 1 ELSE rows[e]]
    /\ UNCHANGED <<accepted, lost>>

Next ==
    \/ \E S, D \in SUBSET Events : Accept(S, D)
    \/ \E S \in SUBSET Events : Deliver(S)

Spec == Init /\ [][Next]_vars

-----------------------------------------------------------------------------
(* Properties *)

\* Where an accepted event is: on its way, in the table with one row, or given up.
\* (event_drain.py and event_buffer.py promise no more: what is given up or waits
\* for ever is not tried again.)
OnePlace ==
    /\ accepted = waiting \cup lost \cup {e \in Events : rows[e] # 0}
    /\ waiting \cap lost = {}
    /\ \A e \in Events : rows[e] # 0 => rows[e] = 1 /\ e \notin waiting \cup lost
===============================================================================
