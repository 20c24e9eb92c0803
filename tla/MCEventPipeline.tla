--------------------------- MODULE MCEventPipeline ---------------------------
(* Small instances of EventPipeline: batches of two, a stream of three. *)
EXTENDS EventPipeline

CONSTANTS e1, e2, e3, e4, loop, cron

FourEvents == {e1, e2, e3, e4}
BadEvent == {e1}
LateEvent == {e2}
OneLoop == {loop}
OneCron == {cron}
==============================================================================
