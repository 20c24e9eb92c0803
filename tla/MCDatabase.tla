------------------------------ MODULE MCDatabase ------------------------------
(* A small instance of Database: two programs at a time; a taxonomy whose   *)
(* one topic moves to another pillar in its next edition, with a topic of   *)
(* no pillar in it.                                                         *)
EXTENDS Database

CONSTANTS t1, t2

Pillar(s)   == [table |-> "pillars", slug |-> s, pillar |-> "none", text |-> "old"]
Topic(s, p, text) == [table |-> "microtopics", slug |-> s, pillar |-> p, text |-> text]

Two == {t1, t2}
First  == <<Pillar("politics"), Topic("polls", "politics", "old")>>
Second == <<Pillar("politics"), Pillar("tech"), Topic("polls", "tech", "new"),
            Topic("lost", "nowhere", "new")>>
Feeds  == <<[table |-> "sources", slug |-> "feed", pillar |-> "none", text |-> "old"]>>
AllEditions == {First, Second, Feeds}
===============================================================================
