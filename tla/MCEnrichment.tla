------------------------------ MODULE MCEnrichment ------------------------------
(* Small instances of Enrichment: two or three articles, batches of two. *)
EXTENDS Enrichment, TLC

CONSTANTS a1, a2, a3, b1, b2

TwoArticles == {a1, a2}
ThreeArticles == {a1, a2, a3}
OneAfterAnother(a) == CASE a = a1 -> 3 [] a = a2 -> 2 [] a = a3 -> 1
OneBatch == {b1}
TwoBatches == {b1, b2}
NoBatch == {}

\* The articles are one press release, sent twice.
OneText(a) == a1
OwnText(a) == a

AllKinds(t) == Kinds \cup {"none"}
FirstSkips(t) == IF t = a1 THEN {"skip"} ELSE {"good"}

Shaky == {"answers", "refuses", "breaks"}
Limited == {"refuses"}
Unsure == {"answers", "refuses"}

Symmetric == Permutations(Batches)
=================================================================================
