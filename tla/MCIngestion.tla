------------------------------ MODULE MCIngestion ------------------------------
(* Small instances of Ingestion: items whose urls and texts collide.           *)
EXTENDS Ingestion

CONSTANTS a, b, c,         \* items
          wire, daily,     \* sources
          r1, r2           \* runs

\* a and b are two copies of one text in the feed of wire; c is the page of a in
\* the feed of daily.
MCFeed(i) == IF i = c THEN daily ELSE wire
MCUrl(i) == IF i = c THEN a ELSE i
MCText(i) == a
MCStory(i) == a

Nothing == {}
ThreeItems == {a, b, c}
TwoSources == {wire, daily}
TwoRuns == {r1, r2}
SecondRun == {r2}
================================================================================
