---------------------------- MODULE ArticleListing ----------------------------
(***************************************************************************)
(* GET /v1/articles (app/api/v1/articles.py): the articles of the database *)
(* from the newest to the oldest, a page at a time.  The cursor is the     *)
(* date of the last article of a page.  Anyone may call it; nothing is     *)
(* recorded.  A cursor that cannot be decoded counts as none.              *)
(***************************************************************************)
EXTENDS Naturals, Sequences, FiniteSets, SequencesExt

CONSTANTS Articles,
          PublishedAt(_),  \* published_at: a number of 1..Latest, not always unique
          Latest,
          TagPillars(_),   \* the pillars of its article_tags, if it is enriched
          Pillars,         \* the pillars of the navigation bar
          All,             \* no pillar selected
          Limit            \* the page size (20)

ASSUME ListingAssumption ==
    /\ Latest \in Nat /\ \A a \in Articles : PublishedAt(a) \in 1..Latest
    /\ All \notin Pillars
    /\ Limit \in Nat \ {0}

Now == Latest + 1
Null == 0
Choosable == Pillars \cup {All}

Least(m, n) == IF m < n THEN m ELSE n

Listable_AtOrBefore(rows, before, p) ==
    {a \in rows : PublishedAt(a) <= before /\ (p = All \/ p \in TagPillars(a))}

\* The WHERE clause.  The join with the tags is made distinct, and finds nothing for
\* a pillar that does not exist.
Listable(rows, before, p) ==
    {a \in rows : PublishedAt(a) < before /\ (p = All \/ p \in TagPillars(a))}

\* ORDER BY published_at DESC: articles of one date come in any order.
Listings(rows, before, p) ==
    {q \in SetToSeqs(Listable(rows, before, p)) :
        \A i, j \in DOMAIN q : i < j => PublishedAt(q[i]) >= PublishedAt(q[j])}

PageOf(q) == SubSeq(q, 1, Least(Limit, Len(q)))

NextOf_NoLookahead(q) == Null

\* LIMIT limit + 1: there is a next page if one row more is found.
NextOf(q) == IF Len(q) > Limit THEN PublishedAt(q[Limit]) ELSE Null

===============================================================================
