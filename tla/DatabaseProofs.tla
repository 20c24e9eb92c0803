---------------------------- MODULE DatabaseProofs ----------------------------
(***************************************************************************)
(* Proofs about Database, for any editions of the seeds and any number of  *)
(* transactions (0005's tables: for two), whatever they run.               *)
(*                                                                         *)
(* The argument follows a program from its first statement to its last: at *)
(* each place of its lists it is known which tables it has made and        *)
(* dropped and what it has written to alembic_version (Programs).          *)
(* PostgreSQL keeps the rest apart: names made by two, two stamps, and     *)
(* locks that do not go together (Names, Stamps, Locks).  So at a commit   *)
(* the tables are again those of the version (Schema), and a program that  *)
(* runs alone meets no table, reference, version or row that refuses it    *)
(* (Due).                                                                  *)
(***************************************************************************)
EXTENDS Database, FiniteSetTheorems, TLAPS

-----------------------------------------------------------------------------
(* The parts of the invariant.                                             *)

\* The tables of the three revisions of migrations/versions.
MainTables == UNION {TablesOf(r) : r \in Main}

\* The revision that r revises, 0 for the first.
Prev(r) == CASE r = 2 -> 1 [] r = 3 -> 2 [] r = 5 -> 3 [] OTHER -> 0

\* What the statements before the n-th of r's lists create and drop.
Creates(r, n) ==
    {T \in AllTables :
        \E i \in 1..Len(Revision[r].up) : i < n /\ Revision[r].up[i] = Create(T)}

Drops(r, n) ==
    {T \in AllTables :
        \E i \in 1..Len(Revision[r].down) : i < n /\ Revision[r].down[i] = Drop(T)}

\* The tables of a database at version h, and of the revisions between f and r.
UpTo(h) == UNION {TablesOf(q) : q \in {q \in Main : q <= h}}
Between(f, r) == UNION {TablesOf(q) : q \in {q \in Main : f < q /\ q < r}}

\* An upgrade j at place p has made the tables of the revisions it has passed,
\* and those before p in its list; it has stamped the last one it has passed.
Upgrading(j, p, m, st) ==
    /\ p.rev = 0 \/ j.from < p.rev
    /\ p.rev = 0 => st = <<>>
    /\ p.rev # 0 =>
          st = IF p.n > Len(Revision[p.rev].up) THEN <<{p.rev}>>
               ELSE IF Prev(p.rev) = j.from THEN <<>> ELSE <<{Prev(p.rev)}>>
    /\ m \intersect MainTables =
          Between(j.from, p.rev) \union (Creates(p.rev, p.n) \intersect MainTables)
    /\ p = Start => m = {} /\ j.from = 0

\* A downgrade has dropped the tables before p in its list (DROP TABLE IF EXISTS
\* may pass over one of 0005's), and stamps at its end.
Downgrading(j, p, l, st) ==
    /\ p.rev = j.from /\ j.from \in Revisions
    /\ st = IF p.n > Len(Revision[p.rev].down) THEN <<{Prev(p.rev)} \ {0}>> ELSE <<>>
    /\ l \subseteq TablesOf(p.rev)
    /\ p.rev \in Main => l = Drops(p.rev, p.n)

Programs ==
    \A t \in Transactions :
        /\ at[t].n <= Len(script[t]) + 1
        /\ job[t].kind = "up" => Upgrading(job[t], at[t], made[t], stamped[t])
        /\ job[t].kind = "down" => Downgrading(job[t], at[t], lost[t], stamped[t])
        /\ job[t].kind = "seed" => job[t].edition \in Editions
        /\ job[t].kind # "up" => made[t] = {}
        /\ job[t].kind # "down" => lost[t] = {}
        /\ job[t].kind \notin {"up", "down"} => stamped[t] = <<>>
        /\ job[t].kind # "seed" => wrote[t] = <<>> /\ look[t] = <<>>
        /\ job[t].kind = "none" => held[t] = {} /\ due[t] = FALSE

\* A table is made once.
Names ==
    \A t \in Transactions :
        /\ made[t] \intersect tables = {}
        /\ \A u \in Transactions : t # u => made[t] \intersect made[u] = {}

\* The version row is written by one, and from the version it started at.
Stamps ==
    \A t \in Transactions : stamped[t] # <<>> =>
        /\ heads = {job[t].from} \ {0}
        /\ \A u \in Transactions : t # u => stamped[u] = <<>>

\* The tables of migrations/versions are those of the version.
Schema ==
    \E h \in {0} \union Revisions :
        heads = {h} \ {0} /\ tables \intersect MainTables = UpTo(h)

\* No two hold locks that conflict, and what is dropped is locked.
Locks ==
    /\ \A t, u \in Transactions : t # u =>
          \A h \in held[t], k \in held[u] : h[1] = k[1] => <<h[2], k[2]>> \notin Conflicts
    /\ \A t \in Transactions : \A T \in lost[t] : <<T, "AccessExclusive">> \in held[t]

\* A seed run has locked the tables of the entries it has read, so that their
\* rows do not go, and each entry it has done has one.
Filled(t) ==
    LET e == job[t].edition IN
    /\ \A i \in 1..Len(e) :
          Known(e, e[i]) /\ (i < at[t].n \/ (i = at[t].n /\ look[t] # <<>>))
          => <<e[i].table, "AccessShare">> \in held[t]
    /\ \A i \in 1..Len(e) :
          Known(e, e[i]) /\ i < at[t].n => RowSeen(t, e[i].slug) # None
    /\ look[t] # <<>> =>
          /\ at[t].n \in 1..Len(e) /\ Known(e, e[at[t].n])
          /\ look[t][1] # None => RowSeen(t, e[at[t].n].slug) # None
    /\ \A s \in DOMAIN wrote[t] :
          \E i \in 1..Len(e) : i < at[t].n /\ Known(e, e[i]) /\ s = e[i].slug

Seeding == \A t \in Transactions : job[t].kind = "seed" => Filled(t)

\* A program that is due: nothing else is open, the version is the one it
\* started at, and what it needs of tables and rows is there.
Alone(t) ==
    /\ \A u \in Transactions : u # t => ~Open(u)
    /\ job[t].kind \in {"up", "down"} => heads = {job[t].from} \ {0}
    /\ job[t].kind = "up" =>
          /\ at[t] = Start => Version \notin tables
          /\ at[t].rev # 0 => Creates(at[t].rev, at[t].n) \subseteq tables \union made[t]
    /\ job[t].kind = "seed" =>
          LET e == job[t].edition IN
          /\ \A x \in Entries(e) : x.table \in tables
          /\ look[t] # <<>> => look[t] = <<RowSeen(t, e[at[t].n].slug)>>
          /\ \A i \in 1..Len(e) : Known(e, e[i]) /\ i < at[t].n =>
                RowSeen(t, e[i].slug) = RowOf(e[i])
    /\ job[t].kind = "list" => {"pillars", "microtopics"} \subseteq tables

Due == \A t \in Transactions : due[t] => Alone(t)

\* Of 0005's tables, when there are two transactions at most: an upgrade past its
\* first index has made user_interactions or locked it, so that a downgrade of
\* 0005, which has dropped every table of the version, cannot end before it.
AtMostTwo == \A t, u, v \in Transactions : t = u \/ u = v \/ t = v
PastIndex(t) == job[t].kind = "up" /\ at[t].rev = 5 /\ at[t].n > 2

Five ==
    /\ 5 \in heads => TablesOf(5) \subseteq tables
    /\ \A t \in Transactions : PastIndex(t) =>
          /\ "user_interactions" \in tables \union made[t]
          /\ "user_interactions" \in made[t] \/ <<"user_interactions", "Share">> \in held[t]
    /\ \A t \in Transactions : job[t].kind = "up" /\ at[t].rev = 5 =>
          \A X \in Creates(5, at[t].n) : X = "user_interactions" \/ X \in tables \union made[t]
    /\ \A t, u \in Transactions :
          /\ job[t].kind = "up" /\ job[t].from < 5
          /\ job[u].kind = "down" /\ job[u].from = 5 /\ 5 \in heads
          => Drops(5, at[u].n) \subseteq lost[u]

FiveInv == AtMostTwo => Five

-----------------------------------------------------------------------------
(* The lists of the revisions.                                             *)

LEMMA RevisionsAre ==
    /\ Revision[0] = Revision0 /\ Revision[1] = Revision1 /\ Revision[2] = Revision2
    /\ Revision[3] = Revision3 /\ Revision[5] = Revision5
BY DEF Revision

LEMMA ListsAre ==
    /\ Len(Revision[0].up) = 1 /\ Len(Revision[1].up) = 3 /\ Len(Revision[2].up) = 3
    /\ Len(Revision[3].up) = 6 /\ Len(Revision[5].up) = 9
    /\ Len(Revision[1].down) = 3 /\ Len(Revision[2].down) = 3
    /\ Len(Revision[3].down) = 6 /\ Len(Revision[5].down) = 6
BY RevisionsAre DEF Revision0, Revision1, Revision2, Revision3, Revision5

\* No list is empty.
LEMMA ListsNotEmpty ==
    \A r \in Revisions : /\ r # 0 /\ ~(1 > Len(Revision[r].up))
                         /\ ~(1 > Len(Revision[r].down))
<1> TAKE r \in Revisions
<1>1. CASE r = 1  BY <1>1, ListsAre
<1>2. CASE r = 2  BY <1>2, ListsAre
<1>3. CASE r = 3  BY <1>3, ListsAre
<1>5. CASE r = 5  BY <1>5, ListsAre
<1> QED BY <1>1, <1>2, <1>3, <1>5 DEF Revisions

\* The statement at each place of each list.
LEMMA Ups ==
    /\ Revision[0].up[1] = Create(Version)
    /\ Revision[1].up[1] = Create("users") /\ Revision[1].up[2] = Create("sessions")
    /\ Revision[1].up[3] = Stamp(0, 1)
    /\ Revision[2].up[1] = Create("sources") /\ Revision[2].up[2] = Create("articles")
    /\ Revision[2].up[3] = Stamp(1, 2)
    /\ Revision[3].up[1] = Create("pillars") /\ Revision[3].up[2] = Create("microtopics")
    /\ Revision[3].up[3] = Create("article_ai") /\ Revision[3].up[4] = Create("article_tags")
    /\ Revision[3].up[5] = Create("article_embeddings") /\ Revision[3].up[6] = Stamp(2, 3)
    /\ Revision[5].up[1] = Create("user_interactions")
    /\ Revision[5].up[2] = Index("user_interactions")
    /\ Revision[5].up[3] = Create("user_topic_affinity")
    /\ Revision[5].up[4] = Index("user_topic_affinity")
    /\ Revision[5].up[5] = Create("user_profile_vectors")
    /\ Revision[5].up[6] = Create("feed_impressions")
    /\ Revision[5].up[7] = Index("feed_impressions")
    /\ Revision[5].up[8] = Create("onboarding_state")
    /\ Revision[5].up[9] = Stamp(3, 5)
BY RevisionsAre DEF Revision0, Revision1, Revision2, Revision3, Revision5

LEMMA Downs ==
    /\ Revision[1].down[1] = Drop("sessions") /\ Revision[1].down[2] = Drop("users")
    /\ Revision[1].down[3] = Stamp(1, 0)
    /\ Revision[2].down[1] = Drop("articles") /\ Revision[2].down[2] = Drop("sources")
    /\ Revision[2].down[3] = Stamp(2, 1)
    /\ Revision[3].down[1] = Drop("article_embeddings")
    /\ Revision[3].down[2] = Drop("article_tags") /\ Revision[3].down[3] = Drop("article_ai")
    /\ Revision[3].down[4] = Drop("microtopics") /\ Revision[3].down[5] = Drop("pillars")
    /\ Revision[3].down[6] = Stamp(3, 2)
    /\ Revision[5].down[1] = Drop("onboarding_state")
    /\ Revision[5].down[2] = Drop("feed_impressions")
    /\ Revision[5].down[3] = Drop("user_profile_vectors")
    /\ Revision[5].down[4] = Drop("user_topic_affinity")
    /\ Revision[5].down[5] = Drop("user_interactions")
    /\ Revision[5].down[6] = Stamp(5, 3)
BY RevisionsAre DEF Revision0, Revision1, Revision2, Revision3, Revision5

\* The tables of each revision.
LEMMA TablesAre ==
    /\ TablesOf(1) = {"users", "sessions"}
    /\ TablesOf(2) = {"sources", "articles"}
    /\ TablesOf(3) = {"pillars", "microtopics", "article_ai", "article_tags",
                      "article_embeddings"}
    /\ TablesOf(5) = {"user_interactions", "user_topic_affinity", "user_profile_vectors",
                      "feed_impressions", "onboarding_state"}
<1>1. TablesOf(1) = {"users", "sessions"}
    BY RevisionsAre DEF Revision1, TablesOf, ToSet, Create, Stamp
<1>2. TablesOf(2) = {"sources", "articles"}
    BY RevisionsAre DEF Revision2, TablesOf, ToSet, Create, Stamp
<1>3. TablesOf(3) = {"pillars", "microtopics", "article_ai", "article_tags",
                      "article_embeddings"}
    BY RevisionsAre DEF Revision3, TablesOf, ToSet, Create, Stamp
<1>5. TablesOf(5) = {"user_interactions", "user_topic_affinity", "user_profile_vectors",
                      "feed_impressions", "onboarding_state"}
    BY RevisionsAre DEF Revision5, TablesOf, ToSet, Create, Index, Stamp
<1> QED BY <1>1, <1>2, <1>3, <1>5

\* The names of the tables.
LEMMA NamesAre ==
    /\ MainTables = {"users", "sessions", "sources", "articles", "pillars", "microtopics",
                     "article_ai", "article_tags", "article_embeddings"}
    /\ Lenient = {"user_interactions", "user_topic_affinity", "user_profile_vectors",
                  "feed_impressions", "onboarding_state"}
    /\ AllTables = MainTables \union Lenient \union {Version}
    /\ MainTables \intersect Lenient = {}
<1>1. MainTables = TablesOf(1) \union TablesOf(2) \union TablesOf(3)
    BY DEF MainTables, Main
<1>2. AllTables = {Version} \union TablesOf(1) \union TablesOf(2) \union TablesOf(3)
                    \union TablesOf(5)
    BY DEF AllTables, Revisions
<1> QED BY <1>1, <1>2, TablesAre DEF Lenient

\* What a list has done before its first statement, after its last one, and
\* after the next one.
LEMMA NothingYet ==
    ASSUME NEW r \in {0} \union Revisions
    PROVE  Creates(r, 1) = {} /\ Drops(r, 1) = {}
<1>1. Len(Revision[r].up) \in Nat
    BY ListsAre DEF Revisions
<1> QED BY <1>1 DEF Creates, Drops

LEMMA CreatesNext ==
    ASSUME NEW r, NEW n \in 1..Len(Revision[r].up)
    PROVE  /\ Revision[r].up[n].op # "create" => Creates(r, n + 1) = Creates(r, n)
           /\ \A T \in AllTables : Revision[r].up[n] = Create(T)
                  => Creates(r, n + 1) = Creates(r, n) \union {T}
<1>1. ASSUME NEW i \in 1..Len(Revision[r].up)  PROVE i < n + 1 <=> i < n \/ i = n
    OBVIOUS
<1>2. ASSUME NEW T, NEW U, Create(T) = Create(U)  PROVE T = U
    BY <1>2 DEF Create
<1>3. \A T : Create(T).op = "create"
    BY DEF Create
<1>4. ASSUME Revision[r].up[n].op # "create"  PROVE Creates(r, n + 1) = Creates(r, n)
    BY <1>1, <1>3, <1>4 DEF Creates
<1>5. ASSUME NEW T \in AllTables, Revision[r].up[n] = Create(T)
      PROVE  Creates(r, n + 1) = Creates(r, n) \union {T}
    BY <1>1, <1>2, <1>5 DEF Creates
<1> QED BY <1>4, <1>5

LEMMA DropsNext ==
    ASSUME NEW r, NEW n \in 1..Len(Revision[r].down)
    PROVE  /\ Revision[r].down[n].op # "drop" => Drops(r, n + 1) = Drops(r, n)
           /\ \A T \in AllTables : Revision[r].down[n] = Drop(T)
                  => Drops(r, n + 1) = Drops(r, n) \union {T}
<1>1. ASSUME NEW i \in 1..Len(Revision[r].down)  PROVE i < n + 1 <=> i < n \/ i = n
    OBVIOUS
<1>2. ASSUME NEW T, NEW U, Drop(T) = Drop(U)  PROVE T = U
    BY <1>2 DEF Drop
<1>3. \A T : Drop(T).op = "drop"
    BY DEF Drop
<1>4. ASSUME Revision[r].down[n].op # "drop"  PROVE Drops(r, n + 1) = Drops(r, n)
    BY <1>1, <1>3, <1>4 DEF Drops
<1>5. ASSUME NEW T \in AllTables, Revision[r].down[n] = Drop(T)
      PROVE  Drops(r, n + 1) = Drops(r, n) \union {T}
    BY <1>1, <1>2, <1>5 DEF Drops
<1> QED BY <1>4, <1>5

LEMMA CreatesAll ==
    ASSUME NEW r \in Revisions
    PROVE  /\ Creates(r, Len(Revision[r].up) + 1) = TablesOf(r)
           /\ Drops(r, Len(Revision[r].down) + 1) = TablesOf(r)
<1> USE DEF Creates, Drops, Create, Drop, Stamp, Index
<1>1. CASE r = 1  BY <1>1, ListsAre, Ups, Downs, TablesAre, NamesAre
<1>2. CASE r = 2  BY <1>2, ListsAre, Ups, Downs, TablesAre, NamesAre
<1>3. CASE r = 3  BY <1>3, ListsAre, Ups, Downs, TablesAre, NamesAre
<1>5. CASE r = 5  BY <1>5, ListsAre, Ups, Downs, TablesAre, NamesAre
<1> QED BY <1>1, <1>2, <1>3, <1>5 DEF Revisions

\* The places of the lists.
LEMMA Places ==
    ASSUME NEW n
    PROVE  /\ n \in 1..Len(Revision[0].up) => n = 1
           /\ n \in 1..Len(Revision[1].up) => n \in {1, 2, 3}
           /\ n \in 1..Len(Revision[2].up) => n \in {1, 2, 3}
           /\ n \in 1..Len(Revision[3].up) => n \in {1, 2, 3, 4, 5, 6}
           /\ n \in 1..Len(Revision[5].up) => n \in {1, 2, 3, 4, 5, 6, 7, 8, 9}
           /\ n \in 1..Len(Revision[1].down) => n \in {1, 2, 3}
           /\ n \in 1..Len(Revision[2].down) => n \in {1, 2, 3}
           /\ n \in 1..Len(Revision[3].down) => n \in {1, 2, 3, 4, 5, 6}
           /\ n \in 1..Len(Revision[5].down) => n \in {1, 2, 3, 4, 5, 6}
BY ListsAre

\* The three kinds of statements of an upgrade, and the two of a downgrade.
LEMMA UpStatements ==
    ASSUME NEW r \in {0} \union Revisions, NEW n \in 1..Len(Revision[r].up)
    PROVE  LET s == Revision[r].up[n] IN
           /\ \/ /\ s = Create(s.table)
                 /\ IF r = 0 THEN s.table = Version ELSE s.table \in TablesOf(r)
              \/ s = Index(s.table) /\ r = 5 /\ s.table \in TablesOf(5)
              \/ s = Stamp(Prev(r), r)
           /\ s.op = "stamp" <=> (r # 0 /\ n = Len(Revision[r].up))
<1> USE DEF Create, Index, Stamp, Prev
<1>0. CASE r = 0  BY <1>0, Places, ListsAre, Ups, TablesAre
<1>1. CASE r = 1  BY <1>1, Places, ListsAre, Ups, TablesAre
<1>2. CASE r = 2  BY <1>2, Places, ListsAre, Ups, TablesAre
<1>3. CASE r = 3  BY <1>3, Places, ListsAre, Ups, TablesAre
<1>5. CASE r = 5  BY <1>5, Places, ListsAre, Ups, TablesAre
<1> QED BY <1>0, <1>1, <1>2, <1>3, <1>5 DEF Revisions

LEMMA DownStatements ==
    ASSUME NEW r \in Revisions, NEW n \in 1..Len(Revision[r].down)
    PROVE  LET s == Revision[r].down[n] IN
           /\ \/ s = Drop(s.table) /\ s.table \in TablesOf(r)
              \/ s = Stamp(r, Prev(r))
           /\ s.op = "stamp" <=> n = Len(Revision[r].down)
<1> USE DEF Drop, Stamp, Prev
<1>1. CASE r = 1  BY <1>1, Places, ListsAre, Downs, TablesAre
<1>2. CASE r = 2  BY <1>2, Places, ListsAre, Downs, TablesAre
<1>3. CASE r = 3  BY <1>3, Places, ListsAre, Downs, TablesAre
<1>5. CASE r = 5  BY <1>5, Places, ListsAre, Downs, TablesAre
<1> QED BY <1>1, <1>2, <1>3, <1>5 DEF Revisions

\* No list names a table twice.
LEMMA NewName ==
    ASSUME NEW r \in {0} \union Revisions, NEW n \in 1..Len(Revision[r].up), NEW T,
           Revision[r].up[n] = Create(T)
    PROVE  T \notin Creates(r, n)
<1> USE DEF Create, Index, Stamp, Creates
<1>0. CASE r = 0  BY <1>0, Places, ListsAre, Ups
<1>1. CASE r = 1  BY <1>1, Places, ListsAre, Ups
<1>2. CASE r = 2  BY <1>2, Places, ListsAre, Ups
<1>3. CASE r = 3  BY <1>3, Places, ListsAre, Ups
<1>5. CASE r = 5  BY <1>5, Places, ListsAre, Ups
<1> QED BY <1>0, <1>1, <1>2, <1>3, <1>5 DEF Revisions

LEMMA OldName ==
    ASSUME NEW r \in Revisions, NEW n \in 1..Len(Revision[r].down), NEW T,
           Revision[r].down[n] = Drop(T)
    PROVE  T \notin Drops(r, n)
<1> USE DEF Drop, Stamp, Drops
<1>1. CASE r = 1  BY <1>1, Places, ListsAre, Downs
<1>2. CASE r = 2  BY <1>2, Places, ListsAre, Downs
<1>3. CASE r = 3  BY <1>3, Places, ListsAre, Downs
<1>5. CASE r = 5  BY <1>5, Places, ListsAre, Downs
<1> QED BY <1>1, <1>2, <1>3, <1>5 DEF Revisions

\* An index of 0005 is on a table its list has created.
LEMMA IndexedIsCreated ==
    ASSUME NEW n \in 1..Len(Revision[5].up), NEW T, Revision[5].up[n] = Index(T)
    PROVE  T \in Creates(5, n)
BY Places, ListsAre, Ups, TablesAre, NamesAre DEF Create, Index, Stamp, Creates

\* The tables of a database at each version.
LEMMA UpToIs ==
    /\ UpTo(0) = {} /\ UpTo(1) = TablesOf(1) /\ UpTo(2) = TablesOf(1) \union TablesOf(2)
    /\ UpTo(3) = MainTables /\ UpTo(5) = MainTables
BY NamesAre, TablesAre DEF UpTo, Main, MainTables

\* A table is made after those its foreign keys point to, and is dropped when
\* none that is left points to it.
LEMMA RefsAreThere ==
    ASSUME NEW r \in {0} \union Revisions, NEW n \in 1..Len(Revision[r].up), NEW T,
           Revision[r].up[n] = Create(T)
    PROVE  Refs(T) \subseteq UpTo(Prev(r)) \union Creates(r, n)
<1> USE DEF Create, Index, Stamp, Creates, Refs, Prev, Version
<1>0. CASE r = 0  BY <1>0, Places, ListsAre, Ups
<1>1. CASE r = 1  BY <1>1, Places, ListsAre, Ups, NamesAre
<1>2. CASE r = 2  BY <1>2, Places, ListsAre, Ups, NamesAre
<1>3. CASE r = 3  BY <1>3, Places, ListsAre, Ups, NamesAre, TablesAre, UpToIs
<1>5. CASE r = 5  BY <1>5, Places, ListsAre, Ups
<1> QED BY <1>0, <1>1, <1>2, <1>3, <1>5 DEF Revisions

LEMMA RefsAreGone ==
    ASSUME NEW r \in Revisions, NEW n \in 1..Len(Revision[r].down), NEW T,
           Revision[r].down[n] = Drop(T),
           NEW D \in AllTables, T \in Refs(D)
    PROVE  D \in Drops(r, n) \/ D \in MainTables \ UpTo(r)
<1> USE DEF Drop, Stamp, Drops, Refs, Version
<1>1. CASE r = 1  BY <1>1, Places, ListsAre, Downs, NamesAre, TablesAre, UpToIs
<1>2. CASE r = 2  BY <1>2, Places, ListsAre, Downs, NamesAre, TablesAre, UpToIs
<1>3. CASE r = 3  BY <1>3, Places, ListsAre, Downs, NamesAre, TablesAre, UpToIs
<1>5. CASE r = 5  BY <1>5, Places, ListsAre, Downs
<1> QED BY <1>1, <1>2, <1>3, <1>5 DEF Revisions

-----------------------------------------------------------------------------
(* An upgrade and a downgrade, statement by statement.                     *)

Positions == [rev : {0} \union Revisions, n : Nat \ {0}]

\* The position after p in a program that goes up to `to`.
Ahead(j, p) ==
    IF p.n = Len(Revision[p.rev].up) /\ After(p.rev) <= j.to
    THEN [rev |-> After(p.rev), n |-> 1]
    ELSE [p EXCEPT !.n = @ + 1]

\* The next place is in the same list, or the first of the next revision.
LEMMA AheadIs ==
    ASSUME NEW j \in Jobs, NEW p \in Positions, p.n \in 1..Len(Revision[p.rev].up)
    PROVE  \/ /\ Ahead(j, p) = [rev |-> p.rev, n |-> p.n + 1]
           \/ /\ p.n = Len(Revision[p.rev].up) /\ p.rev # 5
              /\ Ahead(j, p) = [rev |-> After(p.rev), n |-> 1]
              /\ After(p.rev) \in Revisions /\ Prev(After(p.rev)) = p.rev
<1>1. ASSUME p.n = Len(Revision[p.rev].up), After(p.rev) <= j.to
      PROVE  p.rev # 5 /\ After(p.rev) \in Revisions /\ Prev(After(p.rev)) = p.rev
    <2>1. p.rev \in {0, 1, 2, 3, 5} /\ j.to \in {0, 3, 5}
        BY DEF Positions, Revisions, Jobs, Ends
    <2> QED BY <1>1, <2>1 DEF After, Prev, Revisions
<1> QED BY <1>1 DEF Ahead, Positions

\* The tables between two revisions, one revision on.
LEMMA BetweenNext ==
    ASSUME NEW f \in {0} \union Revisions, NEW r \in {0} \union Revisions, f < r, r # 5
    PROVE  Between(f, After(r)) = Between(f, r) \union TablesOf(r)
<1>1. ASSUME NEW q \in Main  PROVE f < q /\ q < After(r) <=> (f < q /\ q < r) \/ q = r
    BY DEF Main, Revisions, After
<1>2. r \in Main
    BY DEF Main, Revisions
<1> QED BY <1>1, <1>2 DEF Between

\* alembic's own table and those of 0005 are not of migrations/versions.
LEMMA CreatesOfMain ==
    ASSUME NEW r \in {0} \union Revisions, NEW n \in Nat
    PROVE  r \in {0, 5} => Creates(r, n) \intersect MainTables = {}
<1>1. CASE r = 0
    <2>1. ASSUME NEW i \in 1..Len(Revision[0].up), NEW T, Revision[0].up[i] = Create(T)
          PROVE  T = Version
        <3>1. Revision[0].up[i] = Create(Version)
            BY Places, Ups
        <3> QED BY <2>1, <3>1 DEF Create
    <2>2. Version \notin MainTables
        BY NamesAre DEF Version
    <2> QED BY <1>1, <2>1, <2>2 DEF Creates
<1>2. CASE r = 5
    <2>1. ASSUME NEW i \in 1..Len(Revision[5].up), NEW T, Revision[5].up[i] = Create(T)
          PROVE  T \in Lenient
        <3>1. LET s == Revision[5].up[i] IN
              \/ s = Create(s.table) /\ s.table \in TablesOf(5)
              \/ s = Index(s.table)
              \/ s = Stamp(Prev(5), 5)
            BY UpStatements DEF Revisions
        <3>2. Revision[5].up[i].op = "create" /\ Revision[5].up[i].table = T
            BY <2>1 DEF Create
        <3>3. \/ Revision[5].up[i].table \in TablesOf(5)
              \/ Revision[5].up[i].op \in {"index", "stamp"}
            BY <3>1 DEF Index, Stamp
        <3> QED BY <3>2, <3>3 DEF Lenient
    <2> QED BY <1>2, <2>1, NamesAre DEF Creates
<1> QED BY <1>1, <1>2

\* An upgrade that does the statement at its place is where the next one is.
LEMMA UpgradeStep ==
    ASSUME NEW j \in Jobs, NEW p \in Positions, p.n \in 1..Len(Revision[p.rev].up),
           NEW m, NEW st, Upgrading(j, p, m, st), NEW m2, NEW st2,
           \/ /\ \E T \in AllTables :
                    /\ Revision[p.rev].up[p.n] = Create(T)
                    /\ m2 \intersect MainTables = (m \union {T}) \intersect MainTables
              /\ st2 = st
           \/ Revision[p.rev].up[p.n].op = "index" /\ m2 = m /\ st2 = st
           \/ Revision[p.rev].up[p.n].op = "stamp" /\ m2 = m /\ st2 = <<{p.rev}>>
    PROVE  Upgrading(j, Ahead(j, p), m2, st2)
<1> DEFINE r == p.rev
           n == p.n
           L == Len(Revision[r].up)
           S == Revision[r].up[n]
           Done == Creates(r, n + 1) \intersect MainTables
<1>1. /\ r \in {0} \union Revisions /\ n \in Nat /\ n \in 1..L /\ L \in Nat
      /\ j.from \in {0} \union Revisions
    BY ListsAre DEF Positions, Jobs, Revisions
<1>2. m2 \intersect MainTables = Between(j.from, r) \union Done
    <2>1. m \intersect MainTables =
              Between(j.from, r) \union (Creates(r, n) \intersect MainTables)
        BY DEF Upgrading
    <2>2. CASE \E T \in AllTables :
                    /\ S = Create(T)
                    /\ m2 \intersect MainTables = (m \union {T}) \intersect MainTables
        BY <2>1, <2>2, <1>1, CreatesNext
    <2>3. CASE S.op \in {"index", "stamp"} /\ m2 = m
        BY <2>1, <2>3, <1>1, CreatesNext
    <2> QED BY <2>2, <2>3
<1>3. S.op = "stamp" <=> (r # 0 /\ n = L)
    BY <1>1, UpStatements
<1>4. S.op # "stamp" => st2 = st
    OBVIOUS
<1>5. S.op = "stamp" => st2 = <<{r}>>
    <2>1. \A T : Create(T).op # "stamp"
        BY DEF Create
    <2> QED BY <2>1
<1>6. r # 0 => j.from < r
    BY DEF Upgrading
<1>7. r # 0 /\ S.op # "stamp" =>
          st = IF Prev(r) = j.from THEN <<>> ELSE <<{Prev(r)}>>
    BY <1>1, <1>3 DEF Upgrading
<1>8. r = 0 => st2 = <<>>
    BY <1>3, <1>4 DEF Upgrading
<1>9. CASE Ahead(j, p) = [rev |-> r, n |-> n + 1]
    BY <1>9, <1>1, <1>2, <1>3, <1>4, <1>5, <1>6, <1>7, <1>8 DEF Upgrading, Start
<1>10. CASE /\ n = L /\ r # 5
            /\ Ahead(j, p) = [rev |-> After(r), n |-> 1]
            /\ After(r) \in Revisions /\ Prev(After(r)) = r
    <2>1. r = 0 => j.from = 0 /\ n = 1
        BY <1>1, <1>10, ListsAre DEF Upgrading, Start, Positions
    <2>2. j.from < After(r)
        BY <1>1, <1>6, <2>1 DEF After, Revisions
    <2>3. Creates(After(r), 1) = {}
        BY <1>10, NothingYet
    <2>4. Between(j.from, After(r)) = Between(j.from, r) \union Done
        <3>1. CASE r = 0
            <4>1. Between(j.from, 0) = {} /\ Between(j.from, 1) = {}
                BY <3>1, <2>1 DEF Between, Main
            <4>2. Done = {}
                BY <3>1, <1>1, CreatesOfMain
            <4> QED BY <3>1, <4>1, <4>2 DEF After
        <3>2. CASE r # 0
            <4>1. r \in Revisions /\ r \in Main
                BY <3>2, <1>1, <1>10 DEF Revisions, Main
            <4>2. Creates(r, n + 1) = TablesOf(r) /\ TablesOf(r) \subseteq MainTables
                BY <4>1, <1>10, CreatesAll DEF MainTables
            <4>3. Between(j.from, After(r)) = Between(j.from, r) \union TablesOf(r)
                BY <3>2, <1>1, <1>6, <1>10, BetweenNext
            <4> QED BY <4>2, <4>3
        <3> QED BY <3>1, <3>2
    <2>5. After(r) # 0 /\ ~(1 > Len(Revision[After(r)].up))
        BY <1>10, ListsNotEmpty
    <2>6. st2 = IF r = j.from THEN <<>> ELSE <<{r}>>
        <3>1. CASE r = 0  BY <3>1, <2>1, <1>8
        <3>2. CASE r # 0
            <4>1. r # j.from  BY <3>2, <1>1, <1>6 DEF Revisions
            <4> QED BY <3>2, <4>1, <1>3, <1>5, <1>10
        <3> QED BY <3>1, <3>2
    <2>7. Upgrading(j, [rev |-> After(r), n |-> 1], m2, st2)
        BY <1>2, <1>10, <2>2, <2>3, <2>4, <2>5, <2>6 DEF Upgrading, Start
    <2> QED BY <1>10, <2>7
<1> QED BY <1>9, <1>10, <1>1, AheadIs

\* And so is a downgrade.
LEMMA DowngradeStep ==
    ASSUME NEW j \in Jobs, NEW p \in Positions, NEW l, NEW st, Downgrading(j, p, l, st),
           p.n \in 1..Len(Revision[p.rev].down), NEW l2, NEW st2,
           \/ \E T \in AllTables :
                 /\ Revision[p.rev].down[p.n] = Drop(T)
                 /\ l2 = l \union {T} \/ (l2 = l /\ p.rev = 5)
                 /\ st2 = st
           \/ Revision[p.rev].down[p.n].op = "stamp" /\ l2 = l /\ st2 = <<{Prev(p.rev)} \ {0}>>
    PROVE  Downgrading(j, [rev |-> p.rev, n |-> p.n + 1], l2, st2)
<1> DEFINE r == p.rev
           n == p.n
           L == Len(Revision[r].down)
           S == Revision[r].down[n]
<1>1. /\ r \in Revisions /\ n \in Nat /\ n \in 1..L /\ L \in Nat
      /\ l \subseteq TablesOf(r) /\ (r \in Main => l = Drops(r, n))
    BY ListsAre DEF Downgrading, Positions, Revisions
<1>2. S.op = "stamp" <=> n = L
    BY <1>1, DownStatements
<1>3. l2 \subseteq TablesOf(r) /\ (r \in Main => l2 = Drops(r, n + 1))
    <2>1. CASE S.op = "stamp" /\ l2 = l
        BY <2>1, <1>1, DropsNext
    <2>2. ASSUME NEW T \in AllTables, S = Drop(T),
                 l2 = l \union {T} \/ (l2 = l /\ r = 5)
          PROVE  l2 \subseteq TablesOf(r) /\ (r \in Main => l2 = Drops(r, n + 1))
        <3>1. S.op = "drop" /\ S.table = T
            BY <2>2 DEF Drop
        <3>2. T \in TablesOf(r)
            <4>1. LET s == Revision[r].down[n] IN
                  \/ s = Drop(s.table) /\ s.table \in TablesOf(r)
                  \/ s = Stamp(r, Prev(r))
                BY <1>1, DownStatements
            <4> QED BY <4>1, <3>1 DEF Stamp
        <3>3. Drops(r, n + 1) = Drops(r, n) \union {T}
            BY <1>1, <2>2, DropsNext
        <3>4. ~(5 \in Main)
            BY DEF Main
        <3> QED BY <1>1, <2>2, <3>2, <3>3, <3>4
    <2> QED BY <2>1, <2>2
<1>4. st2 = IF n + 1 > L THEN <<{Prev(r)} \ {0}>> ELSE <<>>
    <2>1. CASE n = L
        <3>1. \A T : Drop(T).op # "stamp"
            BY DEF Drop
        <3> QED BY <2>1, <1>1, <1>2, <3>1
    <2>2. CASE n # L
        <3>1. st = <<>>
            BY <2>2, <1>1 DEF Downgrading
        <3> QED BY <2>2, <1>1, <1>2, <3>1
    <2> QED BY <2>1, <2>2
<1> QED BY <1>1, <1>3, <1>4 DEF Downgrading

-----------------------------------------------------------------------------
(* The statement a transaction is at.                                      *)

\* The entries of an edition, and what they name.
LEMMA SlugsOfEditions ==
    ASSUME NEW e \in Editions
    PROVE  /\ Len(e) \in Nat /\ DOMAIN e = 1..Len(e) /\ ToSet(e) = {e[i] : i \in 1..Len(e)}
           /\ \A i \in 1..Len(e) :
                 /\ e[i].table \in {"pillars", "microtopics", "sources"}
                 /\ e[i].table \in MainTables /\ e[i].table \in AllTables
                 /\ e[i].slug \in Slugs /\ RowOf(e[i]) \in Rows
<1>1. Len(e) \in Nat /\ DOMAIN e = 1..Len(e)
    BY DatabaseAssumption
<1>2. ToSet(e) = {e[i] : i \in 1..Len(e)}
    BY <1>1 DEF ToSet
<1>3. ASSUME NEW i \in 1..Len(e)
      PROVE  /\ e[i].table \in {"pillars", "microtopics", "sources"}
             /\ e[i].slug \in Slugs /\ RowOf(e[i]) \in Rows
    <2>1. e[i] \in ToSet(e) /\ e[i] \in Everything
        BY <1>2 DEF Everything
    <2> QED BY <2>1, DatabaseAssumption DEF Slugs, Rows, RowOf
<1> QED BY <1>1, <1>2, <1>3, NamesAre

\* A transaction is at a statement of its list, or past it and at its commit.
LEMMA Statement ==
    ASSUME TypeOK, Programs, NEW t \in Transactions
    PROVE  /\ job[t] \in Jobs /\ at[t] \in Positions
           /\ script[t] = Script(job[t], at[t].rev)
           /\ Len(script[t]) \in Nat /\ at[t].n \in 1..(Len(script[t]) + 1)
           /\ at[t].n = Len(script[t]) + 1 => Now(t).op = "commit"
           /\ at[t].n # Len(script[t]) + 1 =>
                 /\ at[t].n \in 1..Len(script[t])
                 /\ Now(t) = IF job[t].kind = "seed" THEN Upsert(t, script[t][at[t].n])
                             ELSE script[t][at[t].n]
<1>1. job[t] \in Jobs /\ at[t] \in Positions /\ script[t] = Script(job[t], at[t].rev)
    BY DEF TypeOK, Positions
<1>2. at[t].n \in Nat \ {0} /\ at[t].n <= Len(script[t]) + 1
    BY <1>1 DEF Positions, Programs
<1>3. Len(script[t]) \in Nat
    <2>1. at[t].rev \in {0, 1, 2, 3, 5}
        BY <1>1 DEF Positions, Revisions
    <2>2. job[t].kind = "up" => Len(Script(job[t], at[t].rev)) \in Nat
        BY <2>1, ListsAre DEF Script
    <2>3. job[t].kind = "down" => Len(Script(job[t], at[t].rev)) \in Nat
        <3>1. job[t].kind = "down" => at[t].rev \in {1, 2, 3, 5}
            BY DEF Programs, Downgrading, Revisions
        <3> QED BY <3>1, ListsAre DEF Script
    <2>4. job[t].kind = "seed" => Len(Script(job[t], at[t].rev)) \in Nat
        BY SlugsOfEditions DEF Script, Programs
    <2>5. job[t].kind \in {"none", "list"} => Len(Script(job[t], at[t].rev)) \in Nat
        BY DEF Script, Listing
    <2> QED BY <1>1, <2>2, <2>3, <2>4, <2>5 DEF Jobs
<1> QED BY <1>1, <1>2, <1>3 DEF Now

UpAt(t) ==
    LET r == at[t].rev IN
    /\ job[t].kind = "up" /\ script[t] = Revision[r].up
    /\ r \in {0} \union Revisions /\ at[t].n \in 1..Len(Revision[r].up)
    /\ Now(t) = Revision[r].up[at[t].n]

DownAt(t) ==
    LET r == at[t].rev IN
    /\ job[t].kind = "down" /\ script[t] = Revision[r].down
    /\ r \in Revisions /\ at[t].n \in 1..Len(Revision[r].down)
    /\ Now(t) = Revision[r].down[at[t].n]

SeedAt(t) ==
    LET e == job[t].edition IN
    /\ job[t].kind = "seed" /\ e \in Editions /\ script[t] = e
    /\ at[t].n \in 1..Len(e)
    /\ Now(t) = Upsert(t, e[at[t].n])

ListAt(t) ==
    /\ job[t].kind = "list" /\ script[t] = Listing
    /\ at[t].n \in {1, 2} /\ Now(t) = Listing[at[t].n]

\* So it is in one of four programs, or at its commit.
LEMMA Where ==
    ASSUME TypeOK, Programs, NEW t \in Transactions
    PROVE  \/ UpAt(t) \/ DownAt(t) \/ SeedAt(t) \/ ListAt(t)
           \/ At(t, "commit") /\ at[t].n = Len(script[t]) + 1
<1>1. CASE at[t].n = Len(script[t]) + 1
    BY <1>1, Statement DEF At
<1>2. CASE at[t].n # Len(script[t]) + 1
    <2>1. /\ at[t].n \in 1..Len(script[t]) /\ script[t] = Script(job[t], at[t].rev)
          /\ Now(t) = IF job[t].kind = "seed" THEN Upsert(t, script[t][at[t].n])
                      ELSE script[t][at[t].n]
          /\ job[t].kind \in {"none", "up", "down", "seed", "list"}
          /\ at[t].rev \in {0} \union Revisions
        BY <1>2, Statement DEF Jobs, Positions
    <2>2. CASE job[t].kind = "up"
        BY <2>1, <2>2 DEF UpAt, Script
    <2>3. CASE job[t].kind = "down"
        BY <2>1, <2>3 DEF DownAt, Script, Programs, Downgrading
    <2>4. CASE job[t].kind = "seed"
        BY <2>1, <2>4 DEF SeedAt, Script, Programs
    <2>5. CASE job[t].kind = "list"
        <3>1. script[t] = Listing /\ Len(Listing) = 2
            BY <2>1, <2>5 DEF Script, Listing
        <3> QED BY <2>1, <2>5, <3>1 DEF ListAt
    <2>6. CASE job[t].kind = "none"
        BY <2>1, <2>6 DEF Script
    <2> QED BY <2>1, <2>2, <2>3, <2>4, <2>5, <2>6
<1> QED BY <1>1, <1>2

\* The operations each of them can be at.
LEMMA Operations ==
    ASSUME NEW t
    PROVE  /\ UpAt(t) => Now(t).op \in {"create", "index", "stamp"}
           /\ DownAt(t) => Now(t).op \in {"drop", "stamp"}
           /\ SeedAt(t) => Now(t).op \in {"read", "write", "pass"}
           /\ ListAt(t) => Now(t).op = "list"
<1>1. ASSUME UpAt(t)  PROVE Now(t).op \in {"create", "index", "stamp"}
    <2>1. LET s == Revision[at[t].rev].up[at[t].n] IN
          \/ s = Create(s.table) \/ s = Index(s.table) \/ s = Stamp(Prev(at[t].rev), at[t].rev)
        BY <1>1, UpStatements DEF UpAt
    <2> QED BY <1>1, <2>1 DEF UpAt, Create, Index, Stamp
<1>2. ASSUME DownAt(t)  PROVE Now(t).op \in {"drop", "stamp"}
    <2>1. LET s == Revision[at[t].rev].down[at[t].n] IN
          \/ s = Drop(s.table) \/ s = Stamp(at[t].rev, Prev(at[t].rev))
        BY <1>2, DownStatements DEF DownAt
    <2> QED BY <1>2, <2>1 DEF DownAt, Drop, Stamp
<1>3. SeedAt(t) => Now(t).op \in {"read", "write", "pass"}
    BY DEF SeedAt, Upsert
<1>4. ListAt(t) => Now(t).op = "list"
    BY DEF ListAt, Listing
<1> QED BY <1>1, <1>2, <1>3, <1>4

\* So an operation tells what program it is in.
LEMMA OperationOf ==
    ASSUME TypeOK, Programs, NEW t \in Transactions
    PROVE  /\ At(t, "create") => UpAt(t)
           /\ At(t, "index") => UpAt(t)
           /\ At(t, "stamp") => UpAt(t) \/ DownAt(t)
           /\ At(t, "drop") => DownAt(t)
           /\ At(t, "read") => SeedAt(t)
           /\ At(t, "write") => SeedAt(t)
           /\ At(t, "pass") => SeedAt(t)
           /\ At(t, "list") => ListAt(t)
           /\ At(t, "commit") => at[t].n = Len(script[t]) + 1
BY Where, Operations DEF At

\* The statement of an upgrade.
LEMMA UpDetails ==
    ASSUME NEW t, UpAt(t)
    PROVE  LET s == Now(t)
               r == at[t].rev
           IN /\ s.table \in AllTables
              /\ s.op = "create" => /\ s = Create(s.table)
                                    /\ r = 0 => s.table = Version
                                    /\ r # 0 => s.table \in TablesOf(r)
              /\ s.op = "index" => s = Index(s.table) /\ r = 5
              /\ s.op = "stamp" => s = Stamp(Prev(r), r)
              /\ s.op = "stamp" <=> (r # 0 /\ at[t].n = Len(Revision[r].up))
<1> DEFINE r == at[t].rev
<1>1. LET s == Revision[r].up[at[t].n] IN
           /\ \/ /\ s = Create(s.table)
                 /\ IF r = 0 THEN s.table = Version ELSE s.table \in TablesOf(r)
              \/ s = Index(s.table) /\ r = 5 /\ s.table \in TablesOf(5)
              \/ s = Stamp(Prev(r), r)
           /\ s.op = "stamp" <=> (r # 0 /\ at[t].n = Len(Revision[r].up))
    BY UpStatements DEF UpAt
<1>2. Now(t) = Revision[r].up[at[t].n] /\ r \in {0} \union Revisions
    BY DEF UpAt
<1>3. /\ \A q \in Revisions : TablesOf(q) \subseteq AllTables
      /\ Version \in AllTables /\ 5 \in Revisions
    BY DEF AllTables, Revisions
<1> QED BY <1>1, <1>2, <1>3 DEF Create, Index, Stamp

\* The statement of a downgrade.
LEMMA DownDetails ==
    ASSUME NEW t, DownAt(t)
    PROVE  LET s == Now(t)
               r == at[t].rev
           IN /\ s.table \in AllTables
              /\ s.op = "drop" => s = Drop(s.table) /\ s.table \in TablesOf(r)
              /\ s.op = "stamp" => s = Stamp(r, Prev(r))
              /\ s.op = "stamp" <=> at[t].n = Len(Revision[r].down)
<1> DEFINE r == at[t].rev
<1>1. LET s == Revision[r].down[at[t].n] IN
           /\ \/ s = Drop(s.table) /\ s.table \in TablesOf(r)
              \/ s = Stamp(r, Prev(r))
           /\ s.op = "stamp" <=> at[t].n = Len(Revision[r].down)
    BY DownStatements DEF DownAt
<1>2. Now(t) = Revision[r].down[at[t].n] /\ r \in Revisions
    BY DEF DownAt
<1>3. (\A q \in Revisions : TablesOf(q) \subseteq AllTables) /\ Version \in AllTables
    BY DEF AllTables
<1> QED BY <1>1, <1>2, <1>3 DEF Drop, Stamp

\* Foreign keys point to tables, and locks are on tables.
LEMMA RefsTyped ==
    ASSUME NEW T
    PROVE  Refs(T) \subseteq AllTables
BY NamesAre DEF Refs

LEMMA NeedsTyped ==
    ASSUME TypeOK, Programs, NEW t \in Transactions,
           UpAt(t) \/ DownAt(t) \/ SeedAt(t) \/ ListAt(t)
    PROVE  Needs(t) \subseteq AllTables \X Modes
<1>1. Now(t).table \in AllTables
    <2>1. CASE SeedAt(t)
        BY <2>1, SlugsOfEditions DEF SeedAt, Upsert
    <2>2. CASE ListAt(t)
        BY <2>2, NamesAre DEF ListAt, Listing
    <2> QED BY <2>1, <2>2, UpDetails, DownDetails
<1>2. Now(t).op \in {"create", "drop", "index", "stamp", "write", "read", "pass", "list"}
    BY Operations
<1> QED BY <1>1, <1>2, RefsTyped DEF Needs, Modes

\* The place after a statement, program by program.
LEMMA OnwardIs ==
    ASSUME TypeOK, NEW t \in Transactions
    PROVE  /\ UpAt(t) => Onward(t) = Ahead(job[t], at[t])
           /\ DownAt(t) \/ SeedAt(t) \/ ListAt(t)
                  => Onward(t) = [rev |-> at[t].rev, n |-> at[t].n + 1]
           /\ UpAt(t) \/ DownAt(t) \/ SeedAt(t) \/ ListAt(t) => Onward(t) \in Positions
<1>1. at[t] \in Positions /\ job[t] \in Jobs
    BY DEF TypeOK, Positions
<1>2. UpAt(t) => Onward(t) = Ahead(job[t], at[t])
    BY DEF UpAt, Onward, Ahead
<1>3. DownAt(t) \/ SeedAt(t) \/ ListAt(t)
          => Onward(t) = [rev |-> at[t].rev, n |-> at[t].n + 1]
    BY <1>1 DEF DownAt, SeedAt, ListAt, Onward, Positions
<1>4. UpAt(t) => Ahead(job[t], at[t]) \in Positions
    BY <1>1, AheadIs DEF UpAt, Positions
<1>5. [rev |-> at[t].rev, n |-> at[t].n + 1] \in Positions
    BY <1>1 DEF Positions
<1> QED BY <1>2, <1>3, <1>4, <1>5

-----------------------------------------------------------------------------
(* The steps: a statement that is done, and what else may happen.          *)

Quiet == UNCHANGED <<made, lost, stamped, wrote, look, twice>>

Creating(t) ==
    /\ Ready(t, "create") /\ Proceed(t)
    /\ UNCHANGED <<lost, stamped, wrote, look, twice>>
    /\ \/ Spared(t) /\ UNCHANGED made
       \/ /\ Now(t).table \notin Seen(t)
          /\ made' = [made EXCEPT ![t] = @ \union {Now(t).table}]

Dropping(t) ==
    /\ Ready(t, "drop") /\ Proceed(t)
    /\ UNCHANGED <<made, stamped, wrote, look, twice>>
    /\ \/ Spared(t) /\ UNCHANGED lost
       \/ /\ Now(t).table \in Seen(t)
          /\ lost' = [lost EXCEPT ![t] = @ \union {Now(t).table}]

Indexing(t) == Ready(t, "index") /\ Now(t).table \in Seen(t) /\ Proceed(t) /\ Quiet

Stamping(t) ==
    /\ Ready(t, "stamp") /\ Proceed(t) /\ Matches(Now(t), Heads(t))
    /\ stamped' = [stamped EXCEPT ![t] = <<Replaced(Now(t), Heads(t))>>]
    /\ UNCHANGED <<made, lost, wrote, look, twice>>

Reading(t) ==
    /\ Ready(t, "read") /\ Hold(t)
    /\ look' = [look EXCEPT ![t] = <<RowSeen(t, Now(t).entry.slug)>>]
    /\ UNCHANGED <<script, at, made, lost, stamped, wrote, twice>>

\* What the upsert leaves in the row of its entry.
Result(t) ==
    LET x == Now(t).entry IN
    IF look[t][1] = None THEN RowOf(x) ELSE Merged(RowSeen(t, x.slug), look[t][1], x)

Writing(t) ==
    LET x == Now(t).entry IN
    /\ Ready(t, "write") /\ Proceed(t)
    /\ look[t][1] = None => RowSeen(t, x.slug) = None
    /\ \/ look[t][1] # None /\ ~Sends(t) /\ UNCHANGED wrote
       \/ /\ look[t][1] = None \/ Sends(t)
          /\ wrote' = [wrote EXCEPT ![t] = [s \in DOMAIN @ \union {x.slug} |->
                                               IF s = x.slug THEN Result(t) ELSE @[s]]]
    /\ look' = [look EXCEPT ![t] = <<>>]
    /\ UNCHANGED <<made, lost, stamped, twice>>

Passing(t) == Ready(t, "pass") /\ Proceed(t) /\ Quiet

Showing(t) == Ready(t, "list") /\ Proceed(t) /\ Quiet

Working(t) ==
    \/ Creating(t) \/ Dropping(t) \/ Indexing(t) \/ Stamping(t)
    \/ Reading(t) \/ Writing(t) \/ Passing(t) \/ Showing(t)

\* Why a statement is refused.
Refused(t) ==
    \/ /\ At(t, "create")
       /\ \/ Now(t).table \in Seen(t) /\ ~Spared(t)
          \/ ~(Refs(Now(t).table) \subseteq Seen(t))
    \/ /\ At(t, "drop") /\ Now(t).table \notin Seen(t) /\ ~Spared(t)
    \/ /\ At(t, "drop") /\ \E D \in Seen(t) : Now(t).table \in Refs(D)
    \/ /\ At(t, "index") \/ At(t, "read") \/ At(t, "list")
       /\ Now(t).table \notin Seen(t)
    \/ /\ At(t, "stamp") /\ ~Matches(Now(t), Heads(t))
    \/ /\ At(t, "write") /\ look[t][1] = None /\ RowSeen(t, Now(t).entry.slug) # None
    \/ \E u \in Others(t) : Waits(t, u)

\* A step of a program does its statement, commits, or is refused.
LEMMA AdvanceIs ==
    ASSUME TypeOK, Programs, NEW t \in Transactions, Advance(t)
    PROVE  Working(t) \/ Commit(t) \/ (Fail(t) /\ (due[t] => Refused(t)))
<1>1. ASSUME CreateTable(t)  PROVE Creating(t) \/ (Fail(t) /\ (due[t] => Refused(t)))
    BY <1>1 DEF CreateTable, Creating, Refused, Ready
<1>2. ASSUME DropTable(t)  PROVE Dropping(t) \/ (Fail(t) /\ (due[t] => Refused(t)))
    BY <1>2 DEF DropTable, Dropping, Refused, Ready
<1>3. ASSUME CreateIndex(t)  PROVE Indexing(t) \/ (Fail(t) /\ (due[t] => Refused(t)))
    BY <1>3 DEF CreateIndex, Indexing, Refused, Ready, Quiet
<1>4. ASSUME StampVersion(t)  PROVE Stamping(t) \/ (Fail(t) /\ (due[t] => Refused(t)))
    BY <1>4 DEF StampVersion, Stamping, Refused, Ready
<1>5. ASSUME ReadRow(t)  PROVE Reading(t) \/ (Fail(t) /\ (due[t] => Refused(t)))
    BY <1>5 DEF ReadRow, Reading, Refused, Ready
<1>6. ASSUME WriteRow(t)  PROVE Writing(t) \/ (Fail(t) /\ (due[t] => Refused(t)))
    <2>1. SeedAt(t) /\ At(t, "write")
        BY <1>6, OperationOf DEF WriteRow, Ready
    <2>2. Unique(Now(t).entry.table)
        BY <2>1, SlugsOfEditions DEF SeedAt, Upsert, Unique
    <2> DEFINE x == Now(t).entry
               none == look[t][1] = None
               there == RowSeen(t, x.slug) # None
    <2>3. CASE none /\ there
        BY <1>6, <2>1, <2>2, <2>3 DEF WriteRow, Refused
    <2>4. CASE ~(none /\ there)
        BY <1>6, <2>4 DEF WriteRow, Writing, Result
    <2> QED BY <2>3, <2>4
<1>7. ASSUME PassOver(t)  PROVE Passing(t)
    BY <1>7 DEF PassOver, Passing, Quiet
<1>8. ASSUME ListTable(t)  PROVE Showing(t) \/ (Fail(t) /\ (due[t] => Refused(t)))
    BY <1>8 DEF ListTable, Showing, Refused, Ready, Quiet
<1> QED BY <1>1, <1>2, <1>3, <1>4, <1>5, <1>6, <1>7, <1>8 DEF Advance, Working

-----------------------------------------------------------------------------
(* Types.                                                                  *)

\* A statement that is done is one of a program, and has waited for nobody.
LEMMA WorkingAt ==
    ASSUME TypeOK, Programs, NEW t \in Transactions, Working(t)
    PROVE  /\ UpAt(t) \/ DownAt(t) \/ SeedAt(t) \/ ListAt(t)
           /\ Hold(t)
           /\ Proceed(t) \/ UNCHANGED <<script, at>>
           /\ \A u \in Others(t) : ~Waits(t, u)
BY OperationOf DEF Working, Creating, Dropping, Indexing, Stamping, Reading, Writing, Passing,
       Showing, Ready, Proceed

\* Its place, script and locks keep their types.
LEMMA PlaceTyped ==
    ASSUME TypeOK, Programs, NEW t \in Transactions, Working(t)
    PROVE  /\ at' \in [Transactions -> Positions]
           /\ script' = [u \in Transactions |-> Script(job'[u], at'[u].rev)]
           /\ held' \in [Transactions -> SUBSET (AllTables \X Modes)]
           /\ tables' \subseteq AllTables /\ heads' \subseteq Revisions
           /\ rows' \in [Slugs -> Rows \union {None}]
           /\ job' \in [Transactions -> Jobs]
           /\ due' \in [Transactions -> BOOLEAN] /\ broken' \in BOOLEAN
           /\ applied' \in Editions \union {None}
<1>1. /\ at \in [Transactions -> Positions]
      /\ script = [u \in Transactions |-> Script(job[u], at[u].rev)]
      /\ held \in [Transactions -> SUBSET (AllTables \X Modes)]
      /\ tables \subseteq AllTables /\ heads \subseteq Revisions
      /\ rows \in [Slugs -> Rows \union {None}]
      /\ job \in [Transactions -> Jobs]
      /\ due \in [Transactions -> BOOLEAN] /\ broken \in BOOLEAN
      /\ applied \in Editions \union {None}
    BY DEF TypeOK, Positions
<1>2. Onward(t) \in Positions /\ Needs(t) \subseteq AllTables \X Modes
    BY WorkingAt, OnwardIs, NeedsTyped
<1>3. /\ held' = [held EXCEPT ![t] = @ \union Needs(t)]
      /\ UNCHANGED <<tables, heads, rows, job, due, broken, applied>>
    BY WorkingAt DEF Hold, committed
<1>4. \/ /\ at' = [at EXCEPT ![t] = Onward(t)]
         /\ script' = [script EXCEPT ![t] = Script(job[t], Onward(t).rev)]
      \/ UNCHANGED <<script, at>>
    BY WorkingAt DEF Proceed
<1>5. at' \in [Transactions -> Positions]
    BY <1>1, <1>2, <1>4
<1>6. script' = [u \in Transactions |-> Script(job'[u], at'[u].rev)]
    BY <1>1, <1>3, <1>4
<1>7. held' \in [Transactions -> SUBSET (AllTables \X Modes)]
    BY <1>1, <1>2, <1>3
<1> QED BY <1>1, <1>3, <1>5, <1>6, <1>7

\* What the tables and rows of a transaction are, one by one.
OwnTyped(mk, ls, st, wr, lk, tw) ==
    /\ mk \in [Transactions -> SUBSET AllTables] /\ ls \in [Transactions -> SUBSET AllTables]
    /\ DOMAIN st = Transactions /\ DOMAIN wr = Transactions /\ DOMAIN lk = Transactions
    /\ \A t \in Transactions :
        /\ st[t] # <<>> => st[t] = <<st[t][1]>> /\ st[t][1] \subseteq Revisions
        /\ DOMAIN wr[t] \subseteq Slugs /\ wr[t] \in [DOMAIN wr[t] -> Rows]
        /\ lk[t] # <<>> => lk[t] = <<lk[t][1]>> /\ lk[t][1] \in Rows \union {None}
    /\ tw \subseteq Slugs

LEMMA TypedIs ==
    TypeOK <=>
        /\ at \in [Transactions -> Positions]
        /\ script = [u \in Transactions |-> Script(job[u], at[u].rev)]
        /\ held \in [Transactions -> SUBSET (AllTables \X Modes)]
        /\ tables \subseteq AllTables /\ heads \subseteq Revisions
        /\ rows \in [Slugs -> Rows \union {None}]
        /\ job \in [Transactions -> Jobs]
        /\ due \in [Transactions -> BOOLEAN] /\ broken \in BOOLEAN
        /\ applied \in Editions \union {None}
        /\ OwnTyped(made, lost, stamped, wrote, look, twice)
BY DEF TypeOK, OwnTyped, Positions

\* The entry a seed run is at.
LEMMA EntryAt ==
    ASSUME NEW t \in Transactions, SeedAt(t)
    PROVE  /\ Now(t).entry = job[t].edition[at[t].n]
           /\ Now(t).table = Now(t).entry.table
           /\ Now(t).entry.slug \in Slugs /\ RowOf(Now(t).entry) \in Rows
           /\ Now(t).table \in {"pillars", "microtopics", "sources"}
           /\ Now(t).table \in MainTables
BY SlugsOfEditions DEF SeedAt, Upsert

\* What a transaction sees of rows and version.
LEMMA RowSeenTyped ==
    ASSUME TypeOK, NEW t \in Transactions, NEW s \in Slugs
    PROVE  RowSeen(t, s) \in Rows \union {None}
BY DEF TypeOK, RowSeen

LEMMA HeadsTyped ==
    ASSUME TypeOK, NEW t \in Transactions
    PROVE  Heads(t) \subseteq Revisions
BY DEF TypeOK, Heads

\* An UPDATE of what was read leaves what the entry says.
LEMMA MergedTyped ==
    ASSUME NEW row \in Rows, NEW seen \in Rows, NEW x, RowOf(x) \in Rows
    PROVE  /\ Merged(row, seen, x) \in Rows
           /\ row = seen => Merged(row, seen, x) = RowOf(x)
BY DEF Rows, Merged, RowOf

\* So the types are kept by a statement,
LEMMA TypedWorks ==
    ASSUME TypeOK, Programs, Seeding, NEW t \in Transactions, Working(t)
    PROVE  TypeOK'
<1>1. OwnTyped(made, lost, stamped, wrote, look, twice)
    BY TypedIs
<1>2. UpAt(t) \/ DownAt(t) => Now(t).table \in AllTables
    BY UpDetails, DownDetails
<1> SUFFICES OwnTyped(made', lost', stamped', wrote', look', twice')
    BY PlaceTyped DEF TypeOK, OwnTyped, Positions
<1>3. CASE Creating(t)
    BY <1>1, <1>2, <1>3, OperationOf DEF Creating, Ready, OwnTyped
<1>4. CASE Dropping(t)
    BY <1>1, <1>2, <1>4, OperationOf DEF Dropping, Ready, OwnTyped
<1>5. CASE Stamping(t)
    <2>1. Replaced(Now(t), Heads(t)) \subseteq Revisions
        <3>1. Prev(at[t].rev) \in {0} \union Revisions
            BY DEF Prev, Revisions
        <3>2. Now(t).to \in {0} \union Revisions
            BY <1>5, <3>1, OperationOf, UpDetails, DownDetails
               DEF Stamping, Ready, At, Stamp, UpAt, DownAt
        <3> QED BY <3>2, HeadsTyped DEF Replaced
    <2> QED BY <1>1, <1>5, <2>1 DEF Stamping, OwnTyped
<1>6. CASE Reading(t)
    <2>1. RowSeen(t, Now(t).entry.slug) \in Rows \union {None}
        BY <1>6, OperationOf, EntryAt, RowSeenTyped DEF Reading, Ready
    <2> QED BY <1>1, <1>6, <2>1 DEF Reading, OwnTyped
<1>7. CASE Writing(t)
    <2> DEFINE x == Now(t).entry
    <2>1. SeedAt(t) /\ x.slug \in Slugs /\ RowOf(x) \in Rows /\ look[t] # <<>>
        <3>1. SeedAt(t) /\ Now(t).op = "write"
            BY <1>7, OperationOf DEF Writing, Ready, At
        <3> QED BY <3>1, EntryAt DEF SeedAt, Upsert
    <2>2. Result(t) \in Rows
        <3>1. CASE look[t][1] = None
            BY <2>1, <3>1 DEF Result
        <3>2. CASE look[t][1] # None
            <4>1. look[t][1] \in Rows
                BY <1>1, <2>1, <3>2 DEF OwnTyped
            <4>2. RowSeen(t, x.slug) # None
                BY <2>1, <3>2, EntryAt DEF Seeding, Filled, SeedAt
            <4>3. RowSeen(t, x.slug) \in Rows
                BY <2>1, <4>2, RowSeenTyped
            <4> QED BY <2>1, <3>2, <4>1, <4>3, MergedTyped DEF Result
        <3> QED BY <3>1, <3>2
    <2>3. \A u \in Transactions :
              DOMAIN wrote'[u] \subseteq Slugs /\ wrote'[u] \in [DOMAIN wrote'[u] -> Rows]
        <3>1. CASE UNCHANGED wrote
            BY <1>1, <3>1 DEF OwnTyped
        <3>2. CASE wrote' = [wrote EXCEPT ![t] = [s \in DOMAIN @ \union {x.slug} |->
                                               IF s = x.slug THEN Result(t) ELSE @[s]]]
            <4> DEFINE W == [s \in DOMAIN wrote[t] \union {x.slug} |->
                                               IF s = x.slug THEN Result(t) ELSE wrote[t][s]]
            <4>1. wrote' = [wrote EXCEPT ![t] = W]
                BY <3>2
            <4>2. DOMAIN W \subseteq Slugs /\ W \in [DOMAIN W -> Rows]
                BY <1>1, <2>1, <2>2 DEF OwnTyped
            <4> HIDE DEF W
            <4> QED BY <1>1, <4>1, <4>2 DEF OwnTyped
        <3> QED BY <1>7, <3>1, <3>2 DEF Writing
    <2>4. DOMAIN wrote' = Transactions
        BY <1>1, <1>7 DEF Writing, OwnTyped
    <2>5. UNCHANGED <<made, lost, stamped, twice>> /\ look' = [look EXCEPT ![t] = <<>>]
        BY <1>7 DEF Writing
    <2> QED BY <1>1, <2>3, <2>4, <2>5 DEF OwnTyped
<1>8. CASE Indexing(t) \/ Passing(t) \/ Showing(t)
    BY <1>1, <1>8 DEF Indexing, Passing, Showing, Quiet, OwnTyped
<1> QED BY <1>3, <1>4, <1>5, <1>6, <1>7, <1>8 DEF Working

\* A program as it starts.
Launch(j, p, needed) ==
    /\ p.n <= Len(Script(j, p.rev)) + 1
    /\ j.kind # "none"
    /\ j.kind = "up" =>
          /\ Upgrading(j, p, {}, <<>>) /\ heads = {j.from} \ {0}
          /\ p = Start => Version \notin tables
          /\ p.rev # 0 => p.n = 1
    /\ j.kind = "down" => Downgrading(j, p, {}, <<>>) /\ heads = {j.from} \ {0} /\ p.n = 1
    /\ j.kind = "seed" => /\ j.edition \in Editions /\ p.n = 1
                          /\ needed = {x.table : x \in Entries(j.edition)}
    /\ j.kind = "list" => needed = {"pillars", "microtopics"}

\* An upgrade starts at a version of its tree, with nothing done.
LEMMA UpLaunch ==
    ASSUME NEW from \in {0} \union Revisions, NEW to \in Ends, heads = {from} \ {0}, from <= to,
           NEW first, NEW p,
           first = IF from = 0 /\ Version \notin tables THEN 0 ELSE After(from),
           p = IF first <= to THEN [rev |-> first, n |-> 1]
               ELSE [rev |-> 0, n |-> Len(Revision[0].up) + 1]
    PROVE  LET j == [kind |-> "up", from |-> from, to |-> to, edition |-> None] IN
           j \in Jobs /\ p \in Positions /\ Launch(j, p, {})
<1> DEFINE j == [kind |-> "up", from |-> from, to |-> to, edition |-> None]
<1>1. j \in Jobs /\ Script(j, p.rev) = Revision[p.rev].up
    BY DEF Jobs, Script
<1>2. ASSUME first = 0  PROVE p = Start /\ Launch(j, p, {}) /\ p \in Positions
    <2>1. from = 0 /\ Version \notin tables
        BY <1>2 DEF After, Revisions
    <2>2. p = Start /\ p \in Positions /\ p.rev = 0
        BY <1>2 DEF Ends, Start, Positions
    <2>3. Between(0, 0) = {} /\ Creates(0, 1) = {}
        BY NothingYet DEF Between, Main
    <2> HIDE DEF j
    <2>4. j.from = 0 /\ j.kind = "up"
        BY <2>1 DEF j
    <2>5. Upgrading(j, p, {}, <<>>)
        BY <2>2, <2>3, <2>4 DEF Upgrading, Start
    <2> QED BY <1>1, <2>1, <2>2, <2>4, <2>5, ListsAre DEF Launch, Start
<1>3. ASSUME first # 0, first <= to  PROVE Launch(j, p, {}) /\ p \in Positions
    <2>1. first = After(from)
        BY <1>3
    <2>2. first \in Revisions /\ Prev(first) = from /\ from < first /\ first # 0
        BY <1>3, <2>1 DEF After, Prev, Revisions, Ends
    <2>3. p = [rev |-> first, n |-> 1] /\ p \in Positions
        BY <1>3, <2>2 DEF Positions
    <2>4. Between(from, first) = {}
        BY <2>1 DEF Between, Main, After, Revisions
    <2>5. Creates(first, 1) = {}
        BY <2>2, NothingYet
    <2>6. ~(1 > Len(Revision[first].up)) /\ 1 <= Len(Revision[first].up) + 1
        <3>1. Len(Revision[first].up) \in Nat
            BY <2>2, ListsAre DEF Revisions
        <3> QED BY <2>2, <3>1, ListsNotEmpty
    <2> HIDE DEF j
    <2>7. j.from = from /\ j.kind = "up"
        BY DEF j
    <2>8. Upgrading(j, p, {}, <<>>)
        BY <2>2, <2>3, <2>4, <2>5, <2>6, <2>7 DEF Upgrading, Start
    <2> QED BY <1>1, <2>2, <2>3, <2>6, <2>7, <2>8 DEF Launch, Start
<1>4. ASSUME first # 0, ~(first <= to)  PROVE Launch(j, p, {}) /\ p \in Positions
    <2>1. p = [rev |-> 0, n |-> 2] /\ p \in Positions
        BY <1>4, ListsAre DEF Positions
    <2>2. Between(from, 0) = {}
        BY DEF Between, Main, Revisions
    <2>3. Creates(0, 2) \intersect MainTables = {}
        BY CreatesOfMain
    <2> HIDE DEF j
    <2>4. j.from = from /\ j.kind = "up"
        BY DEF j
    <2>5. Upgrading(j, p, {}, <<>>)
        BY <2>1, <2>2, <2>3, <2>4 DEF Upgrading, Start
    <2>6. p # Start /\ p.rev = 0 /\ p.n <= Len(Script(j, p.rev)) + 1
        <3>1. p.rev = 0 /\ p.n = 2
            BY <2>1
        <3>2. Start.n = 1
            BY DEF Start
        <3>3. Len(Script(j, p.rev)) = 1
            BY <1>1, <3>1, ListsAre
        <3>4. p # Start
            BY <3>1, <3>2
        <3>5. p.n <= Len(Script(j, p.rev)) + 1
            BY <3>1, <3>3
        <3> QED BY <3>1, <3>4, <3>5
    <2>7. heads = {j.from} \ {0}
        BY <2>4
    <2> HIDE <1>4
    <2> QED BY <2>1, <2>4, <2>5, <2>6, <2>7 DEF Launch
<1> QED BY <1>1, <1>2, <1>3, <1>4

\* So does a downgrade.
LEMMA DownLaunch ==
    ASSUME NEW from \in Revisions, heads = {from}
    PROVE  LET j == [kind |-> "down", from |-> from, to |-> 0, edition |-> None]
               p == [rev |-> from, n |-> 1]
           IN j \in Jobs /\ p \in Positions /\ Launch(j, p, {})
<1> DEFINE j == [kind |-> "down", from |-> from, to |-> 0, edition |-> None]
           p == [rev |-> from, n |-> 1]
<1>1. j \in Jobs /\ p \in Positions /\ Script(j, p.rev) = Revision[p.rev].down
    BY DEF Jobs, Script, Positions
<1>2. p.rev = from /\ p.n = 1 /\ j.from = from /\ j.kind = "down"
    OBVIOUS
<1>3. ~(1 > Len(Revision[from].down)) /\ 1 <= Len(Revision[from].down) + 1
    <2>1. Len(Revision[from].down) \in Nat
        BY ListsAre DEF Revisions
    <2> QED BY <2>1, ListsNotEmpty
<1>4. Drops(from, 1) = {} /\ from # 0
    BY NothingYet, ListsNotEmpty
<1> HIDE DEF j, p
<1>5. Downgrading(j, p, {}, <<>>)
    BY <1>2, <1>3, <1>4 DEF Downgrading
<1>6. Launch(j, p, {})
    BY <1>1, <1>2, <1>3, <1>4, <1>5 DEF Launch
<1> QED BY <1>1, <1>6 DEF j, p

\* Every program does.
LEMMA BeginIs ==
    ASSUME NEW t \in Transactions, BeginAny(t)
    PROVE  \E needed : \E j \in Jobs, p \in Positions :
               Begin(t, j, p, needed) /\ Launch(j, p, needed)
<1>1. CASE BeginUpgrade(t)
    <2>1. PICK from \in {0} \union Revisions, to \in Ends :
            /\ heads = {from} \ {0} /\ from <= to
            /\ LET first == IF from = 0 /\ Version \notin tables THEN 0 ELSE After(from)
                   p == IF first <= to THEN [rev |-> first, n |-> 1]
                        ELSE [rev |-> 0, n |-> Len(Revision[0].up) + 1]
               IN Begin(t, [kind |-> "up", from |-> from, to |-> to, edition |-> None], p, {})
        BY <1>1 DEF BeginUpgrade
    <2> QED BY <2>1, UpLaunch
<1>2. CASE BeginDowngrade(t)
    BY <1>2, DownLaunch DEF BeginDowngrade
<1>3. CASE BeginSeed(t)
    <2>1. PICK e \in Editions :
              Begin(t, [kind |-> "seed", from |-> 0, to |-> 0, edition |-> e], Start,
                    {x.table : x \in Entries(e)})
        BY <1>3 DEF BeginSeed
    <2> DEFINE j == [kind |-> "seed", from |-> 0, to |-> 0, edition |-> e]
    <2>2. j \in Jobs /\ Start \in Positions
        BY DEF Jobs, Start, Positions
    <2>3. Launch(j, Start, {x.table : x \in Entries(e)})
        BY SlugsOfEditions DEF Launch, Script, Start
    <2> QED BY <2>1, <2>2, <2>3
<1>4. CASE BeginListing(t)
    <2> DEFINE j == [kind |-> "list", from |-> 0, to |-> 0, edition |-> None]
    <2>1. j \in Jobs /\ Start \in Positions
        BY DEF Jobs, Start, Positions
    <2>2. Launch(j, Start, {"pillars", "microtopics"})
        BY DEF Launch, Script, Start, Listing
    <2> QED BY <1>4, <2>1, <2>2 DEF BeginListing
<1> QED BY <1>1, <1>2, <1>3, <1>4 DEF BeginAny

\* The types are kept at a start,
LEMMA TypedBegins ==
    ASSUME TypeOK, NEW t \in Transactions, NEW j \in Jobs, NEW p \in Positions, NEW needed,
           Begin(t, j, p, needed)
    PROVE  TypeOK'
<1>1. /\ at' \in [Transactions -> Positions]
      /\ script' = [u \in Transactions |-> Script(job'[u], at'[u].rev)]
      /\ job' \in [Transactions -> Jobs]
      /\ due' \in [Transactions -> BOOLEAN]
    BY TypedIs DEF Begin
<1>2. UNCHANGED <<tables, heads, rows, made, lost, stamped, wrote, look, held, broken, twice,
                  applied>>
    BY DEF Begin, committed
<1> QED BY <1>1, <1>2 DEF TypeOK, Positions

\* What a transaction that has ended is left with.
LEMMA Empty ==
    /\ DOMAIN <<>> = {} /\ Len(<<>>) = 0 /\ Script(Idle, 0) = <<>> /\ Idle \in Jobs
    /\ Idle.kind = "none" /\ Start \in Positions /\ Start.rev = 0 /\ Start.n = 1
BY DEF Script, Idle, Jobs, Start, Positions

\* and at an end.
LEMMA TypedCloses ==
    ASSUME TypeOK, NEW t \in Transactions, Close(t),
           tables' \subseteq AllTables, heads' \subseteq Revisions,
           rows' \in [Slugs -> Rows \union {None}],
           applied' \in Editions \union {None}, broken' \in BOOLEAN, UNCHANGED twice
    PROVE  TypeOK'
<1>1. /\ at' \in [Transactions -> Positions]
      /\ script' = [u \in Transactions |-> Script(job'[u], at'[u].rev)]
      /\ held' \in [Transactions -> SUBSET (AllTables \X Modes)]
      /\ job' \in [Transactions -> Jobs]
      /\ due' \in [Transactions -> BOOLEAN]
    BY TypedIs, Empty DEF Close
<1>2. OwnTyped(made', lost', stamped', wrote', look', twice')
    BY TypedIs, Empty DEF Close, OwnTyped
<1> QED BY <1>1, <1>2 DEF TypeOK, OwnTyped, Positions

LEMMA TypedRollback ==
    ASSUME TypeOK, NEW t \in Transactions, Rollback(t), broken' \in BOOLEAN
    PROVE  TypeOK'
BY TypedCloses, TypedIs DEF Rollback, committed

LEMMA TypedCommit ==
    ASSUME TypeOK, Programs, NEW t \in Transactions, Commit(t)
    PROVE  TypeOK'
<1>1. Close(t) /\ UNCHANGED <<broken, twice>>
    BY DEF Commit
<1>2. tables' \subseteq AllTables
    BY DEF TypeOK, Commit, Seen
<1>3. heads' \subseteq Revisions
    BY HeadsTyped DEF Commit
<1>4. rows' \in [Slugs -> Rows \union {None}]
    BY RowSeenTyped DEF Commit
<1>5. applied' \in Editions \union {None}
    BY DEF Commit, TypeOK, Programs
<1> QED BY <1>1, <1>2, <1>3, <1>4, <1>5, TypedCloses, TypedIs

-----------------------------------------------------------------------------
(* The programs go through their lists.                                    *)

Program(t) ==
    /\ at[t].n <= Len(script[t]) + 1
    /\ job[t].kind = "up" => Upgrading(job[t], at[t], made[t], stamped[t])
    /\ job[t].kind = "down" => Downgrading(job[t], at[t], lost[t], stamped[t])
    /\ job[t].kind = "seed" => job[t].edition \in Editions
    /\ job[t].kind # "up" => made[t] = {}
    /\ job[t].kind # "down" => lost[t] = {}
    /\ job[t].kind \notin {"up", "down"} => stamped[t] = <<>>
    /\ job[t].kind # "seed" => wrote[t] = <<>> /\ look[t] = <<>>
    /\ job[t].kind = "none" => held[t] = {} /\ due[t] = FALSE

\* Programs is about each transaction by itself.
LEMMA ProgramsAre == Programs <=> \A t \in Transactions : Program(t)
BY DEF Programs, Program

\* A step of t leaves the others where they are.
Elsewhere(t) ==
    \A u \in Transactions : u # t =>
        /\ job'[u] = job[u] /\ script'[u] = script[u] /\ at'[u] = at[u]
        /\ made'[u] = made[u] /\ lost'[u] = lost[u] /\ stamped'[u] = stamped[u]
        /\ wrote'[u] = wrote[u] /\ look'[u] = look[u] /\ held'[u] = held[u]

LEMMA ElsewhereWorks ==
    ASSUME TypeOK, Programs, NEW t \in Transactions, Working(t)
    PROVE  Elsewhere(t) /\ UNCHANGED <<tables, heads, rows, job, due, broken, twice, applied>>
<1>1. /\ held' = [held EXCEPT ![t] = @ \union Needs(t)]
      /\ UNCHANGED <<tables, heads, rows, job, due, broken, applied>>
    BY WorkingAt DEF Hold, committed
<1>2. \/ /\ at' = [at EXCEPT ![t] = Onward(t)]
         /\ script' = [script EXCEPT ![t] = Script(job[t], Onward(t).rev)]
      \/ UNCHANGED <<script, at>>
    BY WorkingAt DEF Proceed
<1>3. \A u \in Transactions : u # t =>
        /\ made'[u] = made[u] /\ lost'[u] = lost[u] /\ stamped'[u] = stamped[u]
        /\ wrote'[u] = wrote[u] /\ look'[u] = look[u]
    BY DEF Working, Creating, Dropping, Indexing, Stamping, Reading, Writing, Passing,
           Showing, Quiet, TypeOK
<1>4. \A u \in Transactions : u # t =>
        /\ job'[u] = job[u] /\ script'[u] = script[u] /\ at'[u] = at[u] /\ held'[u] = held[u]
    BY <1>1, <1>2 DEF TypeOK
<1>5. UNCHANGED twice
    BY DEF Working, Creating, Dropping, Indexing, Stamping, Reading, Writing, Passing,
           Showing, Quiet
<1> QED BY <1>1, <1>3, <1>4, <1>5 DEF Elsewhere

LEMMA ElsewhereEnds ==
    ASSUME TypeOK, NEW t \in Transactions, Close(t)
    PROVE  /\ Elsewhere(t)
           /\ job'[t] = Idle /\ script'[t] = <<>> /\ at'[t] = Start
           /\ made'[t] = {} /\ lost'[t] = {} /\ stamped'[t] = <<>> /\ wrote'[t] = <<>>
           /\ look'[t] = <<>> /\ held'[t] = {} /\ due'[t] = FALSE
           /\ \A u \in Transactions : u # t => due'[u] = due[u]
BY DEF Close, Elsewhere, TypeOK

LEMMA ElsewhereBegins ==
    ASSUME TypeOK, NEW t \in Transactions, NEW j, NEW p, NEW needed, Begin(t, j, p, needed)
    PROVE  /\ Elsewhere(t) /\ job[t].kind = "none"
           /\ job'[t] = j /\ script'[t] = Script(j, p.rev) /\ at'[t] = p
           /\ UNCHANGED <<tables, heads, rows, made, lost, stamped, wrote, look, held,
                          broken, twice, applied>>
BY DEF Begin, Elsewhere, TypeOK, Open, committed

\* Before its stamp a list has done all its tables.
LEMMA CreatesBeforeStamp ==
    ASSUME NEW r \in Revisions
    PROVE  /\ Creates(r, Len(Revision[r].up)) = TablesOf(r)
           /\ Drops(r, Len(Revision[r].down)) = TablesOf(r)
<1> DEFINE L == Len(Revision[r].up)
           D == Len(Revision[r].down)
<1>1. L \in 1..L /\ D \in 1..D /\ L \in Nat /\ D \in Nat
    <2>1. L \in {3, 6, 9} /\ D \in {3, 6}
        BY ListsAre DEF Revisions
    <2> QED BY <2>1
<1>2. Revision[r].up[L].op # "create" /\ Revision[r].down[D].op # "drop"
    <2>1. Revision[r].up[L].op = "stamp"
        BY <1>1, UpStatements, ListsNotEmpty
    <2>2. Revision[r].down[D].op = "stamp"
        BY <1>1, DownStatements
    <2> QED BY <2>1, <2>2
<1> QED BY <1>1, <1>2, CreatesNext, DropsNext, CreatesAll

\* A stamp writes the revision that was reached, and the first of a program
\* finds the version it started at.
LEMMA StampIs ==
    ASSUME TypeOK, Programs, Names, Schema, NEW t \in Transactions, Stamping(t)
    PROVE  /\ \/ UpAt(t) /\ stamped'[t] = <<{at[t].rev}>>
              \/ DownAt(t) /\ stamped'[t] = <<{Prev(at[t].rev)} \ {0}>>
           /\ stamped[t] = <<>> => heads = {job[t].from} \ {0}
<1> DEFINE r == at[t].rev
           f == job[t].from
<1>1. /\ UpAt(t) \/ DownAt(t)
      /\ Now(t).op = "stamp" /\ Matches(Now(t), Heads(t))
      /\ stamped'[t] = <<Replaced(Now(t), Heads(t))>>
    BY OperationOf DEF Stamping, Ready, At, TypeOK
<1>2. PICK h \in {0} \union Revisions :
          heads = {h} \ {0} /\ tables \intersect MainTables = UpTo(h)
    BY DEF Schema
<1>3. CASE UpAt(t)
    <2>1. /\ Upgrading(job[t], at[t], made[t], stamped[t]) /\ made[t] \intersect tables = {}
          /\ Now(t) = Stamp(Prev(r), r) /\ r \in Revisions /\ r # 0
          /\ at[t].n = Len(Revision[r].up)
        BY <1>1, <1>3, UpDetails DEF UpAt, Programs, Names
    <2>2. /\ Now(t).from = Prev(r) /\ Now(t).to = r
        BY <2>1 DEF Stamp
    <2>3. f < r /\ f \in {0} \union Revisions
        BY <2>1 DEF Upgrading, TypeOK, Jobs
    <2>4. stamped[t] = IF Prev(r) = f THEN <<>> ELSE <<{Prev(r)}>>
        <3>1. ~(at[t].n > Len(Revision[r].up))
            BY <2>1, <1>3 DEF UpAt
        <3> QED BY <2>1, <3>1 DEF Upgrading
    <2>5. CASE Prev(r) # f
        <3>1. Heads(t) = {Prev(r)} /\ Prev(r) # 0 /\ stamped[t] # <<>>
            <4>1. stamped[t] = <<{Prev(r)}>>
                BY <2>4, <2>5
            <4>2. stamped[t] # <<>> /\ stamped[t][1] = {Prev(r)}
                BY <4>1
            <4>3. Prev(r) # 0
                BY <2>1, <2>3, <2>5 DEF Prev, Revisions
            <4> QED BY <4>2, <4>3 DEF Heads
        <3> QED BY <1>1, <1>3, <2>1, <2>2, <3>1 DEF Replaced
    <2>6. CASE Prev(r) = f
        <3>1. Heads(t) = heads /\ stamped[t] = <<>>
            BY <2>4, <2>6 DEF Heads
        <3>2. heads = {f} \ {0}
            <4>1. CASE f = 0
                <5>1. r = 1
                    BY <2>1, <2>6, <4>1 DEF Prev, Revisions
                <5>2. made[t] \intersect MainTables =
                          Between(0, 1) \union (TablesOf(1) \intersect MainTables)
                    BY <2>1, <4>1, <5>1, CreatesBeforeStamp DEF Upgrading
                <5>3. "users" \in made[t]
                    BY <5>2, TablesAre, NamesAre
                <5>4. "users" \notin UpTo(h)
                    BY <1>2, <2>1, <5>3, NamesAre
                <5>5. h = 0
                    BY <5>4, UpToIs, TablesAre, NamesAre DEF Revisions
                <5> QED BY <1>2, <4>1, <5>5
            <4>2. CASE f # 0
                <5>1. f \in heads
                    BY <1>1, <2>2, <2>6, <3>1, <4>2 DEF Matches
                <5> QED BY <1>2, <5>1, <4>2
            <4> QED BY <4>1, <4>2
        <3>3. Replaced(Now(t), heads) = {r}
            BY <2>1, <2>2, <2>6, <3>2 DEF Replaced
        <3> QED BY <1>1, <1>3, <3>1, <3>2, <3>3
    <2> QED BY <2>5, <2>6
<1>4. CASE DownAt(t)
    <2>1. /\ Downgrading(job[t], at[t], lost[t], stamped[t])
          /\ Now(t) = Stamp(r, Prev(r)) /\ r \in Revisions /\ r # 0 /\ r = f
          /\ ~(at[t].n > Len(Revision[r].down))
        BY <1>1, <1>4, DownDetails, ListsNotEmpty DEF DownAt, Programs, Downgrading
    <2>2. Heads(t) = heads
        BY <2>1 DEF Downgrading, Heads
    <2>3. Now(t).from = r /\ Now(t).to = Prev(r)
        BY <2>1 DEF Stamp
    <2>4. r \in heads
        BY <1>1, <2>1, <2>2, <2>3 DEF Matches
    <2>5. heads = {r}
        BY <1>2, <2>4
    <2>6. Replaced(Now(t), heads) = {Prev(r)} \ {0}
        BY <2>3, <2>5 DEF Replaced
    <2> QED BY <1>1, <1>4, <2>1, <2>2, <2>5, <2>6
<1> QED BY <1>1, <1>3, <1>4

\* A program is at a place of its lists when it starts, when it ends, and after
\* each statement.
LEMMA ProgramsBegins ==
    ASSUME TypeOK, Programs, NEW t \in Transactions, NEW j \in Jobs, NEW p \in Positions,
           NEW needed, Begin(t, j, p, needed), Launch(j, p, needed)
    PROVE  Programs'
<1>1. ASSUME NEW u \in Transactions  PROVE Program(u)'
    <2>1. CASE u = t
        <3>1. made[t] = {} /\ lost[t] = {} /\ stamped[t] = <<>> /\ wrote[t] = <<>> /\ look[t] = <<>>
            BY ElsewhereBegins DEF Programs
        <3>2. /\ job'[t] = j /\ script'[t] = Script(j, p.rev) /\ at'[t] = p
              /\ UNCHANGED <<made, lost, stamped, wrote, look, held>>
            BY ElsewhereBegins
        <3> QED BY <2>1, <3>1, <3>2 DEF Program, Launch
    <2>2. CASE u # t
        <3>1. due'[u] = FALSE
            BY <2>2 DEF Begin
        <3> QED BY <2>2, <3>1, ElsewhereBegins, ProgramsAre DEF Program, Elsewhere
    <2> QED BY <2>1, <2>2
<1> QED BY <1>1 DEF Programs, Program

LEMMA ProgramsEnds ==
    ASSUME TypeOK, Programs, NEW t \in Transactions, Close(t)
    PROVE  Programs'
<1>1. ASSUME NEW u \in Transactions  PROVE Program(u)'
    <2>1. CASE u = t
        <3>1. job'[u].kind = "none" /\ at'[u].n <= Len(script'[u]) + 1
            <4>1. job'[u] = Idle /\ at'[u] = Start /\ script'[u] = <<>>
                BY <2>1, ElsewhereEnds
            <4>2. Len(script'[u]) = 0
                BY <4>1
            <4> QED BY <4>1, <4>2, Empty
        <3>2. /\ made'[u] = {} /\ lost'[u] = {} /\ stamped'[u] = <<>> /\ wrote'[u] = <<>>
              /\ look'[u] = <<>> /\ held'[u] = {} /\ due'[u] = FALSE
            BY <2>1, ElsewhereEnds
        <3> QED BY <3>1, <3>2 DEF Program
    <2>2. CASE u # t
        BY <2>2, ElsewhereEnds, ProgramsAre DEF Program, Elsewhere
    <2> QED BY <2>1, <2>2
<1> QED BY <1>1 DEF Programs, Program

LEMMA ProgramsWorks ==
    ASSUME TypeOK, Programs, Names, Schema, NEW t \in Transactions, Working(t)
    PROVE  Programs'
<1>1. /\ Elsewhere(t) /\ UNCHANGED <<job, due>>
      /\ UpAt(t) \/ DownAt(t) \/ SeedAt(t) \/ ListAt(t)
      /\ Program(t) /\ job[t] \in Jobs /\ at[t] \in Positions
    BY ElsewhereWorks, WorkingAt, ProgramsAre, Statement
<1>2. ASSUME NEW u \in Transactions, u # t  PROVE Program(u)'
    BY <1>1, <1>2, ProgramsAre DEF Program, Elsewhere
<1>3. ASSUME Proceed(t)
      PROVE  at'[t] = Onward(t) /\ script'[t] = Script(job[t], Onward(t).rev)
    BY <1>3 DEF Proceed, TypeOK
<1>4. CASE UpAt(t)
    <2>1. Working(t) => Creating(t) \/ Indexing(t) \/ Stamping(t)
        BY <1>4, Operations DEF Working, Dropping, Reading, Writing, Passing, Showing, Ready, At
    <2>2. Proceed(t)
        BY <2>1 DEF Creating, Indexing, Stamping
    <2>3. UNCHANGED <<lost, wrote, look>>
        BY <2>1 DEF Creating, Indexing, Stamping, Quiet
    <2> DEFINE r == at[t].rev
    <2>4. \/ /\ \E T \in AllTables :
                   /\ Revision[r].up[at[t].n] = Create(T)
                   /\ made'[t] \intersect MainTables = (made[t] \union {T}) \intersect MainTables
             /\ stamped'[t] = stamped[t]
          \/ /\ Revision[r].up[at[t].n].op = "index"
             /\ made'[t] = made[t] /\ stamped'[t] = stamped[t]
          \/ /\ Revision[r].up[at[t].n].op = "stamp"
             /\ made'[t] = made[t] /\ stamped'[t] = <<{r}>>
        <3>1. CASE Creating(t)
            <4>1. Now(t) = Create(Now(t).table) /\ Now(t).table \in AllTables
                BY <1>4, <3>1, UpDetails DEF Creating, Ready, At
            <4>2. Spared(t) => Now(t).table \notin MainTables
                BY NamesAre DEF Spared
            <4>3. made'[t] \intersect MainTables
                      = (made[t] \union {Now(t).table}) \intersect MainTables
                BY <3>1, <4>2 DEF Creating, TypeOK
            <4> QED BY <1>4, <3>1, <4>1, <4>3 DEF Creating, UpAt
        <3>2. CASE Indexing(t)
            BY <1>4, <3>2 DEF Indexing, Quiet, Ready, At, UpAt
        <3>3. CASE Stamping(t)
            <4>1. ~DownAt(t)
                BY <1>4 DEF UpAt, DownAt
            <4> QED BY <1>4, <3>3, <4>1, StampIs DEF Stamping, Ready, At, UpAt
        <3> QED BY <2>1, <3>1, <3>2, <3>3
    <2>5. Upgrading(job[t], Ahead(job[t], at[t]), made'[t], stamped'[t])
        BY <1>1, <1>4, <2>4, UpgradeStep DEF UpAt, Program
    <2>6. /\ at'[t] = Ahead(job[t], at[t]) /\ at'[t] \in Positions
          /\ script'[t] = Revision[at'[t].rev].up /\ job[t].kind = "up"
        BY <1>3, <1>4, <2>2, OnwardIs DEF Script, UpAt
    <2>7. at'[t].n <= Len(script'[t]) + 1
        <3>1. /\ at'[t].rev \in {0} \union Revisions
              /\ at'[t].n = 1 \/ (at'[t].n = at[t].n + 1 /\ at'[t].rev = r)
            BY <1>1, <1>4, <2>6, AheadIs DEF UpAt, Positions
        <3>2. \A q \in {0} \union Revisions : Len(Revision[q].up) \in Nat
            BY ListsAre DEF Revisions
        <3>3. at[t].n \in 1..Len(Revision[r].up)
            BY <1>4 DEF UpAt
        <3> QED BY <2>6, <3>1, <3>2, <3>3
    <2>8. Program(t)'
        BY <1>1, <2>3, <2>5, <2>6, <2>7 DEF Program
    <2> QED BY <1>2, <2>8 DEF Programs, Program
<1>5. CASE DownAt(t)
    <2>1. Working(t) => Dropping(t) \/ Stamping(t)
        BY <1>5, Operations DEF Working, Creating, Indexing, Reading, Writing, Passing, Showing,
                                Ready, At
    <2>2. Proceed(t)
        BY <2>1 DEF Dropping, Stamping
    <2>3. UNCHANGED <<made, wrote, look>>
        BY <2>1 DEF Dropping, Stamping
    <2> DEFINE r == at[t].rev
    <2>4. \/ \E T \in AllTables :
                 /\ Revision[r].down[at[t].n] = Drop(T)
                 /\ lost'[t] = lost[t] \union {T} \/ (lost'[t] = lost[t] /\ r = 5)
                 /\ stamped'[t] = stamped[t]
          \/ /\ Revision[r].down[at[t].n].op = "stamp"
             /\ lost'[t] = lost[t] /\ stamped'[t] = <<{Prev(r)} \ {0}>>
        <3>1. CASE Dropping(t)
            <4>1. /\ Now(t) = Drop(Now(t).table) /\ Now(t).table \in AllTables
                  /\ Now(t).table \in TablesOf(r) /\ r \in Revisions
                BY <1>5, <3>1, DownDetails DEF Dropping, Ready, At, DownAt
            <4>2. Spared(t) => r = 5
                BY <4>1, TablesAre DEF Spared, Lenient, Revisions
            <4>3. lost'[t] = lost[t] \union {Now(t).table} \/ (lost'[t] = lost[t] /\ r = 5)
                BY <3>1, <4>2 DEF Dropping, TypeOK
            <4> QED BY <1>5, <3>1, <4>1, <4>3 DEF Dropping, DownAt
        <3>2. CASE Stamping(t)
            <4>1. ~UpAt(t)
                BY <1>5 DEF UpAt, DownAt
            <4> QED BY <1>5, <3>2, <4>1, StampIs DEF Stamping, Ready, At, DownAt
        <3> QED BY <2>1, <3>1, <3>2
    <2>5. Downgrading(job[t], [rev |-> r, n |-> at[t].n + 1], lost'[t], stamped'[t])
        BY <1>1, <1>5, <2>4, DowngradeStep DEF DownAt, Program
    <2>6. /\ at'[t] = [rev |-> r, n |-> at[t].n + 1]
          /\ script'[t] = Revision[r].down /\ job[t].kind = "down"
        BY <1>3, <1>5, <2>2, OnwardIs DEF Script, DownAt
    <2>7. at'[t].n <= Len(script'[t]) + 1
        <3>1. Len(Revision[r].down) \in Nat
            BY <1>5, ListsAre DEF Revisions, DownAt
        <3> QED BY <1>5, <2>6, <3>1 DEF DownAt
    <2>8. Program(t)'
        BY <1>1, <2>3, <2>5, <2>6, <2>7 DEF Program
    <2> QED BY <1>2, <2>8 DEF Programs, Program
<1>6. CASE SeedAt(t) \/ ListAt(t)
    <2>1. Reading(t) \/ Writing(t) \/ Passing(t) \/ Showing(t)
        BY <1>6, Operations DEF Working, Creating, Dropping, Indexing, Stamping, Ready, At
    <2>2. UNCHANGED <<made, lost, stamped>>
        BY <2>1 DEF Reading, Writing, Passing, Showing, Quiet
    <2>3. job[t].kind \in {"seed", "list"}
        BY <1>6 DEF SeedAt, ListAt
    <2>4. job[t].kind = "list" => UNCHANGED <<wrote, look>>
        <3>1. job[t].kind = "list" => ListAt(t)
            BY <1>6 DEF SeedAt
        <3> QED BY <2>1, <3>1, Operations DEF Reading, Writing, Passing, Showing, Quiet, Ready, At
    <2>5. at'[t].n <= Len(script'[t]) + 1
        <3>1. CASE Proceed(t)
            <4>1. /\ at'[t].n = at[t].n + 1 /\ script'[t] = script[t]
                BY <1>1, <1>3, <1>6, <3>1, OnwardIs, Statement DEF Script, SeedAt, ListAt, Positions
            <4>2. at[t].n \in 1..Len(script[t]) /\ Len(script[t]) \in Nat
                BY <1>6, Statement DEF SeedAt, ListAt, Listing
            <4> QED BY <4>1, <4>2
        <3>2. CASE UNCHANGED <<script, at>>
            BY <1>1, <3>2 DEF Program
        <3> QED BY <3>1, <3>2, WorkingAt
    <2>6. Program(t)'
        BY <1>1, <2>2, <2>3, <2>4, <2>5 DEF Program
    <2> QED BY <1>2, <2>6 DEF Programs, Program
<1> QED BY <1>1, <1>4, <1>5, <1>6

-----------------------------------------------------------------------------
(* Names, stamps and the schema.                                           *)

\* Nobody makes a table that is there, or that another has made.
LEMMA NamesWorks ==
    ASSUME TypeOK, Programs, Names, NEW t \in Transactions, Working(t)
    PROVE  Names'
<1>1. UNCHANGED tables /\ \A u \in Transactions : u # t => made'[u] = made[u]
    BY ElsewhereWorks DEF Elsewhere
<1>2. CASE UNCHANGED made
    BY <1>1, <1>2 DEF Names
<1>3. CASE /\ Creating(t) /\ Now(t).table \notin Seen(t)
           /\ made' = [made EXCEPT ![t] = @ \union {Now(t).table}]
    <2>1. UpAt(t) /\ lost[t] = {} /\ Now(t).op = "create"
        BY <1>3, OperationOf DEF Creating, Ready, UpAt, Programs, At
    <2>2. Now(t).table \notin tables
        BY <1>3, <2>1 DEF Seen
    <2>3. ASSUME NEW u \in Transactions, u # t  PROVE Now(t).table \notin made[u]
        BY <1>3, <2>1, <2>3 DEF Creating, Ready, Others, Waits
    <2>4. made'[t] = made[t] \union {Now(t).table}
        BY <1>3 DEF TypeOK
    <2> QED BY <1>1, <2>2, <2>3, <2>4 DEF Names
<1> QED BY <1>2, <1>3 DEF Working, Creating, Dropping, Indexing, Stamping, Reading, Writing,
                          Passing, Showing, Quiet

LEMMA NamesEnds ==
    ASSUME TypeOK, Names, NEW t \in Transactions, Close(t),
           tables' \subseteq tables \union made[t]
    PROVE  Names'
BY ElsewhereEnds DEF Names, Elsewhere

\* Nobody stamps what another has stamped.
LEMMA StampsBegins ==
    ASSUME TypeOK, Programs, Stamps, NEW t \in Transactions, NEW j, NEW p, NEW needed,
           Begin(t, j, p, needed)
    PROVE  Stamps'
BY ElsewhereBegins DEF Stamps, Elsewhere, Programs

LEMMA StampsWorks ==
    ASSUME TypeOK, Programs, Names, Stamps, Schema, NEW t \in Transactions, Working(t)
    PROVE  Stamps'
<1>1. UNCHANGED <<heads, job>> /\ \A u \in Transactions : u # t => stamped'[u] = stamped[u]
    BY ElsewhereWorks DEF Elsewhere
<1>2. CASE UNCHANGED stamped
    BY <1>1, <1>2 DEF Stamps
<1>3. CASE Stamping(t)
    <2>1. heads = {job[t].from} \ {0}
        BY <1>3, StampIs DEF Stamps
    <2>2. \A u \in Transactions : u # t => stamped[u] = <<>>
        BY <1>3 DEF Stamping, Ready, Others, Waits, At
    <2> QED BY <1>1, <2>1, <2>2 DEF Stamps
<1> QED BY <1>2, <1>3 DEF Working, Creating, Dropping, Indexing, Stamping, Reading, Writing,
                          Passing, Showing, Quiet

LEMMA StampsRollback ==
    ASSUME TypeOK, Stamps, NEW t \in Transactions, Close(t), UNCHANGED heads
    PROVE  Stamps'
BY ElsewhereEnds DEF Stamps, Elsewhere

LEMMA StampsCommit ==
    ASSUME TypeOK, Stamps, NEW t \in Transactions, Commit(t)
    PROVE  Stamps'
<1>1. CASE stamped[t] = <<>>
    BY <1>1, StampsRollback DEF Commit, Heads
<1>2. CASE stamped[t] # <<>>
    <2>1. \A u \in Transactions : stamped'[u] = <<>>
        BY <1>2, ElsewhereEnds DEF Stamps, Elsewhere, Commit
    <2> QED BY <2>1 DEF Stamps
<1> QED BY <1>1, <1>2

\* The tables of a version, from those of an earlier one.
LEMMA UpToBetween ==
    ASSUME NEW f \in {0} \union Revisions, NEW r \in Revisions, f < r
    PROVE  UpTo(r) = UpTo(f) \union Between(f, r) \union (TablesOf(r) \intersect MainTables)
<1>1. ASSUME NEW q \in Main
      PROVE  q <= r <=> (q <= f \/ (f < q /\ q < r) \/ q = r)
    BY DEF Main, Revisions
<1>2. r \in Main => TablesOf(r) \intersect MainTables = TablesOf(r)
    BY DEF MainTables
<1>3. r \notin Main => r = 5 /\ TablesOf(r) \intersect MainTables = {}
    BY TablesAre, NamesAre DEF Main, Revisions
<1> QED BY <1>1, <1>2, <1>3 DEF UpTo, Between

\* What a program leaves when it commits: an upgrade that has stamped a version
\* has made the tables up to it, a downgrade has dropped those of its one.
LEMMA CommitIs ==
    ASSUME TypeOK, Programs, NEW t \in Transactions, Commit(t)
    PROVE  \/ /\ stamped[t] = <<>> /\ lost[t] = {} /\ made[t] \intersect MainTables = {}
           \/ /\ job[t].kind = "up" /\ at[t].rev \in Revisions /\ job[t].from < at[t].rev
              /\ at[t].n = Len(Revision[at[t].rev].up) + 1
              /\ stamped[t] = <<{at[t].rev}>> /\ lost[t] = {}
              /\ made[t] \intersect MainTables =
                     Between(job[t].from, at[t].rev) \union (TablesOf(at[t].rev) \intersect MainTables)
           \/ /\ job[t].kind = "down" /\ at[t].rev = job[t].from /\ job[t].from \in Revisions
              /\ at[t].n = Len(Revision[at[t].rev].down) + 1
              /\ stamped[t] = <<{Prev(job[t].from)} \ {0}>> /\ made[t] = {}
              /\ lost[t] \subseteq TablesOf(job[t].from)
              /\ job[t].from \in Main => lost[t] = TablesOf(job[t].from)
<1>1. /\ job[t] \in Jobs /\ at[t] \in Positions /\ Program(t)
      /\ script[t] = Script(job[t], at[t].rev) /\ at[t].n = Len(script[t]) + 1
    BY Statement, OperationOf, ProgramsAre DEF Commit
<1>2. CASE job[t].kind = "up"
    <2>1. /\ Upgrading(job[t], at[t], made[t], stamped[t]) /\ lost[t] = {}
          /\ at[t].n = Len(Revision[at[t].rev].up) + 1
        BY <1>1, <1>2 DEF Program, Script
    <2>2. CASE at[t].rev = 0
        <3>1. Between(job[t].from, 0) = {}
            BY <1>1 DEF Between, Main, Jobs, Revisions
        <3>2. Creates(0, at[t].n) \intersect MainTables = {}
            BY <1>1, CreatesOfMain DEF Positions
        <3>3. stamped[t] = <<>> /\ made[t] \intersect MainTables = {}
            BY <2>1, <2>2, <3>1, <3>2 DEF Upgrading
        <3> QED BY <2>1, <3>3
    <2>3. CASE at[t].rev # 0
        <3>1. at[t].rev \in Revisions
            BY <1>1, <2>3 DEF Positions
        <3>2. Creates(at[t].rev, at[t].n) = TablesOf(at[t].rev)
            BY <2>1, <3>1, CreatesAll
        <3>3. at[t].n > Len(Revision[at[t].rev].up)
            BY <2>1, <3>1, ListsAre DEF Revisions
        <3>4. /\ stamped[t] = <<{at[t].rev}>> /\ job[t].from < at[t].rev
              /\ made[t] \intersect MainTables =
                     Between(job[t].from, at[t].rev)
                     \union (TablesOf(at[t].rev) \intersect MainTables)
            BY <2>1, <2>3, <3>2, <3>3 DEF Upgrading
        <3> QED BY <1>2, <2>1, <3>1, <3>4
    <2> QED BY <2>2, <2>3
<1>3. CASE job[t].kind = "down"
    <2>1. /\ Downgrading(job[t], at[t], lost[t], stamped[t]) /\ made[t] = {}
          /\ at[t].n = Len(Revision[at[t].rev].down) + 1
        BY <1>1, <1>3 DEF Program, Script
    <2>2. at[t].rev = job[t].from /\ at[t].rev \in Revisions
        BY <2>1 DEF Downgrading
    <2>3. Drops(at[t].rev, at[t].n) = TablesOf(at[t].rev)
        BY <2>1, <2>2, CreatesAll
    <2>4. at[t].n > Len(Revision[at[t].rev].down)
        <3>1. Len(Revision[at[t].rev].down) \in Nat
            BY <2>2, ListsAre DEF Revisions
        <3> QED BY <2>1, <3>1
    <2> QED BY <1>3, <2>1, <2>2, <2>3, <2>4 DEF Downgrading
<1>4. CASE job[t].kind \notin {"up", "down"}
    BY <1>1, <1>4 DEF Program
<1> QED BY <1>2, <1>3, <1>4

\* A commit leaves the tables of the version it leaves.
LEMMA SchemaCommit ==
    ASSUME TypeOK, Programs, Names, Stamps, Schema, NEW t \in Transactions, Commit(t)
    PROVE  Schema'
<1> DEFINE f == job[t].from
           r == at[t].rev
<1>1. PICK h \in {0} \union Revisions :
          heads = {h} \ {0} /\ tables \intersect MainTables = UpTo(h)
    BY DEF Schema
<1>2. tables' = (tables \union made[t]) \ lost[t] /\ heads' = Heads(t)
    BY DEF Commit, Seen
<1>3. f \in {0} \union Revisions
    BY DEF TypeOK, Jobs
<1>4. stamped[t] # <<>> => h = f
    <2>1. stamped[t] # <<>> => {h} \ {0} = {f} \ {0}
        BY <1>1 DEF Stamps
    <2>2. \A a, b : {a} \ {0} = {b} \ {0} => (a \in {b} \/ a = 0) /\ (b \in {a} \/ b = 0)
        OBVIOUS
    <2> QED BY <2>1, <2>2
<1>5. CASE /\ stamped[t] = <<>> /\ lost[t] = {} /\ made[t] \intersect MainTables = {}
    BY <1>1, <1>2, <1>5 DEF Schema, Heads
<1>6. CASE /\ job[t].kind = "up" /\ r \in Revisions /\ f < r
           /\ stamped[t] = <<{r}>> /\ lost[t] = {}
           /\ made[t] \intersect MainTables =
                  Between(f, r) \union (TablesOf(r) \intersect MainTables)
    <2>1. heads' = {r} /\ h = f /\ r # 0
        BY <1>2, <1>4, <1>6, ListsNotEmpty DEF Heads
    <2>2. tables' \intersect MainTables = UpTo(r)
        BY <1>1, <1>2, <1>3, <1>6, <2>1, UpToBetween
    <2> QED BY <1>6, <2>1, <2>2 DEF Schema
<1>7. CASE /\ job[t].kind = "down" /\ f \in Revisions
           /\ stamped[t] = <<{Prev(f)} \ {0}>> /\ made[t] = {}
           /\ lost[t] \subseteq TablesOf(f) /\ (f \in Main => lost[t] = TablesOf(f))
    <2>1. heads' = {Prev(f)} \ {0} /\ h = f /\ Prev(f) \in {0} \union Revisions
        BY <1>2, <1>4, <1>7 DEF Heads, Prev, Revisions
    <2>2. tables' \intersect MainTables = UpTo(f) \ lost[t]
        BY <1>1, <1>2, <1>7, <2>1
    <2>3. UpTo(f) \ lost[t] = UpTo(Prev(f))
        <3>1. CASE f = 5
            BY <1>7, <3>1, UpToIs, TablesAre, NamesAre DEF Prev
        <3>2. CASE f # 5
            <4>1. f \in {1, 2, 3} /\ lost[t] = TablesOf(f)
                BY <1>7, <3>2 DEF Revisions, Main
            <4> QED BY <4>1, UpToIs, TablesAre, NamesAre DEF Prev
        <3> QED BY <3>1, <3>2
    <2> QED BY <2>1, <2>2, <2>3 DEF Schema
<1> QED BY <1>5, <1>6, <1>7, CommitIs

-----------------------------------------------------------------------------
(* Locks.                                                                  *)

\* Conflicts go both ways, and nothing goes with AccessExclusive.
LEMMA ConflictsBothWays ==
    \A a, b : <<a, b>> \in Conflicts => <<b, a>> \in Conflicts
<1>1. \A a, b : {a, b} = {b, a}
    OBVIOUS
<1> QED BY <1>1 DEF Conflicts

LEMMA Excludes ==
    \A m \in Modes :
        <<"AccessExclusive", m>> \in Conflicts /\ <<m, "AccessExclusive">> \in Conflicts
BY DEF Conflicts, Modes

\* A statement waits for the locks that conflict with those it needs.
LEMMA LocksWorks ==
    ASSUME TypeOK, Programs, Locks, NEW t \in Transactions, Working(t)
    PROVE  Locks'
<1>1. /\ held'[t] = held[t] \union Needs(t)
      /\ \A u \in Transactions : u # t => held'[u] = held[u] /\ lost'[u] = lost[u]
    BY ElsewhereWorks, WorkingAt DEF Elsewhere, Hold, TypeOK
<1>2. \A u \in Transactions : u # t =>
          \A n \in Needs(t), h \in held[u] : n[1] = h[1] => <<n[2], h[2]>> \notin Conflicts
    BY WorkingAt DEF Others, Waits
<1>3. \A u, v \in Transactions : u # v =>
          \A h \in held'[u], k \in held'[v] : h[1] = k[1] => <<h[2], k[2]>> \notin Conflicts
    <2> TAKE u, v \in Transactions
    <2> HAVE u # v
    <2> TAKE h \in held'[u], k \in held'[v]
    <2> HAVE h[1] = k[1]
    <2>1. CASE h \in held[u] /\ k \in held[v]
        BY <2>1 DEF Locks
    <2>2. CASE u = t /\ h \in Needs(t) /\ k \in held[v]
        BY <1>2, <2>2
    <2>3. CASE v = t /\ k \in Needs(t) /\ h \in held[u]
        <3>1. <<k[2], h[2]>> \notin Conflicts
            BY <1>2, <2>3
        <3> QED BY <3>1, ConflictsBothWays
    <2> QED BY <1>1, <2>1, <2>2, <2>3
<1>4. \A T \in lost'[t] : <<T, "AccessExclusive">> \in held'[t]
    <2>1. CASE UNCHANGED lost
        BY <1>1, <2>1 DEF Locks
    <2>2. CASE /\ Dropping(t) /\ Now(t).table \in Seen(t)
               /\ lost' = [lost EXCEPT ![t] = @ \union {Now(t).table}]
        <3>1. Now(t).op = "drop"
            BY <2>2 DEF Dropping, Ready, At
        <3>2. <<Now(t).table, "AccessExclusive">> \in Needs(t)
            BY <2>2, <3>1 DEF Needs
        <3>3. lost'[t] = lost[t] \union {Now(t).table}
            BY <2>2 DEF TypeOK
        <3> QED BY <1>1, <3>2, <3>3 DEF Locks
    <2> QED BY <2>1, <2>2 DEF Working, Creating, Dropping, Indexing, Stamping, Reading, Writing,
                              Passing, Showing, Quiet
<1> QED BY <1>1, <1>3, <1>4 DEF Locks

LEMMA LocksEnds ==
    ASSUME TypeOK, Locks, NEW t \in Transactions, Close(t)
    PROVE  Locks'
<1>1. \A u \in Transactions : held'[u] \subseteq held[u] /\ lost'[u] \subseteq lost[u]
    BY ElsewhereEnds DEF Elsewhere
<1>2. \A T \in lost'[t] : FALSE
    BY ElsewhereEnds
<1>3. \A u \in Transactions : u # t => held'[u] = held[u] /\ lost'[u] = lost[u]
    BY ElsewhereEnds DEF Elsewhere
<1> QED BY <1>1, <1>2, <1>3 DEF Locks

\* A table that one transaction has dropped is locked by no other.
LEMMA LostIsLocked ==
    ASSUME TypeOK, Locks, NEW t \in Transactions, NEW u \in Transactions, t # u,
           NEW T \in lost[t], NEW m \in Modes
    PROVE  <<T, m>> \notin held[u]
<1> SUFFICES ASSUME <<T, m>> \in held[u]  PROVE FALSE
    OBVIOUS
<1> DEFINE h == <<T, "AccessExclusive">>
           k == <<T, m>>
<1>1. h \in held[t] /\ k \in held[u] /\ h[1] = k[1] /\ h[2] = "AccessExclusive" /\ k[2] = m
    BY DEF Locks
<1>2. <<h[2], k[2]>> \notin Conflicts
    <2> HIDE DEF h, k
    <2> QED BY <1>1 DEF Locks
<1> QED BY <1>1, <1>2, Excludes

-----------------------------------------------------------------------------
(* Rows.                                                                   *)

\* The slug of an entry is of the table of the entry.
LEMMA TableOfSlug ==
    ASSUME NEW e \in Editions, NEW i \in 1..Len(e)
    PROVE  TableOf(e[i].slug) = e[i].table
<1> DEFINE s == e[i].slug
           P(T) == \E x \in Everything : x.slug = s /\ x.table = T
<1>1. e[i] \in ToSet(e) /\ e[i] \in Everything /\ e[i].table \in AllTables
    BY SlugsOfEditions DEF Everything
<1>2. P(e[i].table)
    BY <1>1
<1>3. \A T : P(T) => T = e[i].table
    BY <1>1, DatabaseAssumption DEF Everything
<1> HIDE DEF P
<1>4. (CHOOSE T \in AllTables : P(T)) = e[i].table
    BY <1>1, <1>2, <1>3
<1> QED BY <1>4 DEF TableOf, P

LEMMA NoneIsNoRow == None \notin Rows
BY DatabaseAssumption

LEMMA RowSeenSame ==
    ASSUME NEW t, UNCHANGED rows, wrote'[t] = wrote[t]
    PROVE  \A s : RowSeen(t, s)' = RowSeen(t, s)
BY DEF RowSeen

\* A row t has seen stays while t has a lock on its table.
LEMMA RowKept ==
    ASSUME TypeOK, Locks, NEW t \in Transactions, NEW u \in Transactions, u # t, Commit(u),
           NEW e \in Editions, NEW i \in 1..Len(e),
           <<e[i].table, "AccessShare">> \in held[t], RowSeen(t, e[i].slug) # None
    PROVE  RowSeen(t, e[i].slug)' # None
<1> DEFINE s == e[i].slug
<1>1. /\ wrote'[t] = wrote[t] /\ s \in Slugs
      /\ rows' = [q \in Slugs |-> IF TableOf(q) \in lost[u] THEN None ELSE RowSeen(u, q)]
    BY ElsewhereEnds, SlugsOfEditions DEF Commit, Elsewhere
<1>2. CASE s \in DOMAIN wrote[t]
    BY <1>1, <1>2 DEF RowSeen
<1>3. CASE s \notin DOMAIN wrote[t]
    <2>1. rows[s] # None
        BY <1>3 DEF RowSeen
    <2>2. TableOf(s) \notin lost[u]
        BY TableOfSlug, LostIsLocked DEF Modes
    <2>3. RowSeen(u, s) # None
        <3>1. CASE s \in DOMAIN wrote[u]
            BY <3>1, NoneIsNoRow DEF RowSeen, TypeOK
        <3>2. CASE s \notin DOMAIN wrote[u]
            BY <3>2, <2>1 DEF RowSeen
        <3> QED BY <3>1, <3>2
    <2>4. rows'[s] # None
        BY <1>1, <2>2, <2>3
    <2> QED BY <1>1, <1>3, <2>4 DEF RowSeen
<1> QED BY <1>2, <1>3

\* What happens elsewhere leaves a seed run where it is.
LEMMA FilledSame ==
    ASSUME NEW t, Filled(t), UNCHANGED rows,
           job'[t] = job[t], at'[t] = at[t], look'[t] = look[t], held'[t] = held[t],
           wrote'[t] = wrote[t]
    PROVE  Filled(t)'
BY RowSeenSame DEF Filled

\* A seed run has its rows and locks when it starts, when others end, and after
\* each statement.
LEMMA SeedingBegins ==
    ASSUME TypeOK, Programs, Seeding, NEW t \in Transactions, NEW j \in Jobs,
           NEW p \in Positions, NEW needed, Begin(t, j, p, needed), Launch(j, p, needed)
    PROVE  Seeding'
<1>1. ASSUME NEW u \in Transactions, job'[u].kind = "seed"  PROVE Filled(u)'
    <2>1. CASE u = t
        <3>1. /\ job'[t] = j /\ at'[t].n = 1 /\ look'[t] = <<>> /\ wrote'[t] = <<>>
              /\ j.edition \in Editions
            BY <1>1, <2>1, ElsewhereBegins DEF Launch, Programs
        <3>2. \A i \in 1..Len(j.edition) : ~(i < 1)
            BY <3>1, SlugsOfEditions
        <3>3. DOMAIN wrote'[t] = {}
            BY <3>1
        <3> QED BY <2>1, <3>1, <3>2, <3>3 DEF Filled
    <2>2. CASE u # t
        BY <1>1, <2>2, ElsewhereBegins, FilledSame DEF Seeding, Elsewhere
    <2> QED BY <2>1, <2>2
<1> QED BY <1>1 DEF Seeding

LEMMA SeedingRollback ==
    ASSUME TypeOK, Seeding, NEW t \in Transactions, Rollback(t)
    PROVE  Seeding'
<1>1. Close(t) /\ UNCHANGED rows
    BY DEF Rollback, committed
<1>2. job'[t].kind = "none"
    BY <1>1, ElsewhereEnds, Empty
<1> QED BY <1>1, <1>2, ElsewhereEnds, FilledSame DEF Seeding, Elsewhere

LEMMA SeedingCommit ==
    ASSUME TypeOK, Programs, Locks, Seeding, NEW t \in Transactions, Commit(t)
    PROVE  Seeding'
<1>1. Close(t) /\ job'[t].kind = "none"
    BY ElsewhereEnds, Empty DEF Commit
<1>2. ASSUME NEW u \in Transactions, job'[u].kind = "seed"  PROVE Filled(u)'
    <2>1. /\ u # t /\ job'[u] = job[u] /\ at'[u] = at[u] /\ look'[u] = look[u]
          /\ held'[u] = held[u] /\ wrote'[u] = wrote[u]
        BY <1>1, <1>2, ElsewhereEnds DEF Elsewhere
    <2>2. Filled(u) /\ job[u].edition \in Editions
        BY <1>2, <2>1 DEF Seeding, Programs
    <2> DEFINE e == job[u].edition
    <2>3. \A i \in 1..Len(e) :
              <<e[i].table, "AccessShare">> \in held[u] /\ RowSeen(u, e[i].slug) # None
              => RowSeen(u, e[i].slug)' # None
        BY <2>1, <2>2, RowKept
    <2> QED BY <2>1, <2>2, <2>3 DEF Filled
<1> QED BY <1>2 DEF Seeding

LEMMA FilledWorks ==
    ASSUME TypeOK, Programs, Seeding, NEW t \in Transactions, Working(t),
           job[t].kind = "seed",
           NEW e, NEW n, NEW x, e = job[t].edition, n = at[t].n, x = e[n]
    PROVE  Filled(t)'
<1>0. UNCHANGED rows /\ job'[t].edition = e
    BY ElsewhereWorks
<1>1. /\ SeedAt(t) /\ Filled(t) /\ e \in Editions /\ n \in 1..Len(e) /\ Len(e) \in Nat
      /\ Now(t).entry = x /\ Now(t).table = x.table /\ x.slug \in Slugs
    BY WorkingAt, EntryAt, SlugsOfEditions
       DEF UpAt, DownAt, ListAt, SeedAt, Seeding
<1>2. Reading(t) \/ Writing(t) \/ Passing(t)
    BY <1>1, Operations DEF Working, Creating, Dropping, Indexing, Stamping, Showing, Ready, At
<1>3. held'[t] = held[t] \union Needs(t)
    BY WorkingAt DEF Hold, TypeOK
<1>4. Proceed(t) => at'[t] = [rev |-> at[t].rev, n |-> n + 1]
    BY <1>1, OnwardIs DEF Proceed, TypeOK
<1>5. CASE Reading(t)
    <2>1. Now(t).op = "read" /\ Known(e, x)
        BY <1>1, <1>5 DEF Reading, Ready, At, SeedAt, Upsert
    <2>2. <<x.table, "AccessShare">> \in held'[t]
        BY <1>1, <1>3, <2>1 DEF Needs
    <2>3. /\ at'[t] = at[t] /\ wrote'[t] = wrote[t]
          /\ look'[t] = <<RowSeen(t, x.slug)>> /\ look'[t][1] = RowSeen(t, x.slug)
        BY <1>1, <1>5 DEF Reading, TypeOK
    <2>4. \A s : RowSeen(t, s)' = RowSeen(t, s)
        BY <1>0, <2>3, RowSeenSame
    <2> QED BY <1>0, <1>1, <1>3, <2>1, <2>2, <2>3, <2>4 DEF Filled
<1>6. CASE Writing(t)
    <2>1. /\ look[t] # <<>> /\ Known(e, x) /\ <<x.table, "AccessShare">> \in held[t]
          /\ look[t][1] # None => RowSeen(t, x.slug) # None
        <3>1. look[t] # <<>>
            BY <1>1, <1>6 DEF Writing, Ready, At, SeedAt, Upsert
        <3> QED BY <1>1, <3>1 DEF Filled
    <2>2. /\ at'[t].n = n + 1 /\ look'[t] = <<>>
        BY <1>4, <1>6 DEF Writing, TypeOK
    <2>3. \/ wrote'[t] = wrote[t] /\ look[t][1] # None
          \/ wrote'[t] = [s \in DOMAIN wrote[t] \union {x.slug} |->
                             IF s = x.slug THEN Result(t) ELSE wrote[t][s]]
        <3> DEFINE W == [s \in DOMAIN wrote[t] \union {x.slug} |->
                            IF s = x.slug THEN Result(t) ELSE wrote[t][s]]
        <3>1. \/ UNCHANGED wrote /\ look[t][1] # None
              \/ wrote' = [wrote EXCEPT ![t] = W]
            BY <1>1, <1>6 DEF Writing
        <3>2. DOMAIN wrote = Transactions
            BY DEF TypeOK
        <3> HIDE DEF W
        <3>3. \/ wrote'[t] = wrote[t] /\ look[t][1] # None
              \/ wrote'[t] = W
            BY <3>1, <3>2
        <3> QED BY <3>3 DEF W
    <2>4. DOMAIN wrote'[t] \subseteq DOMAIN wrote[t] \union {x.slug}
        BY <2>3
    <2>5. \A s \in Slugs : RowSeen(t, s) # None => RowSeen(t, s)' # None
        <3>1. wrote'[t] \in [DOMAIN wrote'[t] -> Rows]
            BY TypedWorks DEF TypeOK
        <3>2. DOMAIN wrote[t] \subseteq DOMAIN wrote'[t]
            BY <2>3
        <3> QED BY <1>0, <3>1, <3>2, NoneIsNoRow DEF RowSeen
    <2>6. RowSeen(t, x.slug)' # None
        <3>1. CASE wrote'[t] = wrote[t] /\ look[t][1] # None
            BY <1>1, <2>1, <2>5, <3>1
        <3>2. CASE wrote'[t] = [s \in DOMAIN wrote[t] \union {x.slug} |->
                             IF s = x.slug THEN Result(t) ELSE wrote[t][s]]
            <4>1. wrote'[t] \in [DOMAIN wrote'[t] -> Rows] /\ x.slug \in DOMAIN wrote'[t]
                BY <3>2, TypedWorks DEF TypeOK
            <4> QED BY <4>1, NoneIsNoRow DEF RowSeen
        <3> QED BY <2>3, <3>1, <3>2
    <2>7. \A i \in 1..Len(e) : i < n + 1 => i < n \/ i = n
        BY <1>1
    <2>8. \A i \in 1..Len(e) : e[i].slug \in Slugs
        BY <1>1, SlugsOfEditions
    <2>9. \A i \in 1..Len(e) : Known(e, e[i]) /\ i < n + 1
              => <<e[i].table, "AccessShare">> \in held'[t] /\ RowSeen(t, e[i].slug)' # None
        BY <1>1, <1>3, <2>1, <2>5, <2>6, <2>7, <2>8 DEF Filled
    <2>10. \A s \in DOMAIN wrote'[t] :
              \E i \in 1..Len(e) : i < n + 1 /\ Known(e, e[i]) /\ s = e[i].slug
        <3>1. \A i \in 1..Len(e) : i < n => i < n + 1
            BY <1>1
        <3>2. n < n + 1
            BY <1>1
        <3> QED BY <1>1, <2>1, <2>4, <3>1, <3>2 DEF Filled
    <2> QED BY <1>0, <2>2, <2>9, <2>10 DEF Filled
<1>7. CASE Passing(t)
    <2>1. look[t] = <<>> /\ ~Known(e, x)
        BY <1>1, <1>7 DEF Passing, Ready, At, SeedAt, Upsert
    <2>2. /\ at'[t].n = n + 1 /\ look'[t] = <<>> /\ wrote'[t] = wrote[t]
        BY <1>4, <1>7, <2>1 DEF Passing, Quiet
    <2>3. \A s : RowSeen(t, s)' = RowSeen(t, s)
        BY <1>0, <2>2, RowSeenSame
    <2>4. \A i \in 1..Len(e) : (i < n + 1 => i < n \/ i = n) /\ (i < n => i < n + 1)
        BY <1>1
    <2> QED BY <1>0, <1>1, <1>3, <2>1, <2>2, <2>3, <2>4 DEF Filled
<1> QED BY <1>2, <1>5, <1>6, <1>7

LEMMA SeedingWorks ==
    ASSUME TypeOK, Programs, Seeding, NEW t \in Transactions, Working(t)
    PROVE  Seeding'
<1>1. Elsewhere(t) /\ UNCHANGED <<rows, job>>
    BY ElsewhereWorks
<1>2. ASSUME NEW u \in Transactions, u # t, job'[u].kind = "seed"  PROVE Filled(u)'
    BY <1>1, <1>2, FilledSame DEF Seeding, Elsewhere
<1>3. job'[t].kind = "seed" => Filled(t)'
    BY <1>1, FilledWorks
<1> QED BY <1>2, <1>3 DEF Seeding

\* The entries of an edition, by number.
LEMMA EntriesAre ==
    ASSUME NEW e \in Editions, NEW x
    PROVE  x \in Entries(e) <=> \E i \in 1..Len(e) : x = e[i] /\ Known(e, e[i])
BY SlugsOfEditions DEF Entries

\* A downgrade takes the tables of a whole edition, or none of them.
LEMMA LostTogether ==
    ASSUME TypeOK, Programs, NEW t \in Transactions, Commit(t),
           NEW e \in Editions, NEW i \in 1..Len(e), NEW k \in 1..Len(e),
           e[i].table \in lost[t]
    PROVE  e[k].table \in lost[t]
<1>1. \/ e[i].table \in {"pillars", "microtopics"} /\ e[k].table \in {"pillars", "microtopics"}
      \/ e[i].table = "sources" /\ e[k].table = "sources"
    BY SlugsOfEditions, DatabaseAssumption
<1>2. PICK f \in Revisions :
          lost[t] \subseteq TablesOf(f) /\ (f \in Main => lost[t] = TablesOf(f))
    BY CommitIs
<1>3. CASE f \in {1, 2, 3}
    BY <1>1, <1>2, <1>3, TablesAre DEF Main
<1>4. CASE f = 5
    BY <1>1, <1>2, <1>4, TablesAre
<1> QED BY <1>3, <1>4 DEF Revisions

\* A commit brings the rows of an edition, and takes them, together.
LEMMA SeededCommit ==
    ASSUME TypeOK, Programs, Seeding, SeededWhole, NEW t \in Transactions, Commit(t)
    PROVE  SeededWhole'
<1>1. /\ rows' = [s \in Slugs |-> IF TableOf(s) \in lost[t] THEN None ELSE RowSeen(t, s)]
      /\ at[t].n = Len(script[t]) + 1 /\ script[t] = Script(job[t], at[t].rev)
      /\ Program(t)
    BY Statement, OperationOf, ProgramsAre DEF Commit
<1>2. CASE job[t].kind = "seed"
    <2> DEFINE e == job[t].edition
    <2>1. e \in Editions /\ Len(e) \in Nat /\ at[t].n = Len(e) + 1 /\ lost[t] = {}
        BY <1>1, <1>2, SlugsOfEditions DEF Program, Script
    <2>2. rows' = [s \in Slugs |-> RowSeen(t, s)]
        BY <1>1, <2>1
    <2>3. \A i \in 1..Len(e) : Known(e, e[i]) => RowSeen(t, e[i].slug) # None
        <3>1. \A i \in 1..Len(e) : i < Len(e) + 1
            BY <2>1
        <3> QED BY <1>2, <2>1, <3>1 DEF Seeding, Filled
    <2>4. \A s \in Slugs : rows[s] # None => RowSeen(t, s) # None
        BY NoneIsNoRow DEF RowSeen, TypeOK
    <2>5. ASSUME NEW s \in Slugs, rows'[s] # None
          PROVE  \E d \in Editions :
                    /\ s \in {x.slug : x \in Entries(d)}
                    /\ \A x \in Entries(d) : rows'[x.slug] # None
        <3>1. CASE s \in DOMAIN wrote[t]
            <4>1. PICK i \in 1..Len(e) : Known(e, e[i]) /\ s = e[i].slug
                BY <1>2, <3>1 DEF Seeding, Filled
            <4>2. s \in {x.slug : x \in Entries(e)}
                BY <2>1, <4>1, EntriesAre
            <4>3. \A x \in Entries(e) : rows'[x.slug] # None
                BY <2>1, <2>2, <2>3, EntriesAre, SlugsOfEditions
            <4> QED BY <2>1, <4>2, <4>3
        <3>2. CASE s \notin DOMAIN wrote[t]
            <4>1. rows[s] # None
                BY <2>2, <2>5, <3>2 DEF RowSeen
            <4>2. PICK d \in Editions :
                      /\ s \in {x.slug : x \in Entries(d)}
                      /\ \A x \in Entries(d) : rows[x.slug] # None
                BY <4>1 DEF SeededWhole
            <4>3. \A x \in Entries(d) : rows'[x.slug] # None
                BY <2>2, <2>4, <4>2, EntriesAre, SlugsOfEditions
            <4> QED BY <4>2, <4>3
        <3> QED BY <3>1, <3>2
    <2> QED BY <2>5 DEF SeededWhole
<1>3. CASE job[t].kind # "seed"
    <2>1. wrote[t] = <<>> /\ DOMAIN wrote[t] = {}
        BY <1>1, <1>3 DEF Program
    <2>2. rows' = [s \in Slugs |-> IF TableOf(s) \in lost[t] THEN None ELSE rows[s]]
        BY <1>1, <2>1 DEF RowSeen
    <2>3. ASSUME NEW s \in Slugs, rows'[s] # None
          PROVE  \E d \in Editions :
                    /\ s \in {x.slug : x \in Entries(d)}
                    /\ \A x \in Entries(d) : rows'[x.slug] # None
        <3>1. rows[s] # None /\ TableOf(s) \notin lost[t]
            BY <2>2, <2>3
        <3>2. PICK d \in Editions :
                  /\ s \in {x.slug : x \in Entries(d)}
                  /\ \A x \in Entries(d) : rows[x.slug] # None
            BY <3>1 DEF SeededWhole
        <3>3. PICK k \in 1..Len(d) : s = d[k].slug
            BY <3>2, EntriesAre
        <3>4. d[k].table \notin lost[t]
            BY <3>1, <3>3, TableOfSlug
        <3>5. ASSUME NEW x \in Entries(d)  PROVE rows'[x.slug] # None
            <4>1. PICK i \in 1..Len(d) : x = d[i]
                BY EntriesAre
            <4>2. TableOf(x.slug) \notin lost[t] /\ x.slug \in Slugs
                BY <3>4, <4>1, TableOfSlug, LostTogether, SlugsOfEditions
            <4> QED BY <2>2, <3>2, <4>2
        <3> QED BY <3>2, <3>5
    <2> QED BY <2>3 DEF SeededWhole
<1> QED BY <1>2, <1>3

\* A seed run that is due leaves each row as its edition says.
LEMMA AppliedCommit ==
    ASSUME TypeOK, Programs, Due, EditionApplied, NEW t \in Transactions, Commit(t)
    PROVE  EditionApplied'
<1>1. /\ rows' = [s \in Slugs |-> IF TableOf(s) \in lost[t] THEN None ELSE RowSeen(t, s)]
      /\ at[t].n = Len(script[t]) + 1 /\ script[t] = Script(job[t], at[t].rev)
      /\ Program(t) /\ rows \in [Slugs -> Rows \union {None}]
      /\ applied \in Editions \union {None} /\ None \notin Editions
    BY Statement, OperationOf, ProgramsAre, DatabaseAssumption DEF Commit, TypeOK
<1>2. CASE job[t].kind = "seed" /\ due[t]
    <2> DEFINE e == job[t].edition
    <2>1. e \in Editions /\ Len(e) \in Nat /\ at[t].n = Len(e) + 1 /\ lost[t] = {}
        BY <1>1, <1>2, SlugsOfEditions DEF Program, Script
    <2>2. applied' = e
        BY <1>2, <2>1 DEF Commit
    <2>3. ASSUME NEW x \in Entries(e)  PROVE rows'[x.slug] = RowOf(x)
        <3>1. PICK i \in 1..Len(e) : x = e[i] /\ Known(e, e[i])
            BY <2>1, EntriesAre
        <3>2. i < at[t].n /\ e[i].slug \in Slugs
            BY <2>1, SlugsOfEditions
        <3>3. RowSeen(t, e[i].slug) = RowOf(e[i])
            BY <1>2, <3>1, <3>2 DEF Due, Alone
        <3> QED BY <1>1, <2>1, <3>1, <3>2, <3>3
    <2> QED BY <2>2, <2>3 DEF EditionApplied
<1>3. CASE applied' = None
    BY <1>3 DEF EditionApplied
<1>4. CASE job[t].kind # "seed" /\ lost[t] = {} /\ applied' = applied
    <2>1. wrote[t] = <<>> /\ DOMAIN wrote[t] = {}
        BY <1>1, <1>4 DEF Program
    <2>2. \A s \in Slugs : rows'[s] = rows[s]
        BY <1>1, <1>4, <2>1 DEF RowSeen
    <2>3. ASSUME applied # None, NEW x \in Entries(applied)  PROVE rows'[x.slug] = RowOf(x)
        <3>1. x.slug \in Slugs
            BY <1>1, <2>3, EntriesAre, SlugsOfEditions
        <3> QED BY <2>2, <2>3, <3>1 DEF EditionApplied
    <2> QED BY <1>4, <2>3 DEF EditionApplied
<1> QED BY <1>2, <1>3, <1>4 DEF Commit

-----------------------------------------------------------------------------
(* A program that runs alone.                                              *)

\* No table is of two revisions.
LEMMA Disjoint ==
    ASSUME NEW q \in Revisions, NEW r \in Revisions, q # r
    PROVE  TablesOf(q) \intersect TablesOf(r) = {}
BY TablesAre DEF Revisions

\* A program that is due runs alone from its start,
LEMMA AloneBegins ==
    ASSUME TypeOK, Programs, NEW t \in Transactions, NEW j \in Jobs, NEW p \in Positions,
           NEW needed, Begin(t, j, p, needed), Launch(j, p, needed)
    PROVE  Due'
<1>1. ASSUME NEW u \in Transactions, due'[u]  PROVE Alone(u)'
    <2>1. u = t /\ needed \subseteq tables /\ \A v \in Transactions : ~Open(v)
        BY <1>1 DEF Begin
    <2>2. /\ job'[t] = j /\ at'[t] = p /\ Elsewhere(t)
          /\ UNCHANGED <<tables, heads, look>> /\ look[t] = <<>>
        BY ElsewhereBegins DEF Programs
    <2>3. \A v \in Transactions : v # u => ~Open(v)'
        BY <2>1, <2>2 DEF Open, Elsewhere
    <2>4. j.kind = "up" =>
              /\ p = Start => Version \notin tables
              /\ p.rev # 0 => Creates(p.rev, p.n) = {}
        BY NothingYet DEF Launch, Positions
    <2>5. j.kind = "seed" =>
              /\ \A x \in Entries(j.edition) : x.table \in tables
              /\ \A i \in 1..Len(j.edition) : ~(i < p.n)
        BY <2>1, SlugsOfEditions DEF Launch
    <2> QED BY <2>1, <2>2, <2>3, <2>4, <2>5 DEF Alone, Launch
<1> QED BY <1>1 DEF Due

\* and nothing else ends while it does.
LEMMA AloneEnds ==
    ASSUME TypeOK, Due, NEW t \in Transactions, Open(t), Close(t)
    PROVE  Due'
<1>1. ASSUME NEW u \in Transactions, due'[u]  PROVE FALSE
    <2>1. u # t /\ due[u]
        BY <1>1, ElsewhereEnds
    <2> QED BY <2>1 DEF Due, Alone
<1> QED BY <1>1 DEF Due

\* What it needs is there after each of its statements.
LEMMA AloneWorks ==
    ASSUME TypeOK, Programs, Seeding, Due, NEW t \in Transactions, Working(t),
           due[t],
           NEW e, NEW n, NEW x, e = job[t].edition, n = at[t].n, x = e[n]
    PROVE  Alone(t)'
<1>0. /\ UNCHANGED <<tables, heads, rows, job>> /\ Elsewhere(t) /\ Alone(t)
      /\ (lost[t] = {} \/ job[t].kind = "down")
    BY ElsewhereWorks DEF Due, Programs
<1>1. \A u \in Transactions : u # t => ~Open(u)'
    BY <1>0 DEF Alone, Open
<1>2. UpAt(t) \/ DownAt(t) \/ SeedAt(t) \/ ListAt(t)
    BY WorkingAt
<1>3. CASE UpAt(t)
    <2> DEFINE r == at[t].rev
    <2>1. Creating(t) \/ Indexing(t) \/ Stamping(t)
        BY <1>3, Operations DEF Working, Dropping, Reading, Writing, Passing, Showing, Ready, At
    <2>2. /\ at[t] \in Positions /\ job[t] \in Jobs /\ n \in 1..Len(Revision[r].up)
          /\ r \in {0} \union Revisions /\ job[t].kind = "up"
          /\ Now(t) = Revision[r].up[n]
        BY <1>3 DEF TypeOK, Positions, UpAt
    <2>3. at'[t] = Ahead(job[t], at[t])
        BY <1>3, <2>1, OnwardIs DEF Creating, Indexing, Stamping, Proceed, TypeOK
    <2>4. /\ Revision[r].up[n].op = "create" => Now(t).table \in tables \union made'[t]
          /\ made[t] \subseteq made'[t]
        <3>1. lost[t] = {}
            BY <1>0, <2>2
        <3>2. CASE Creating(t)
            BY <2>2, <3>1, <3>2 DEF Creating, TypeOK, Spared, Ready, At, Seen
        <3>3. CASE Indexing(t) \/ Stamping(t)
            BY <2>2, <3>3 DEF Indexing, Stamping, Quiet, Ready, At
        <3> QED BY <2>1, <3>2, <3>3
    <2>5. CASE at'[t] = [rev |-> r, n |-> n + 1]
        <3>1. Creates(r, n + 1) \subseteq Creates(r, n) \union {Now(t).table}
            <4>1. CASE Now(t).op = "create"
                BY <1>3, <2>2, <4>1, UpDetails, CreatesNext
            <4>2. CASE Now(t).op # "create"
                BY <2>2, <4>2, CreatesNext
            <4> QED BY <4>1, <4>2
        <3>2. Now(t).op # "create" => Creates(r, n + 1) = Creates(r, n)
            BY <2>2, CreatesNext
        <3>3. r # 0 => Creates(r, n + 1) \subseteq tables \union made'[t]
            BY <1>0, <2>2, <2>4, <3>1, <3>2 DEF Alone
        <3>4. at'[t] # Start
            BY <2>2, <2>5 DEF Start
        <3> QED BY <1>0, <1>1, <2>2, <2>5, <3>3, <3>4 DEF Alone
    <2>6. CASE /\ at'[t] = [rev |-> After(r), n |-> 1]
               /\ After(r) \in Revisions
        <3>1. After(r) # 0 /\ Creates(After(r), 1) = {}
            BY <2>6, NothingYet, ListsNotEmpty
        <3>2. at'[t] # Start
            BY <2>6, <3>1 DEF Start
        <3> QED BY <1>0, <1>1, <2>2, <2>6, <3>1, <3>2 DEF Alone
    <2> QED BY <2>2, <2>3, <2>5, <2>6, AheadIs
<1>4. CASE DownAt(t)
    BY <1>0, <1>1, <1>4 DEF Alone, DownAt
<1>5. CASE ListAt(t)
    BY <1>0, <1>1, <1>5 DEF Alone, ListAt
<1>6. CASE SeedAt(t)
    <2>1. /\ e \in Editions /\ n \in 1..Len(e) /\ Len(e) \in Nat /\ job[t].kind = "seed"
          /\ Now(t).entry = x /\ x.slug \in Slugs /\ RowOf(x) \in Rows
          /\ job'[t].edition = e
        BY <1>0, <1>6, EntryAt, SlugsOfEditions DEF SeedAt
    <2>2. Reading(t) \/ Writing(t) \/ Passing(t)
        BY <1>6, Operations DEF Working, Creating, Dropping, Indexing, Stamping, Showing, Ready, At
    <2>3. Proceed(t) => at'[t] = [rev |-> at[t].rev, n |-> n + 1]
        BY <1>6, OnwardIs DEF Proceed, TypeOK
    <2>4. \A i \in 1..Len(e) : i < n + 1 => i < n \/ i = n
        BY <2>1
    <2>5. \A i \in 1..Len(e) : Known(e, e[i]) /\ i < n => RowSeen(t, e[i].slug) = RowOf(e[i])
        BY <1>0, <2>1 DEF Alone
    <2>6. CASE Reading(t)
        <3>1. /\ at'[t] = at[t] /\ wrote'[t] = wrote[t]
              /\ look'[t] = <<RowSeen(t, x.slug)>>
            BY <2>1, <2>6 DEF Reading, TypeOK
        <3>2. \A s : RowSeen(t, s)' = RowSeen(t, s)
            BY <1>0, <3>1, RowSeenSame
        <3> QED BY <1>0, <1>1, <2>1, <2>5, <3>1, <3>2 DEF Alone
    <2>7. CASE Writing(t)
        <3>1. look[t] # <<>>
            BY <2>1, <2>7, <1>6 DEF Writing, Ready, At, SeedAt, Upsert
        <3>2. look[t] = <<RowSeen(t, x.slug)>> /\ look[t][1] = RowSeen(t, x.slug)
            BY <1>0, <2>1, <3>1 DEF Alone
        <3>3. at'[t].n = n + 1 /\ look'[t] = <<>>
            BY <2>3, <2>7 DEF Writing, TypeOK
        <3> DEFINE W == [s \in DOMAIN wrote[t] \union {x.slug} |->
                            IF s = x.slug THEN Result(t) ELSE wrote[t][s]]
        <3>4. \/ wrote'[t] = wrote[t] /\ ~Sends(t)
              \/ wrote'[t] = W
            <4>1. \/ UNCHANGED wrote /\ ~Sends(t)
                  \/ wrote' = [wrote EXCEPT ![t] = W]
                BY <2>1, <2>7 DEF Writing
            <4>2. DOMAIN wrote = Transactions
                BY DEF TypeOK
            <4> HIDE DEF W
            <4> QED BY <4>1, <4>2
        <3>5. RowSeen(t, x.slug)' = RowOf(x)
            <4>1. CASE wrote'[t] = wrote[t] /\ ~Sends(t)
                <5>1. RowSeen(t, x.slug) = RowOf(x)
                    BY <2>1, <3>2, <4>1 DEF Sends
                <5> QED BY <1>0, <4>1, <5>1, RowSeenSame
            <4>2. CASE wrote'[t] = W
                <5>1. Result(t) = RowOf(x)
                    <6>1. CASE RowSeen(t, x.slug) = None
                        BY <2>1, <3>2, <6>1 DEF Result
                    <6>2. CASE RowSeen(t, x.slug) # None
                        <7>1. RowSeen(t, x.slug) \in Rows
                            BY <2>1, <6>2, RowSeenTyped
                        <7> QED BY <2>1, <3>2, <6>2, <7>1, MergedTyped DEF Result
                    <6> QED BY <6>1, <6>2
                <5> QED BY <4>2, <5>1 DEF RowSeen
            <4> QED BY <3>4, <4>1, <4>2
        <3>6. \A s : s # x.slug => RowSeen(t, s)' = RowSeen(t, s)
            BY <1>0, <3>4 DEF RowSeen
        <3>7. \A i \in 1..Len(e) : i < n => e[i].slug # x.slug
            BY <2>1, SlugsOfEditions, DatabaseAssumption
        <3> QED BY <1>0, <1>1, <2>1, <2>4, <2>5, <3>3, <3>5, <3>6, <3>7 DEF Alone
    <2>8. CASE Passing(t)
        <3>1. ~Known(e, x) /\ look[t] = <<>>
            BY <1>6, <2>1, <2>8 DEF Passing, Ready, At, SeedAt, Upsert
        <3>2. at'[t].n = n + 1 /\ look'[t] = <<>> /\ wrote'[t] = wrote[t]
            BY <2>3, <2>8, <3>1 DEF Passing, Quiet
        <3>3. \A s : RowSeen(t, s)' = RowSeen(t, s)
            BY <1>0, <3>2, RowSeenSame
        <3> QED BY <1>0, <1>1, <2>1, <2>4, <2>5, <3>1, <3>2, <3>3 DEF Alone
    <2> QED BY <2>2, <2>6, <2>7, <2>8
<1> QED BY <1>2, <1>3, <1>4, <1>5, <1>6

LEMMA DueWorks ==
    ASSUME TypeOK, Programs, Seeding, Due, NEW t \in Transactions, Working(t)
    PROVE  Due'
<1>1. ASSUME NEW u \in Transactions, due'[u]  PROVE Alone(u)'
    <2>1. due[u] /\ Alone(u)
        BY <1>1, ElsewhereWorks DEF Due
    <2>2. Open(t)
        BY WorkingAt DEF UpAt, DownAt, SeedAt, ListAt, Open
    <2>3. u = t
        BY <2>1, <2>2 DEF Alone
    <2> QED BY <2>1, <2>3, AloneWorks
<1> QED BY <1>1 DEF Due

\* No foreign key points to a table of 0005.
LEMMA LenientFree ==
    ASSUME NEW T \in Lenient, NEW D
    PROVE  T \notin Refs(D)
BY NamesAre DEF Refs

\* The tables of the version before r.
LEMMA UpToPrev ==
    ASSUME NEW f \in {0} \union Revisions, NEW r \in Revisions, f < r
    PROVE  /\ UpTo(Prev(r)) = UpTo(f) \union Between(f, r)
           /\ Prev(r) # f => f < Prev(r) /\ Prev(r) # 0
<1>1. Prev(r) \in {0} \union Revisions
    BY DEF Prev, Revisions
<1>2. ASSUME NEW q \in Main  PROVE q <= Prev(r) <=> q <= f \/ (f < q /\ q < r)
    BY DEF Main, Prev, Revisions
<1>3. Prev(r) # f => f < Prev(r) /\ Prev(r) # 0
    BY DEF Prev, Revisions
<1> QED BY <1>2, <1>3 DEF UpTo, Between

\* Nothing is left of a transaction that has ended, so nobody waits for it.
LEMMA Unhindered ==
    ASSUME TypeOK, Programs, Due, NEW t \in Transactions, due[t]
    PROVE  \A u \in Others(t) : ~Waits(t, u)
<1>1. ASSUME NEW u \in Others(t)  PROVE ~Waits(t, u)
    <2>1. u \in Transactions /\ job[u].kind = "none"
        BY <1>1 DEF Others, Due, Alone, Open
    <2>2. held[u] = {} /\ made[u] = {} /\ stamped[u] = <<>> /\ DOMAIN wrote[u] = {}
        BY <2>1, Empty DEF Programs
    <2> QED BY <2>2 DEF Waits
<1> QED BY <1>1

\* What a program that is due knows of the tables.
LEMMA TablesOfDue ==
    ASSUME TypeOK, Programs, Schema, Due, NEW t \in Transactions, due[t],
           job[t].kind \in {"up", "down"}
    PROVE  /\ heads = {job[t].from} \ {0} /\ job[t].from \in {0} \union Revisions
           /\ tables \intersect MainTables = UpTo(job[t].from)
<1>1. heads = {job[t].from} \ {0} /\ job[t].from \in {0} \union Revisions
    BY DEF Due, Alone, TypeOK, Jobs
<1>2. PICK h \in {0} \union Revisions :
          heads = {h} \ {0} /\ tables \intersect MainTables = UpTo(h)
    BY DEF Schema
<1>3. h = job[t].from
    BY <1>1, <1>2
<1> QED BY <1>1, <1>2, <1>3

\* No statement of an upgrade that is due is refused: its tables are new and those
\* they point to are there.
LEMMA UpNotRefused ==
    ASSUME TypeOK, Programs, Schema, Due, NEW t \in Transactions, due[t], UpAt(t)
    PROVE  ~Refused(t)
<1> DEFINE r == at[t].rev
           n == at[t].n
           f == job[t].from
<1>1. /\ job[t].kind = "up" /\ r \in {0} \union Revisions /\ n \in 1..Len(Revision[r].up)
      /\ Now(t) = Revision[r].up[n] /\ at[t] \in Positions
    BY Statement DEF UpAt
<1>2. /\ heads = {f} \ {0} /\ f \in {0} \union Revisions
      /\ tables \intersect MainTables = UpTo(f)
    BY <1>1, TablesOfDue
<1>3. Seen(t) = tables \union made[t]
    BY <1>1 DEF Programs, Seen
<1>4. Upgrading(job[t], at[t], made[t], stamped[t])
    BY <1>1 DEF Programs
<1>5. Alone(t)
    BY DEF Due
<1>6. r = 0 => at[t] = Start /\ Version \notin Seen(t)
    <2>1. ASSUME r = 0  PROVE at[t] = Start
        BY <2>1, <1>1, Places DEF Positions, Start
    <2> QED BY <2>1, <1>1, <1>3, <1>4, <1>5 DEF Upgrading, Alone
<1>7. r # 0 => /\ f < r /\ Creates(r, n) \subseteq Seen(t)
               /\ UpTo(Prev(r)) \subseteq Seen(t)
    <2>1. ASSUME r # 0  PROVE f < r /\ Creates(r, n) \subseteq Seen(t) /\ r \in Revisions
        BY <2>1, <1>1, <1>3, <1>4, <1>5 DEF Upgrading, Alone
    <2>2. ASSUME r # 0  PROVE UpTo(Prev(r)) = UpTo(f) \union Between(f, r)
        BY <2>1, <2>2, <1>2, UpToPrev
    <2>3. Between(f, r) \subseteq made[t]
        BY <1>4 DEF Upgrading
    <2> QED BY <2>1, <2>2, <2>3, <1>2, <1>3
<1>8. ASSUME Now(t).op = "create"
      PROVE  /\ Now(t).table \in Seen(t) => Spared(t)
             /\ Refs(Now(t).table) \subseteq Seen(t)
    <2> DEFINE T == Now(t).table
    <2>1. /\ Now(t) = Create(T) /\ T \in AllTables
          /\ r = 0 => T = Version
          /\ r # 0 => T \in TablesOf(r)
        BY <1>8, UpDetails
    <2>2. Refs(T) \subseteq Seen(t)
        <3>1. Refs(T) \subseteq UpTo(Prev(r)) \union Creates(r, n)
            BY <1>1, <2>1, RefsAreThere
        <3>2. r = 0 => UpTo(Prev(r)) = {} /\ Creates(r, n) = {}
            BY <1>6, NothingYet, UpToIs DEF Prev, Start
        <3> QED BY <3>1, <3>2, <1>7
    <2>3. T \in Seen(t) => Spared(t)
        <3>1. CASE r = 0
            BY <3>1, <2>1, <1>6
        <3>2. CASE r = 5
            BY <3>2, <2>1, <1>8 DEF Spared, Lenient
        <3>3. CASE r \in Main
            <4>1. T \in MainTables /\ r # 0 /\ r \in Revisions
                BY <3>3, <2>1 DEF MainTables, Main, Revisions
            <4>2. T \notin UpTo(f)
                <5>1. \A q \in Main : q <= f => q # r /\ q \in Revisions
                    BY <4>1, <1>2, <1>7 DEF Main, Revisions
                <5> QED BY <5>1, <4>1, <2>1, Disjoint DEF UpTo
            <4>3. T \notin Between(f, r)
                <5>1. \A q \in Main : q < r => q # r /\ q \in Revisions
                    BY DEF Main, Revisions
                <5> QED BY <5>1, <4>1, <2>1, Disjoint DEF Between
            <4>4. T \notin Creates(r, n)
                BY <1>1, <2>1, NewName
            <4> QED BY <4>1, <4>2, <4>3, <4>4, <1>2, <1>3, <1>4 DEF Upgrading
        <3> QED BY <1>1, <3>1, <3>2, <3>3 DEF Revisions, Main
    <2> QED BY <2>2, <2>3
<1>9. ASSUME Now(t).op = "index"  PROVE Now(t).table \in Seen(t)
    <2>1. r = 5 /\ Now(t) = Index(Now(t).table)
        BY <1>9, UpDetails
    <2> QED BY <1>1, <1>7, <2>1, IndexedIsCreated
<1>10. ASSUME Now(t).op = "stamp"  PROVE Matches(Now(t), Heads(t))
    <2>1. Now(t) = Stamp(Prev(r), r) /\ r # 0 /\ n = Len(Revision[r].up) /\ r \in Revisions
        BY <1>1, <1>10, UpDetails
    <2>2. Now(t).from = Prev(r) /\ Now(t).to = r
        BY <2>1 DEF Stamp
    <2>3. stamped[t] = IF Prev(r) = f THEN <<>> ELSE <<{Prev(r)}>>
        <3>1. ~(n > Len(Revision[r].up))
            BY <1>1, <2>1 DEF Positions
        <3> QED BY <1>4, <2>1, <3>1 DEF Upgrading
    <2>4. Prev(r) # f => Prev(r) # 0
        BY <1>2, <1>7, <2>1, UpToPrev
    <2>5. CASE Prev(r) = f
        BY <2>1, <2>2, <2>3, <2>5, <1>2, <1>7 DEF Matches, Heads
    <2>6. CASE Prev(r) # f
        <3>1. Heads(t) = {Prev(r)}
            BY <2>3, <2>6 DEF Heads
        <3> QED BY <2>2, <2>4, <2>6, <3>1 DEF Matches
    <2> QED BY <2>5, <2>6
<1>11. Now(t).op \in {"create", "index", "stamp"}
    BY Operations
<1> QED BY <1>8, <1>9, <1>10, <1>11, Unhindered DEF Refused, At

\* Nor one of a downgrade: its tables are there and nothing points to them.
LEMMA DownNotRefused ==
    ASSUME TypeOK, Programs, Schema, Due, NEW t \in Transactions, due[t], DownAt(t)
    PROVE  ~Refused(t)
<1> DEFINE r == at[t].rev
           n == at[t].n
           T == Now(t).table
<1>1. /\ job[t].kind = "down" /\ r \in Revisions /\ n \in 1..Len(Revision[r].down)
      /\ Now(t) = Revision[r].down[n] /\ at[t] \in Positions
    BY Statement DEF DownAt
<1>2. /\ Downgrading(job[t], at[t], lost[t], stamped[t]) /\ job[t].from = r
      /\ Seen(t) = tables \ lost[t] /\ r # 0 /\ tables \subseteq AllTables
    BY <1>1, ListsNotEmpty DEF Programs, Downgrading, Seen, TypeOK
<1>3. heads = {r} /\ tables \intersect MainTables = UpTo(r)
    BY <1>1, <1>2, TablesOfDue
<1>4. ASSUME Now(t).op = "drop"
      PROVE  /\ T \in Seen(t) \/ Spared(t)
             /\ \A D \in Seen(t) : T \notin Refs(D)
    <2>1. Now(t) = Drop(T) /\ T \in TablesOf(r)
        BY <1>4, DownDetails
    <2>2. T \in Seen(t) \/ Spared(t)
        <3>1. CASE r = 5
            BY <3>1, <2>1, <1>4 DEF Spared, Lenient
        <3>2. CASE r \in Main
            <4>1. T \in UpTo(r)
                <5>1. r <= r
                    BY <1>1 DEF Revisions
                <5> QED BY <5>1, <2>1, <3>2 DEF UpTo
            <4>2. T \notin lost[t]
                BY <1>1, <1>2, <2>1, <3>2, OldName DEF Downgrading
            <4> QED BY <4>1, <4>2, <1>2, <1>3
        <3> QED BY <1>1, <3>1, <3>2 DEF Revisions, Main
    <2>3. ASSUME NEW D \in Seen(t), T \in Refs(D)  PROVE FALSE
        <3>1. D \in AllTables /\ D \in tables /\ D \notin lost[t]
            BY <1>2, <2>3
        <3>2. D \in Drops(r, n) \/ D \in MainTables \ UpTo(r)
            BY <1>1, <2>1, <2>3, <3>1, RefsAreGone
        <3>3. D \in Drops(r, n)
            BY <1>3, <3>1, <3>2
        <3>4. CASE r = 5
            BY <3>4, <2>1, <2>3, LenientFree DEF Lenient
        <3>5. CASE r \in Main
            BY <1>2, <3>1, <3>3, <3>5 DEF Downgrading
        <3> QED BY <1>1, <3>4, <3>5 DEF Revisions, Main
    <2> QED BY <2>2, <2>3
<1>5. ASSUME Now(t).op = "stamp"  PROVE Matches(Now(t), Heads(t))
    <2>1. Now(t).from = r /\ n = Len(Revision[r].down)
        BY <1>5, DownDetails DEF Stamp
    <2>2. ~(n > Len(Revision[r].down))
        BY <1>1, <2>1 DEF Positions
    <2>3. Heads(t) = {r}
        BY <1>2, <1>3, <2>2 DEF Downgrading, Heads
    <2> QED BY <1>2, <2>1, <2>3 DEF Matches
<1>6. Now(t).op \in {"drop", "stamp"}
    BY Operations
<1> QED BY <1>4, <1>5, <1>6, Unhindered DEF Refused, At

\* Nor one of a seed run or of GET /taxonomy.
LEMMA RowsNotRefused ==
    ASSUME TypeOK, Programs, Due, NEW t \in Transactions, due[t], SeedAt(t) \/ ListAt(t)
    PROVE  ~Refused(t)
<1>1. Alone(t) /\ Seen(t) = tables \union made[t]
    BY DEF Due, Programs, SeedAt, ListAt, Seen
<1>2. CASE SeedAt(t)
    <2> DEFINE e == job[t].edition
               n == at[t].n
    <2>1. /\ job[t].kind = "seed" /\ e \in Editions /\ n \in 1..Len(e)
          /\ Now(t) = Upsert(t, e[n]) /\ Now(t).entry = e[n] /\ Now(t).table = e[n].table
        BY <1>2, EntryAt DEF SeedAt
    <2>2. ASSUME Now(t).op = "read"  PROVE Now(t).table \in Seen(t)
        <3>1. Known(e, e[n])
            BY <2>1, <2>2 DEF Upsert
        <3>2. e[n] \in Entries(e)
            BY <2>1, <3>1, EntriesAre
        <3> QED BY <1>1, <2>1, <3>2 DEF Alone
    <2>3. ASSUME Now(t).op = "write"  PROVE look[t][1] = RowSeen(t, Now(t).entry.slug)
        <3>1. look[t] # <<>>
            BY <2>1, <2>3 DEF Upsert
        <3>2. look[t] = <<RowSeen(t, e[n].slug)>>
            BY <1>1, <2>1, <3>1 DEF Alone
        <3> QED BY <2>1, <3>2
    <2>4. Now(t).op \in {"read", "write", "pass"}
        BY <1>2, Operations
    <2> QED BY <2>2, <2>3, <2>4, Unhindered DEF Refused, At
<1>3. CASE ListAt(t)
    <2>1. Now(t).op = "list" /\ Now(t).table \in {"pillars", "microtopics"}
        BY <1>3 DEF ListAt, Listing
    <2>2. Now(t).table \in Seen(t)
        BY <1>1, <1>3, <2>1 DEF Alone, ListAt
    <2> QED BY <2>1, <2>2, Unhindered DEF Refused, At
<1> QED BY <1>2, <1>3

\* So no statement of a program that is due is refused.
LEMMA NotRefused ==
    ASSUME TypeOK, Programs, Schema, Due, NEW t \in Transactions, due[t]
    PROVE  ~Refused(t)
<1>1. CASE At(t, "commit")
    BY <1>1, Unhindered DEF Refused, At
<1>2. CASE UpAt(t) \/ DownAt(t) \/ SeedAt(t) \/ ListAt(t)
    BY <1>2, UpNotRefused, DownNotRefused, RowsNotRefused
<1> QED BY <1>1, <1>2, Where

\* What may end a transaction without a commit.
LEMMA EndsOtherwise ==
    ASSUME TypeOK, Programs, Schema, Due, NEW t \in Transactions, Fail(t),
           due[t] => Refused(t)
    PROVE  UNCHANGED broken
BY NotRefused DEF Fail, TypeOK

-----------------------------------------------------------------------------
(* The tables of 0005, of which only two transactions at a time are sure.  *)

\* A program that starts knows nothing of 0005 yet,
LEMMA FiveBegins ==
    ASSUME TypeOK, Programs, Five, NEW t \in Transactions, NEW j \in Jobs,
           NEW p \in Positions, NEW needed, Begin(t, j, p, needed), Launch(j, p, needed)
    PROVE  Five'
<1>1. /\ Elsewhere(t) /\ job'[t] = j /\ at'[t] = p
      /\ UNCHANGED <<tables, heads, made, lost, held>>
    BY ElsewhereBegins
<1>2. (5 \in heads => TablesOf(5) \subseteq tables)'
    BY <1>1 DEF Five
<1>3. ~PastIndex(t)'
    BY <1>1 DEF PastIndex, Launch
<1>4. j.kind = "up" /\ p.rev = 5 => Creates(5, p.n) = {}
    BY NothingYet DEF Launch, Revisions
<1>5. j.kind = "down" /\ j.from = 5 => Drops(5, p.n) = {}
    BY NothingYet DEF Launch, Revisions
<1>6. j.kind = "up" /\ j.from < 5 => 5 \notin heads
    BY DEF Launch
<1>7. \A u \in Transactions : PastIndex(u)' =>
          /\ "user_interactions" \in (tables \union made[u])'
          /\ ("user_interactions" \in made[u] \/ <<"user_interactions", "Share">> \in held[u])'
    BY <1>1, <1>3 DEF Five, Elsewhere, PastIndex
<1>8. \A u \in Transactions : job'[u].kind = "up" /\ at'[u].rev = 5 =>
          \A X \in Creates(5, at'[u].n) :
              X = "user_interactions" \/ X \in tables' \union made'[u]
    BY <1>1, <1>4 DEF Five, Elsewhere
<1>9. ASSUME NEW u \in Transactions, NEW v \in Transactions,
             job'[u].kind = "up", job'[u].from < 5,
             job'[v].kind = "down", job'[v].from = 5, 5 \in heads'
      PROVE  Drops(5, at'[v].n) \subseteq lost'[v]
    <2>1. u # t
        BY <1>1, <1>6, <1>9
    <2>2. CASE v = t
        BY <1>1, <1>5, <1>9, <2>2
    <2>3. CASE v # t
        BY <1>1, <1>9, <2>1, <2>3 DEF Five, Elsewhere
    <2> QED BY <2>2, <2>3
<1> QED BY <1>2, <1>7, <1>8, <1>9 DEF Five

\* and one that is rolled back leaves nothing of it.
LEMMA FiveRollback ==
    ASSUME TypeOK, Five, NEW t \in Transactions, Rollback(t)
    PROVE  Five'
<1>1. /\ Elsewhere(t) /\ job'[t] = Idle /\ UNCHANGED <<tables, heads>>
    BY ElsewhereEnds DEF Rollback, committed
<1>2. Idle.kind \notin {"up", "down"}
    BY DEF Idle
<1>3. \A u \in Transactions : job'[u].kind \in {"up", "down"} =>
          /\ u # t /\ job'[u] = job[u] /\ at'[u] = at[u] /\ made'[u] = made[u]
          /\ lost'[u] = lost[u] /\ held'[u] = held[u]
    BY <1>1, <1>2 DEF Elsewhere
<1> QED BY <1>1, <1>3 DEF Five, PastIndex

\* A statement of 0005 on the way up leaves its table there, one on the way
\* down leaves it gone.
LEMMA FiveWorks ==
    ASSUME TypeOK, Programs, Five, NEW t \in Transactions, Working(t),
           NEW n, n = at[t].n
    PROVE  Five'
<1>0. Elsewhere(t) /\ UNCHANGED <<tables, heads, rows, job>>
    BY ElsewhereWorks
<1>1. (5 \in heads => TablesOf(5) \subseteq tables)'
    BY <1>0 DEF Five
<1>2. ASSUME job[t].kind = "up", at'[t].rev = 5
      PROVE  /\ \A X \in Creates(5, at'[t].n) :
                    X = "user_interactions" \/ X \in tables \union made'[t]
             /\ at'[t].n > 2 =>
                    /\ "user_interactions" \in tables \union made'[t]
                    /\ \/ "user_interactions" \in made'[t]
                       \/ <<"user_interactions", "Share">> \in held'[t]
    <2>1. UpAt(t) /\ at[t] \in Positions /\ job[t] \in Jobs
        BY <1>2, WorkingAt, Statement DEF DownAt, SeedAt, ListAt
    <2>2. Creating(t) \/ Indexing(t) \/ Stamping(t)
        BY <2>1, Operations DEF Working, Dropping, Reading, Writing, Passing, Showing, Ready, At
    <2>3. at'[t] = Ahead(job[t], at[t])
        BY <2>1, <2>2, OnwardIs DEF Creating, Indexing, Stamping, Proceed, TypeOK
    <2>4. CASE at'[t] = [rev |-> After(at[t].rev), n |-> 1]
        BY <1>2, <2>4, NothingYet DEF Revisions
    <2>5. CASE at'[t] = [rev |-> at[t].rev, n |-> n + 1]
        <3>1. /\ at[t].rev = 5 /\ n \in 1..Len(Revision[5].up) /\ n \in 1..9
              /\ Now(t) = Revision[5].up[n] /\ at'[t].n = n + 1 /\ n \in Nat
            BY <1>2, <2>1, <2>5, ListsAre DEF UpAt
        <3>2. lost[t] = {} /\ Seen(t) = tables \union made[t]
            BY <1>2 DEF Programs, Seen
        <3>3. made[t] \subseteq made'[t] /\ held'[t] = held[t] \union Needs(t)
            BY <2>2 DEF Creating, Indexing, Stamping, Quiet, Proceed, Hold, TypeOK
        <3>4. Now(t).op = "create" => Now(t).table \in tables \union made'[t]
            BY <2>2, <3>2 DEF Creating, Indexing, Stamping, Ready, At, Spared, TypeOK
        <3>5. \A X \in Creates(5, n) :
                  X = "user_interactions" \/ X \in tables \union made[t]
            BY <1>2, <3>1 DEF Five
        <3>6. ASSUME NEW X \in Creates(5, n + 1)
              PROVE  X = "user_interactions" \/ X \in tables \union made'[t]
            <4>1. CASE Now(t).op = "create"
                <5>1. Now(t) = Create(Now(t).table) /\ Now(t).table \in AllTables
                    BY <2>1, <4>1, UpDetails
                <5>2. X \in Creates(5, n) \union {Now(t).table}
                    BY <3>1, <5>1, <3>6, CreatesNext
                <5> QED BY <3>3, <3>4, <3>5, <4>1, <5>2
            <4>2. CASE Now(t).op # "create"
                BY <3>1, <3>3, <3>5, <3>6, <4>2, CreatesNext
            <4> QED BY <4>1, <4>2
        <3>7. ASSUME n + 1 > 2
              PROVE  /\ "user_interactions" \in tables \union made'[t]
                     /\ \/ "user_interactions" \in made'[t]
                        \/ <<"user_interactions", "Share">> \in held'[t]
            <4>1. CASE n = 2
                <5>1. Now(t) = Index("user_interactions")
                    BY <3>1, <4>1, Ups
                <5>2. Now(t).op = "index" /\ Now(t).table = "user_interactions"
                    BY <5>1 DEF Index
                <5>3. Indexing(t)
                    BY <2>2, <5>2 DEF Creating, Stamping, Ready, At
                <5>4. <<"user_interactions", "Share">> \in Needs(t)
                    BY <5>2 DEF Needs
                <5> QED BY <3>2, <3>3, <5>2, <5>3, <5>4 DEF Indexing
            <4>2. CASE n # 2
                <5>1. PastIndex(t)
                    BY <1>2, <3>1, <3>7, <4>2 DEF PastIndex
                <5> QED BY <3>3, <5>1 DEF Five
            <4> QED BY <4>1, <4>2
        <3> QED BY <3>1, <3>6, <3>7
    <2> QED BY <2>1, <2>3, <2>4, <2>5, AheadIs DEF UpAt
<1>3. ASSUME job[t].kind = "down", job[t].from = 5, 5 \in heads,
             NEW u \in Transactions, job[u].kind = "up", job[u].from < 5
      PROVE  Drops(5, at'[t].n) \subseteq lost'[t]
    <2>1. DownAt(t) /\ at[t] \in Positions /\ at[t].rev = 5
        BY <1>3, WorkingAt, Statement DEF UpAt, SeedAt, ListAt, Programs, Downgrading
    <2>2. Dropping(t) \/ Stamping(t)
        BY <2>1, Operations DEF Working, Creating, Indexing, Reading, Writing, Passing,
                                Showing, Ready, At
    <2>3. at'[t] = [rev |-> 5, n |-> n + 1]
        BY <2>1, <2>2, OnwardIs DEF Dropping, Stamping, Proceed, TypeOK
    <2>4. /\ n \in 1..Len(Revision[5].down) /\ Now(t) = Revision[5].down[n]
        BY <2>1 DEF DownAt
    <2>5. Drops(5, n) \subseteq lost[t] /\ TablesOf(5) \subseteq tables /\ made[t] = {}
        BY <1>3 DEF Five, Programs
    <2>6. CASE Now(t).op = "drop"
        <3>1. /\ Now(t) = Drop(Now(t).table) /\ Now(t).table \in TablesOf(5)
              /\ Now(t).table \in AllTables
            BY <2>1, <2>6, DownDetails
        <3>2. Drops(5, n + 1) = Drops(5, n) \union {Now(t).table}
            <4>1. Revision[5].down[n] = Drop(Now(t).table)
                BY <2>4, <3>1
            <4> QED BY <2>4, <3>1, <4>1, DropsNext
        <3>3. Dropping(t)
            BY <2>2, <2>6 DEF Stamping, Ready, At
        <3>4. Now(t).table \in lost'[t] /\ lost[t] \subseteq lost'[t]
            BY <2>5, <2>6, <3>1, <3>3 DEF Dropping, Spared, Seen, TypeOK
        <3> QED BY <2>3, <2>5, <3>2, <3>4
    <2>7. CASE Now(t).op # "drop"
        <3>1. Stamping(t)
            BY <2>2, <2>7 DEF Dropping, Ready, At
        <3>2. lost'[t] = lost[t] /\ Drops(5, n + 1) = Drops(5, n)
            BY <2>4, <2>7, <3>1, DropsNext DEF Stamping
        <3> QED BY <2>3, <2>5, <3>2
    <2> QED BY <2>6, <2>7
<1>4. ASSUME NEW u \in Transactions, PastIndex(u)'
      PROVE  /\ "user_interactions" \in tables' \union made'[u]
             /\ \/ "user_interactions" \in made'[u]
                \/ <<"user_interactions", "Share">> \in held'[u]
    <2>1. CASE u = t
        BY <1>0, <1>2, <1>4, <2>1 DEF PastIndex
    <2>2. CASE u # t
        BY <1>0, <1>4, <2>2 DEF PastIndex, Five, Elsewhere
    <2> QED BY <2>1, <2>2
<1>5. ASSUME NEW u \in Transactions, job'[u].kind = "up", at'[u].rev = 5
      PROVE  \A X \in Creates(5, at'[u].n) :
                 X = "user_interactions" \/ X \in tables' \union made'[u]
    <2>1. CASE u = t
        BY <1>0, <1>2, <1>5, <2>1
    <2>2. CASE u # t
        BY <1>0, <1>5, <2>2 DEF Five, Elsewhere
    <2> QED BY <2>1, <2>2
<1>6. ASSUME NEW u \in Transactions, NEW v \in Transactions,
             job'[u].kind = "up", job'[u].from < 5,
             job'[v].kind = "down", job'[v].from = 5, 5 \in heads'
      PROVE  Drops(5, at'[v].n) \subseteq lost'[v]
    <2>1. CASE v = t
        BY <1>0, <1>3, <1>6, <2>1
    <2>2. CASE v # t
        BY <1>0, <1>6, <2>2 DEF Five, Elsewhere
    <2> QED BY <2>1, <2>2
<1> QED BY <1>1, <1>4, <1>5, <1>6 DEF Five

\* What a downgrade from 5 leaves of 0005's tables, a new upgrade cannot have
\* believed in: it is past its first index only with a lock that keeps the
\* downgrade from dropping the table.
LEMMA FiveCommit ==
    ASSUME TypeOK, Programs, Names, Stamps, Locks, AtMostTwo, Five,
           NEW t \in Transactions, Commit(t)
    PROVE  Five'
<1>0. /\ Elsewhere(t) /\ job'[t] = Idle /\ Idle.kind = "none"
      /\ tables' = (tables \union made[t]) \ lost[t]
      /\ heads' = IF stamped[t] = <<>> THEN heads ELSE stamped[t][1]
    BY ElsewhereEnds, Empty DEF Commit, Seen, Heads
<1>1. (5 \in heads => TablesOf(5) \subseteq tables)'
    <2>1. CASE stamped[t] = <<>> /\ lost[t] = {}
        BY <1>0, <2>1 DEF Five
    <2>2. CASE /\ job[t].kind = "up" /\ at[t].rev \in Revisions
               /\ at[t].n = Len(Revision[at[t].rev].up) + 1
               /\ stamped[t] = <<{at[t].rev}>> /\ lost[t] = {}
        <3>1. heads' = {at[t].rev} /\ tables' = tables \union made[t]
            BY <1>0, <2>2
        <3>2. CASE at[t].rev = 5
            <4>1. Creates(5, at[t].n) = TablesOf(5)
                BY <2>2, <3>2, CreatesAll
            <4>2. PastIndex(t)
                BY <2>2, <3>2, ListsAre DEF PastIndex
            <4> QED BY <2>2, <3>1, <3>2, <4>1, <4>2 DEF Five
        <3> QED BY <3>1, <3>2
    <2>3. CASE stamped[t] = <<{Prev(job[t].from)} \ {0}>>
        <3>1. Prev(job[t].from) # 5
            BY DEF Prev
        <3> QED BY <1>0, <2>3, <3>1
    <2> QED BY <2>1, <2>2, <2>3, CommitIs
<1>2. ASSUME NEW u \in Transactions, PastIndex(u)'
      PROVE  /\ "user_interactions" \in tables' \union made'[u]
             /\ \/ "user_interactions" \in made'[u]
                \/ <<"user_interactions", "Share">> \in held'[u]
    <2>1. /\ u # t /\ PastIndex(u) /\ made'[u] = made[u] /\ held'[u] = held[u]
        BY <1>0, <1>2 DEF PastIndex, Elsewhere
    <2>2. CASE "user_interactions" \in made[u]
        BY <2>1, <2>2
    <2>3. CASE "user_interactions" \notin made[u]
        <3>1. /\ "user_interactions" \in tables
              /\ <<"user_interactions", "Share">> \in held[u]
            BY <2>1, <2>3 DEF Five
        <3>2. "user_interactions" \notin lost[t]
            BY <2>1, <3>1, LostIsLocked DEF Modes
        <3> QED BY <1>0, <2>1, <3>1, <3>2
    <2> QED BY <2>2, <2>3
<1>3. ASSUME NEW u \in Transactions, job'[u].kind = "up", at'[u].rev = 5,
             NEW X \in Creates(5, at'[u].n)
      PROVE  X = "user_interactions" \/ X \in tables' \union made'[u]
    <2> SUFFICES ASSUME X # "user_interactions", X \notin made'[u], X \notin tables'
                 PROVE  FALSE
        OBVIOUS
    <2>1. /\ u # t /\ job[u].kind = "up" /\ at[u].rev = 5 /\ made'[u] = made[u]
          /\ X \in Creates(5, at[u].n)
        BY <1>0, <1>3 DEF Elsewhere
    <2>2. X \in tables /\ X \in lost[t]
        BY <1>0, <2>1 DEF Five
    <2>3. X \in TablesOf(5)
        <3>1. Creates(5, at[u].n) \subseteq TablesOf(5)
            <4>1. /\ at[u].n \in Nat /\ at[u].n <= 10 /\ Len(Revision[5].up) = 9
                  /\ Creates(5, 10) = TablesOf(5)
                <5>1. at[u].n \in 1..(Len(Revision[5].up) + 1)
                    BY <2>1, Statement DEF Script
                <5>2. Creates(5, Len(Revision[5].up) + 1) = TablesOf(5)
                    BY CreatesAll DEF Revisions
                <5> QED BY <5>1, <5>2, ListsAre
            <4>2. \A i \in 1..9 : i < at[u].n => i < 10
                BY <4>1
            <4>3. Creates(5, at[u].n) \subseteq Creates(5, 10)
                BY <4>1, <4>2 DEF Creates
            <4> QED BY <4>1, <4>3
        <3> QED BY <2>1, <3>1
    <2>4. /\ job[t].kind = "down" /\ job[t].from = 5 /\ at[t].rev = 5
          /\ at[t].n = Len(Revision[5].down) + 1 /\ stamped[t] # <<>>
        <3>1. /\ job[t].kind = "down" /\ job[t].from \in Revisions
              /\ at[t].rev = job[t].from /\ at[t].n = Len(Revision[at[t].rev].down) + 1
              /\ stamped[t] = <<{Prev(job[t].from)} \ {0}>>
              /\ lost[t] \subseteq TablesOf(job[t].from)
            BY <2>2, CommitIs
        <3>2. job[t].from = 5
            <4>1. 5 \in Revisions
                BY DEF Revisions
            <4> QED BY <2>2, <2>3, <3>1, <4>1, Disjoint
        <3> QED BY <3>1, <3>2
    <2>5. 5 \in heads /\ stamped[u] = <<>>
        BY <2>1, <2>4 DEF Stamps
    <2>6. job[u].from < 5
        <3>1. Upgrading(job[u], at[u], made[u], stamped[u])
            BY <2>1 DEF Programs
        <3>2. at[u].rev = 0 \/ job[u].from < at[u].rev
            BY <3>1 DEF Upgrading
        <3> QED BY <2>1, <3>2
    <2>7. Drops(5, at[t].n) \subseteq lost[t] /\ Drops(5, at[t].n) = TablesOf(5)
        <3>1. Drops(5, at[t].n) \subseteq lost[t]
            BY <2>1, <2>4, <2>5, <2>6 DEF Five
        <3>2. Drops(5, Len(Revision[5].down) + 1) = TablesOf(5)
            BY CreatesAll DEF Revisions
        <3> QED BY <2>4, <3>1, <3>2
    <2>8. "user_interactions" \in lost[t] /\ "user_interactions" \in tables
        BY <2>5, <2>7, TablesAre DEF Five
    <2>9. at[u].n > 2
        <3>1. PICK i \in 1..Len(Revision[5].up) : i < at[u].n /\ Revision[5].up[i] = Create(X)
            BY <2>1 DEF Creates
        <3>2. i # 1
            BY <3>1, Ups DEF Create
        <3>3. at[u].n \in Nat
            BY DEF TypeOK
        <3> QED BY <3>1, <3>2, <3>3, ListsAre
    <2>10. PastIndex(u)
        BY <2>1, <2>9 DEF PastIndex
    <2>11. "user_interactions" \notin made[u]
        BY <2>8 DEF Names
    <2>12. <<"user_interactions", "Share">> \in held[u]
        BY <2>10, <2>11 DEF Five
    <2> QED BY <2>1, <2>8, <2>12, LostIsLocked DEF Modes
<1>4. ASSUME NEW u \in Transactions, NEW v \in Transactions,
             job'[u].kind = "up", job'[u].from < 5,
             job'[v].kind = "down", job'[v].from = 5, 5 \in heads'
      PROVE  FALSE
    <2>1. u # t /\ v # t /\ u # v
        BY <1>0, <1>4
    <2> QED BY <2>1 DEF AtMostTwo
<1> QED BY <1>1, <1>2, <1>3, <1>4 DEF Five

-----------------------------------------------------------------------------
(* The inductive invariant.                                                *)

IInv ==
    /\ TypeOK /\ Programs /\ Names /\ Stamps /\ Schema /\ Locks /\ Seeding /\ Due
    /\ FiveInv
    /\ AloneNotRefused /\ SeededOnce /\ EditionApplied

\* An empty database, and nothing running.
LEMMA InitIs == Init => IInv
<1> SUFFICES ASSUME Init  PROVE IInv
    OBVIOUS
<1>1. TypeOK
    <2>1. OwnTyped(made, lost, stamped, wrote, look, twice)
        BY Empty DEF Init, OwnTyped
    <2>2. script = [t \in Transactions |-> Script(job[t], at[t].rev)]
        BY Empty DEF Init
    <2> QED BY <2>1, <2>2, Empty, TypedIs DEF Init
<1>2. Programs
    BY Empty DEF Init, Programs
<1>3. Names /\ Stamps /\ Locks /\ Seeding /\ Due
    BY Empty DEF Init, Names, Stamps, Locks, Seeding, Due
<1>4. Schema
    BY UpToIs DEF Init, Schema
<1>5. FiveInv
    BY Empty DEF Init, FiveInv, Five, PastIndex
<1>6. AloneNotRefused /\ SeededOnce /\ EditionApplied
    BY DEF Init, AloneNotRefused, SeededOnce, SlugOnce, SeededWhole, EditionApplied
<1> QED BY <1>1, <1>2, <1>3, <1>4, <1>5, <1>6 DEF IInv

\* Only an open transaction moves.
LEMMA AdvanceOpen ==
    ASSUME TypeOK, Programs, NEW t \in Transactions, Advance(t) \/ Deadlock(t)
    PROVE  Open(t)
<1>1. CASE Commit(t)
    BY <1>1 DEF Commit
<1>2. CASE UpAt(t) \/ DownAt(t) \/ SeedAt(t) \/ ListAt(t)
    BY <1>2 DEF UpAt, DownAt, SeedAt, ListAt, Open
<1>3. CASE Advance(t) /\ ~Commit(t)
    BY <1>2, <1>3, OperationOf
       DEF Advance, CreateTable, DropTable, CreateIndex, StampVersion, ReadRow, WriteRow,
           PassOver, ListTable, Ready
<1>4. CASE Deadlock(t)
    <2>1. PICK u \in Others(t) : Waits(t, u)
        BY <1>4 DEF Deadlock
    <2>2. Now(t).op # "commit"
        BY <2>1 DEF Waits, Needs
    <2> QED BY <1>2, <2>2, Where DEF At
<1> QED BY <1>1, <1>3, <1>4

\* Every step starts a program, carries one on by a statement, commits it, or
\* rolls it back, and what is rolled back was not due or was not refused.
LEMMA StepIs ==
    ASSUME TypeOK, Programs, Schema, Due, Next
    PROVE  \E t \in Transactions :
              \/ \E needed : \E j \in Jobs, p \in Positions :
                     Begin(t, j, p, needed) /\ Launch(j, p, needed)
              \/ Working(t)
              \/ Commit(t)
              \/ Open(t) /\ Rollback(t) /\ UNCHANGED broken
<1>1. PICK t \in Transactions : BeginAny(t) \/ Advance(t) \/ Deadlock(t) \/ Crash(t)
    BY DEF Next
<1>2. CASE BeginAny(t)
    BY <1>2, BeginIs
<1>3. CASE Advance(t)
    <2>1. CASE Fail(t) /\ (due[t] => Refused(t))
        BY <1>3, <2>1, AdvanceOpen, EndsOtherwise DEF Fail
    <2> QED BY <1>3, <2>1, AdvanceIs
<1>4. CASE Deadlock(t)
    BY <1>4, AdvanceOpen, EndsOtherwise DEF Deadlock, Refused, Fail
<1>5. CASE Crash(t)
    BY <1>5 DEF Crash
<1> QED BY <1>1, <1>2, <1>3, <1>4, <1>5

\* Each of the four kinds of steps keeps the invariant.
LEMMA InvBegins ==
    ASSUME IInv, NEW t \in Transactions, NEW j \in Jobs, NEW p \in Positions, NEW needed,
           Begin(t, j, p, needed), Launch(j, p, needed)
    PROVE  IInv'
<1> USE DEF IInv
<1>1. UNCHANGED <<tables, heads, rows, made, lost, stamped, wrote, look, held, broken, twice,
                  applied>>
    BY ElsewhereBegins
<1>2. TypeOK' /\ Programs' /\ Stamps' /\ Seeding' /\ Due'
    BY TypedBegins, ProgramsBegins, StampsBegins, SeedingBegins, AloneBegins
<1>3. Names' /\ Schema' /\ Locks'
    BY <1>1 DEF Names, Schema, Locks
<1>4. FiveInv'
    BY FiveBegins DEF FiveInv, AtMostTwo
<1>5. AloneNotRefused' /\ SeededOnce' /\ EditionApplied'
    BY <1>1 DEF AloneNotRefused, SeededOnce, SlugOnce, SeededWhole, EditionApplied
<1> QED BY <1>2, <1>3, <1>4, <1>5

LEMMA InvWorks ==
    ASSUME IInv, NEW t \in Transactions, Working(t)
    PROVE  IInv'
<1> USE DEF IInv
<1>1. UNCHANGED <<tables, heads, rows, job, due, broken, twice, applied>>
    BY ElsewhereWorks
<1>2. TypeOK' /\ Programs' /\ Names' /\ Stamps' /\ Locks' /\ Seeding' /\ Due'
    BY TypedWorks, ProgramsWorks, NamesWorks, StampsWorks, LocksWorks, SeedingWorks, DueWorks
<1>3. Schema'
    BY <1>1 DEF Schema
<1>4. FiveInv'
    BY FiveWorks DEF FiveInv, AtMostTwo
<1>5. AloneNotRefused' /\ SeededOnce' /\ EditionApplied'
    BY <1>1 DEF AloneNotRefused, SeededOnce, SlugOnce, SeededWhole, EditionApplied
<1> QED BY <1>2, <1>3, <1>4, <1>5

LEMMA InvCommit ==
    ASSUME IInv, NEW t \in Transactions, Commit(t)
    PROVE  IInv'
<1> USE DEF IInv
<1>1. Close(t) /\ Open(t) /\ tables' \subseteq tables \union made[t]
      /\ UNCHANGED <<broken, twice>>
    BY DEF Commit, Seen
<1>2. TypeOK' /\ Programs' /\ Names' /\ Stamps' /\ Schema' /\ Locks' /\ Seeding' /\ Due'
    BY <1>1, TypedCommit, ProgramsEnds, NamesEnds, StampsCommit, SchemaCommit, LocksEnds,
       SeedingCommit, AloneEnds
<1>3. FiveInv'
    BY FiveCommit DEF FiveInv, AtMostTwo
<1>4. AloneNotRefused' /\ SlugOnce'
    BY <1>1 DEF AloneNotRefused, SeededOnce, SlugOnce
<1>5. SeededWhole' /\ EditionApplied'
    BY SeededCommit, AppliedCommit DEF SeededOnce
<1> QED BY <1>2, <1>3, <1>4, <1>5 DEF SeededOnce

LEMMA InvRollback ==
    ASSUME IInv, NEW t \in Transactions, Open(t), Rollback(t), UNCHANGED broken
    PROVE  IInv'
<1> USE DEF IInv
<1>1. Close(t) /\ UNCHANGED <<tables, heads, rows, twice, applied>> /\ broken' \in BOOLEAN
    BY DEF Rollback, committed, TypeOK
<1>2. TypeOK' /\ Programs' /\ Names' /\ Stamps' /\ Locks' /\ Seeding' /\ Due'
    BY <1>1, TypedRollback, ProgramsEnds, NamesEnds, StampsRollback, LocksEnds,
       SeedingRollback, AloneEnds
<1>3. Schema'
    BY <1>1 DEF Schema
<1>4. FiveInv'
    BY FiveRollback DEF FiveInv, AtMostTwo
<1>5. AloneNotRefused' /\ SeededOnce' /\ EditionApplied'
    BY <1>1 DEF AloneNotRefused, SeededOnce, SlugOnce, SeededWhole, EditionApplied
<1> QED BY <1>2, <1>3, <1>4, <1>5

LEMMA Stutters ==
    ASSUME IInv, UNCHANGED vars
    PROVE  IInv'
<1> USE DEF vars, committed, txn, history
<1>1. TypeOK' /\ Programs' /\ Names' /\ Stamps' /\ Schema' /\ Locks'
    BY DEF IInv, TypeOK, Programs, Names, Stamps, Schema, Locks
<1>2. Seeding' /\ Due'
    BY DEF IInv, Seeding, Filled, RowSeen, Due, Alone, Open
<1>3. FiveInv' /\ AloneNotRefused' /\ SeededOnce' /\ EditionApplied'
    BY DEF IInv, FiveInv, Five, PastIndex, AloneNotRefused, SeededOnce, SlugOnce, SeededWhole,
           EditionApplied
<1> QED BY <1>1, <1>2, <1>3 DEF IInv

LEMMA Inductive == IInv /\ [Next]_vars => IInv'
<1> SUFFICES ASSUME IInv, [Next]_vars  PROVE IInv'
    OBVIOUS
<1>1. CASE Next
    <2>1. PICK t \in Transactions :
              \/ \E needed : \E j \in Jobs, p \in Positions :
                     Begin(t, j, p, needed) /\ Launch(j, p, needed)
              \/ Working(t)
              \/ Commit(t)
              \/ Open(t) /\ Rollback(t) /\ UNCHANGED broken
        BY <1>1, StepIs DEF IInv
    <2> QED BY <2>1, InvBegins, InvWorks, InvCommit, InvRollback
<1>2. CASE UNCHANGED vars
    BY <1>2, Stutters
<1> QED BY <1>1, <1>2

\* The inductive invariant holds in every behaviour.
LEMMA Invariant == Spec => []IInv
BY InitIs, Inductive, PTL DEF Spec

\* It says what the properties of the schema say.
LEMMA SchemaFollows ==
    ASSUME TypeOK, Schema, FiveInv
    PROVE  SchemaInv
<1>1. PICK h \in {0} \union Revisions :
          heads = {h} \ {0} /\ tables \intersect MainTables = UpTo(h)
    BY DEF Schema
<1>2. Cardinality(heads) <= 1
    <2>1. CASE h = 0
        BY <1>1, <2>1, FS_EmptySet
    <2>2. CASE h # 0
        <3>1. heads = {h}
            BY <1>1, <2>2
        <3>2. Cardinality({h}) = 1
            BY FS_Singleton
        <3> QED BY <3>1, <3>2
    <2> QED BY <2>1, <2>2
<1>3. ASSUME NEW k \in heads, NEW r \in Revisions, r <= k, r = 5 => AtMostTwo
      PROVE  TablesOf(r) \subseteq tables
    <2>1. k = h /\ k \in Revisions
        BY <1>1, <1>3 DEF Revisions
    <2>2. CASE r \in Main
        BY <1>1, <1>3, <2>1, <2>2 DEF UpTo
    <2>3. CASE r = 5
        <3>1. 5 \in heads
            BY <1>3, <2>1, <2>3 DEF Revisions
        <3> QED BY <1>3, <2>3, <3>1 DEF FiveInv, Five
    <2> QED BY <2>2, <2>3 DEF Revisions, Main
<1>4. VersionIsThere
    BY <1>2, <1>3 DEF VersionIsThere, AtMostTwo
<1>5. ASSUME NEW r \in Main, \A k \in heads : k < r, NEW T \in TablesOf(r), T \in tables
      PROVE  FALSE
    <2>1. h < r
        BY <1>1, <1>5 DEF Main, Revisions
    <2>2. T \in UpTo(h)
        BY <1>1, <1>5 DEF MainTables
    <2>3. PICK q \in Main : q <= h /\ T \in TablesOf(q)
        BY <2>2 DEF UpTo
    <2>4. q # r /\ q \in Revisions /\ r \in Revisions
        BY <1>5, <2>1, <2>3 DEF Main, Revisions
    <2> QED BY <1>5, <2>3, <2>4, Disjoint
<1>6. NothingBeyondVersion
    BY <1>5 DEF NothingBeyondVersion
<1> QED BY <1>4, <1>6 DEF SchemaInv

-----------------------------------------------------------------------------
(* The theorems.                                                           *)

\* The tables of the database are those of the version in alembic_version,
\* however many programs of the two trees overlap, fail or are killed
\* (migrations/versions, and phase-e-only's revision 0005; of its tables only
\* two programs at a time can be sure).
THEOREM SchemaHolds == Spec => []SchemaInv
<1>1. IInv => SchemaInv
    BY SchemaFollows DEF IInv
<1> QED BY <1>1, Invariant, PTL

\* No statement of a program that runs alone, on a schema that suits it, is
\* refused: neither for a foreign key, a name or a missing table, nor for the
\* version row or a unique slug (upgrade and downgrade of every revision, the
\* seed workers, GET /taxonomy).
THEOREM NeverRefusedAlone == Spec => []AloneNotRefused
<1>1. IInv => AloneNotRefused
    BY DEF IInv
<1> QED BY <1>1, Invariant, PTL

\* A slug has one row, and the rows of an edition are there all or none
\* (the one commit of seed_taxonomy and seed_sources), also when downgrades
\* run in between.
THEOREM SeedsOnceAndWhole == Spec => []SeededOnce
<1>1. IInv => SeededOnce
    BY DEF IInv
<1> QED BY <1>1, Invariant, PTL

\* A seed run that nothing overlapped leaves each row as its edition says
\* (seed_taxonomy's and seed_sources's update of the rows they find).
THEOREM SeedsApply == Spec => []EditionApplied
<1>1. IInv => EditionApplied
    BY DEF IInv
<1> QED BY <1>1, Invariant, PTL
===============================================================================
