------------------------------- MODULE Database -------------------------------
(***************************************************************************)
(* The programs that make and fill the schema, and the one request that    *)
(* reads what they filled in: `alembic upgrade head` and `alembic          *)
(* downgrade -1` over migrations/ (and over the tree of phase-e-only,      *)
(* which adds revision 0005), the two seed workers, and GET /taxonomy.     *)
(* Each runs in one transaction of PostgreSQL (READ COMMITTED, DDL         *)
(* included), started by hand, by a deployment or by a workflow, and       *)
(* nothing keeps two of them apart but PostgreSQL's locks.                 *)
(*                                                                         *)
(* A program is a list of statements, an upgrade one list for each of its  *)
(* revisions.  A statement that needs a lock, a name, the version row or a *)
(* slug that another transaction holds waits; of two that wait for each    *)
(* other PostgreSQL fails one (a longer cycle ends with a crash here).     *)
(* A statement that is refused rolls the whole transaction back.  Columns  *)
(* are left out, and so are indexes, except the CREATE INDEX statements    *)
(* of 0005, which lock a table that may have been there before.            *)
(***************************************************************************)
EXTENDS Naturals, Sequences, FiniteSets, SequencesExt

CONSTANTS Transactions,  \* how many may be open at once
          Editions,      \* what the seed files of a checkout may say: sequences
                         \* of [table, slug, pillar, text]
          None

(* The schema.                                                             *)

Version == "alembic_version"

\* The tables each foreign key of T points to.
Refs(T) ==
    CASE T = "sessions"           -> {"users"}
      [] T = "articles"           -> {"sources"}
      [] T = "microtopics"        -> {"pillars"}
      [] T = "article_ai"         -> {"articles"}
      [] T = "article_tags"       -> {"articles", "microtopics", "pillars"}
      [] T = "article_embeddings" -> {"articles"}
      [] OTHER                    -> {}

Create(T) == [op |-> "create", table |-> T]
Drop(T)   == [op |-> "drop",   table |-> T]
Index(T)  == [op |-> "index",  table |-> T]
Stamp(from, to) == [op |-> "stamp", table |-> Version, from |-> from, to |-> to]

\* The statements of a revision, and the stamp alembic adds to them.  First
\* alembic makes its own table.
Revision0 == [up |-> <<Create(Version)>>, down |-> <<>>]

Revision1 ==
    [up   |-> <<Create("users"), Create("sessions"), Stamp(0, 1)>>,
     down |-> <<Drop("sessions"), Drop("users"), Stamp(1, 0)>>]

Revision2_SourcesLeft ==
    [up   |-> <<Create("sources"), Create("articles"), Stamp(1, 2)>>,
     down |-> <<Drop("articles"), Stamp(2, 1)>>]

Revision2 ==
    [up   |-> <<Create("sources"), Create("articles"), Stamp(1, 2)>>,
     down |-> <<Drop("articles"), Drop("sources"), Stamp(2, 1)>>]

Revision3_PillarsFirst ==
    [up   |-> <<Create("pillars"), Create("microtopics"), Create("article_ai"),
                Create("article_tags"), Create("article_embeddings"), Stamp(2, 3)>>,
     down |-> <<Drop("pillars"), Drop("article_embeddings"), Drop("article_tags"),
                Drop("article_ai"), Drop("microtopics"), Stamp(3, 2)>>]

Revision3 ==
    [up   |-> <<Create("pillars"), Create("microtopics"), Create("article_ai"),
                Create("article_tags"), Create("article_embeddings"), Stamp(2, 3)>>,
     down |-> <<Drop("article_embeddings"), Drop("article_tags"), Drop("article_ai"),
                Drop("microtopics"), Drop("pillars"), Stamp(3, 2)>>]

Revision5_NoIndexes ==
    [up   |-> <<Create("user_interactions"), Create("user_topic_affinity"),
                Create("user_profile_vectors"), Create("feed_impressions"),
                Create("onboarding_state"), Stamp(3, 5)>>,
     down |-> <<Drop("onboarding_state"), Drop("feed_impressions"),
                Drop("user_profile_vectors"), Drop("user_topic_affinity"),
                Drop("user_interactions"), Stamp(5, 3)>>]

\* The partitions of user_interactions come and go with it.
Revision5 ==
    [up   |-> <<Create("user_interactions"), Index("user_interactions"),
                Create("user_topic_affinity"), Index("user_topic_affinity"),
                Create("user_profile_vectors"),
                Create("feed_impressions"), Index("feed_impressions"),
                Create("onboarding_state"), Stamp(3, 5)>>,
     down |-> <<Drop("onboarding_state"), Drop("feed_impressions"),
                Drop("user_profile_vectors"), Drop("user_topic_affinity"),
                Drop("user_interactions"), Stamp(5, 3)>>]

Revision == [r \in {0, 1, 2, 3, 5} |->
                CASE r = 0 -> Revision0 [] r = 1 -> Revision1 [] r = 2 -> Revision2
                  [] r = 3 -> Revision3 [] r = 5 -> Revision5]

\* The tree of phase-e-only goes on from 3 to 5, where migrations/ ends.
Main      == {1, 2, 3}
Revisions == {1, 2, 3, 5}
Ends      == {3, 5}
After(r)  == IF r = 3 THEN 5 ELSE r + 1

TablesOf(r) == {s.table : s \in {u \in ToSet(Revision[r].up) : u.op = "create"}}

\* The statements of 0005 say IF NOT EXISTS and IF EXISTS.
Lenient == TablesOf(5)

AllTables == {Version} \union UNION {TablesOf(r) : r \in Revisions}

-----------------------------------------------------------------------------
(* The editions of the seeds.                                              *)

\* A topic whose pillar is not in the edition is left out.
Known(e, x) ==
    x.table = "microtopics" =>
        \E y \in ToSet(e) : y.table = "pillars" /\ y.slug = x.pillar

Entries(e) == {x \in ToSet(e) : Known(e, x)}

Everything == UNION {ToSet(e) : e \in Editions}
Slugs == {x.slug : x \in Everything}
Rows  == [pillar : {x.pillar : x \in Everything}, text : {x.text : x \in Everything}]

TableOf(s) == CHOOSE T \in AllTables : \E x \in Everything : x.slug = s /\ x.table = T
RowOf(x)   == [pillar |-> x.pillar, text |-> x.text]

\* An edition is a taxonomy or a list of sources, and has no slug twice.  A slug
\* here stands for the table too.
ASSUME DatabaseAssumption ==
    /\ \A e \in Editions :
        /\ e \in Seq(ToSet(e))
        /\ \/ \A x \in ToSet(e) : x.table \in {"pillars", "microtopics"}
           \/ \A x \in ToSet(e) : x.table = "sources"
        /\ \A i, k \in DOMAIN e : e[i].slug = e[k].slug => i = k
    /\ \A e, f \in Editions : \A x \in ToSet(e), y \in ToSet(f) :
           x.slug = y.slug => x.table = y.table
    /\ None \notin Rows /\ None \notin Editions

VARIABLES
    \* committed
    tables, heads,  \* the tables, and the revisions in alembic_version
    rows,           \* rows[s]: pillar and text of the row with slug s, or None
    \* open transactions
    job, script,    \* what t runs, and the list of statements it is in
    at,             \* its next statement: the revision and the number in the list
    made, lost,     \* tables t has created and dropped
    stamped,        \* <<v>>: t has written v to alembic_version; else <<>>
    wrote,          \* the rows t has written, by slug
    look,           \* <<r>>: t has read r for the upsert in progress; else <<>>
    held,           \* the locks of t
    \* history
    due,            \* due[t]: t has run alone so far, and on a schema that suits it
    broken,         \* has a transaction that was due failed?
    twice,          \* slugs with two rows
    applied         \* the edition last applied by a run that was due, or None

committed == <<tables, heads, rows>>
txn       == <<job, script, at, made, lost, stamped, wrote, look, held>>
history   == <<due, broken, twice, applied>>
vars      == <<committed, txn, history>>

-----------------------------------------------------------------------------
(* The programs.                                                           *)

Jobs == [kind : {"none", "up", "down", "seed", "list"}, from : {0} \union Revisions,
         to : {0} \union Ends, edition : Editions \union {None}]
Idle == [kind |-> "none", from |-> 0, to |-> 0, edition |-> None]

Modes == {"AccessShare", "RowExclusive", "Share", "ShareRowExclusive", "AccessExclusive"}

\* get_taxonomy
Listing == <<[op |-> "list", table |-> "pillars"],
             [op |-> "list", table |-> "microtopics"]>>

\* migrations/env.py runs every revision in one transaction.
Script(j, r) ==
    CASE j.kind = "up"   -> Revision[r].up
      [] j.kind = "down" -> Revision[r].down
      [] j.kind = "seed" -> j.edition
      [] j.kind = "list" -> Listing
      [] OTHER           -> <<>>

TypeOK ==
    /\ tables \subseteq AllTables /\ heads \subseteq Revisions
    /\ rows \in [Slugs -> Rows \union {None}]
    /\ job \in [Transactions -> Jobs]
    /\ at \in [Transactions -> [rev : {0} \union Revisions, n : Nat \ {0}]]
    /\ script = [t \in Transactions |-> Script(job[t], at[t].rev)]
    /\ made \in [Transactions -> SUBSET AllTables]
    /\ lost \in [Transactions -> SUBSET AllTables]
    /\ DOMAIN stamped = Transactions /\ DOMAIN wrote = Transactions
    /\ DOMAIN look = Transactions
    /\ \A t \in Transactions :
        /\ stamped[t] # <<>> =>
               stamped[t] = <<stamped[t][1]>> /\ stamped[t][1] \subseteq Revisions
        /\ DOMAIN wrote[t] \subseteq Slugs /\ wrote[t] \in [DOMAIN wrote[t] -> Rows]
        /\ look[t] # <<>> => look[t] = <<look[t][1]>> /\ look[t][1] \in Rows \union {None}
    /\ held \in [Transactions -> SUBSET (AllTables \X Modes)]
    /\ due \in [Transactions -> BOOLEAN] /\ broken \in BOOLEAN
    /\ twice \subseteq Slugs
    /\ applied \in Editions \union {None}

Open(t) == job[t].kind # "none"

\* seed_taxonomy and seed_sources: SELECT, then INSERT or UPDATE, entry by
\* entry.
Upsert(t, x) ==
    [op |-> IF look[t] # <<>> THEN "write"
            ELSE IF Known(job[t].edition, x) THEN "read" ELSE "pass",
     table |-> x.table, entry |-> x]

\* The statement t is at; after the last one it commits.
Now(t) ==
    IF at[t].n > Len(script[t]) THEN [op |-> "commit"]
    ELSE LET s == script[t][at[t].n]
         IN IF job[t].kind = "seed" THEN Upsert(t, s) ELSE s

At(t, op) == Now(t).op = op

\* The statement after this one: the first of the next revision, if there is
\* one on the way to the end of the tree.
Start == [rev |-> 0, n |-> 1]

Onward(t) ==
    IF at[t].n = Len(script[t]) /\ job[t].kind = "up" /\ After(at[t].rev) <= job[t].to
    THEN [rev |-> After(at[t].rev), n |-> 1]
    ELSE [at[t] EXCEPT !.n = @ + 1]

-----------------------------------------------------------------------------
(* What a transaction sees, and what it waits for.                         *)

Others(t) == Transactions \ {t}

Seen(t)    == (tables \union made[t]) \ lost[t]
Heads(t)   == IF stamped[t] = <<>> THEN heads ELSE stamped[t][1]
RowSeen(t, s) == IF s \in DOMAIN wrote[t] THEN wrote[t][s] ELSE rows[s]

\* IF NOT EXISTS of what is there, IF EXISTS of what is not: nothing is done.
Spared(t) ==
    LET s == Now(t) IN
    /\ s.table \in Lenient
    /\ s.op \in {"create", "drop"}
    /\ (s.op = "create") = (s.table \in Seen(t))

Merged_TextOnly(row, seen, x) ==
    [pillar |-> row.pillar,
     text   |-> IF x.text # seen.text THEN x.text ELSE row.text]

\* Only the attributes that differ from what was read are sent, and no
\* UPDATE when there are none.
Merged(row, seen, x) ==
    [pillar |-> IF x.pillar # seen.pillar THEN x.pillar ELSE row.pillar,
     text   |-> IF x.text # seen.text THEN x.text ELSE row.text]

Sends(t) == look[t] # <<RowOf(Now(t).entry)>>

\* The locks of a statement: a foreign key is made and unmade under a lock
\* on the table it points to.
Needs(t) ==
    LET s == Now(t)
        On(mode, names) == {<<T, mode>> : T \in names}
    IN CASE s.op = "create" -> IF s.table \in Seen(t) THEN {}
                               ELSE On("ShareRowExclusive", Refs(s.table))
         [] s.op = "drop"   -> On("AccessExclusive",
                                  IF s.table \in Seen(t)
                                  THEN {s.table} \union Refs(s.table) ELSE {})
         [] s.op = "index"  -> On("Share", {s.table})
         [] s.op = "stamp"  -> On("RowExclusive", {s.table})
         [] s.op = "write"  -> On("RowExclusive", IF Sends(t) THEN {s.table} ELSE {})
         [] s.op \in {"pass", "commit"} -> {}
         [] OTHER           -> On("AccessShare", {s.table})

Conflicts ==
    {p \in Modes \X Modes :
        LET both == {p[1], p[2]} IN
        \/ "AccessExclusive" \in both
        \/ "ShareRowExclusive" \in both /\ "AccessShare" \notin both
        \/ both = {"RowExclusive", "Share"}}

\* The statement of t waits for u: for a lock; for a table of the same name
\* that u has created; for the version row, or the row, u has written.
Waits(t, u) ==
    LET s == Now(t) IN
    \/ \E n \in Needs(t), h \in held[u] : n[1] = h[1] /\ <<n[2], h[2]>> \in Conflicts
    \/ s.op = "create" /\ s.table \in made[u] \ Seen(t)
    \/ s.op = "stamp" /\ stamped[u] # <<>>
    \/ s.op = "write" /\ Sends(t) /\ s.entry.slug \in DOMAIN wrote[u]

Ready(t, op) == At(t, op) /\ \A u \in Others(t) : ~Waits(t, u)

-----------------------------------------------------------------------------
(* Actions.                                                                *)

Init ==
    /\ tables = {} /\ heads = {} /\ rows = [s \in Slugs |-> None]
    /\ job = [t \in Transactions |-> Idle]
    /\ script = [t \in Transactions |-> <<>>] /\ at = [t \in Transactions |-> Start]
    /\ made = [t \in Transactions |-> {}] /\ lost = [t \in Transactions |-> {}]
    /\ stamped = [t \in Transactions |-> <<>>]
    /\ wrote = [t \in Transactions |-> <<>>]
    /\ look = [t \in Transactions |-> <<>>] /\ held = [t \in Transactions |-> {}]
    /\ due = [t \in Transactions |-> FALSE] /\ broken = FALSE
    /\ twice = {} /\ applied = None

\* A program starts.  It is due if its tables exist.
Begin(t, j, p, needed) ==
    /\ ~Open(t)
    /\ job' = [job EXCEPT ![t] = j]
    /\ script' = [script EXCEPT ![t] = Script(j, p.rev)]
    /\ at' = [at EXCEPT ![t] = p]
    /\ due' = [u \in Transactions |->
                  u = t /\ needed \subseteq tables /\ \A v \in Transactions : ~Open(v)]
    /\ UNCHANGED <<committed, made, lost, stamped, wrote, look, held,
                   broken, twice, applied>>

\* alembic stops at once when the version is not one of its tree.  When it finds
\* nothing to do, it is past its list.
BeginUpgrade(t) ==
    \E from \in {0} \union Revisions, to \in Ends :
        /\ heads = {from} \ {0} /\ from <= to
        /\ LET first == IF from = 0 /\ Version \notin tables THEN 0 ELSE After(from)
               p == IF first <= to THEN [rev |-> first, n |-> 1]
                    ELSE [rev |-> 0, n |-> Len(Revision[0].up) + 1]
           IN Begin(t, [kind |-> "up", from |-> from, to |-> to, edition |-> None], p, {})

\* Nor when there is nothing to go back to.
BeginDowngrade(t) ==
    \E from \in Revisions :
        /\ heads = {from}
        /\ Begin(t, [kind |-> "down", from |-> from, to |-> 0, edition |-> None],
                 [rev |-> from, n |-> 1], {})

BeginSeed(t) ==
    \E e \in Editions :
        Begin(t, [kind |-> "seed", from |-> 0, to |-> 0, edition |-> e], Start,
              {x.table : x \in Entries(e)})

BeginListing(t) ==
    Begin(t, [kind |-> "list", from |-> 0, to |-> 0, edition |-> None], Start,
          {"pillars", "microtopics"})

Close_LocksKept(t) ==
    /\ job' = [job EXCEPT ![t] = Idle]
    /\ script' = [script EXCEPT ![t] = <<>>]
    /\ at' = [at EXCEPT ![t] = Start]
    /\ look' = [look EXCEPT ![t] = <<>>]
    /\ due' = [due EXCEPT ![t] = FALSE]
    /\ UNCHANGED <<made, lost, stamped, wrote, held>>

\* t ends: nothing is left of it but what its commit has made of the tables.
Close(t) ==
    /\ job' = [job EXCEPT ![t] = Idle]
    /\ script' = [script EXCEPT ![t] = <<>>]
    /\ at' = [at EXCEPT ![t] = Start]
    /\ made' = [made EXCEPT ![t] = {}]
    /\ lost' = [lost EXCEPT ![t] = {}]
    /\ stamped' = [stamped EXCEPT ![t] = <<>>]
    /\ wrote' = [wrote EXCEPT ![t] = <<>>]
    /\ look' = [look EXCEPT ![t] = <<>>]
    /\ held' = [held EXCEPT ![t] = {}]
    /\ due' = [due EXCEPT ![t] = FALSE]

Rollback_Commits(t) ==
    /\ Close(t)
    /\ rows' = [s \in Slugs |-> RowSeen(t, s)]
    /\ UNCHANGED <<tables, heads, twice, applied>>

Rollback(t) == Close(t) /\ UNCHANGED <<committed, twice, applied>>

\* A statement raises: the session rolls back and the program ends.
Fail(t) == Rollback(t) /\ broken' = (broken \/ due[t])

\* The statement is done, and its locks are kept to the end.
Hold(t) ==
    /\ held' = [held EXCEPT ![t] = @ \union Needs(t)]
    /\ UNCHANGED <<committed, job, due, broken, applied>>

Proceed(t) ==
    /\ Hold(t)
    /\ at' = [at EXCEPT ![t] = Onward(t)]
    /\ script' = [script EXCEPT ![t] = Script(job[t], Onward(t).rev)]

\* IF NOT EXISTS does not help a CREATE TABLE that has waited for another.
CreateTable(t) ==
    /\ Ready(t, "create")
    /\ \/ /\ Spared(t)
          /\ Proceed(t)
          /\ UNCHANGED <<made, lost, stamped, wrote, look, twice>>
       \/ /\ Now(t).table \in Seen(t)
          /\ Spared(t) => ~due[t]
          /\ Fail(t)
       \/ /\ Now(t).table \notin Seen(t)
          /\ IF Refs(Now(t).table) \subseteq Seen(t)
             THEN /\ made' = [made EXCEPT ![t] = @ \union {Now(t).table}]
                  /\ Proceed(t)
                  /\ UNCHANGED <<lost, stamped, wrote, look, twice>>
             ELSE Fail(t)

DropTable(t) ==
    /\ Ready(t, "drop")
    /\ LET T == Now(t).table
           free == \A D \in Seen(t) : T \notin Refs(D)
       IN \/ /\ Spared(t)
             /\ Proceed(t)
             /\ UNCHANGED <<made, lost, stamped, wrote, look, twice>>
          \/ /\ T \in Seen(t) /\ free
             /\ lost' = [lost EXCEPT ![t] = @ \union {T}]
             /\ Proceed(t)
             /\ UNCHANGED <<made, stamped, wrote, look, twice>>
          \/ /\ ~Spared(t) /\ (T \in Seen(t) => ~free)
             /\ Fail(t)

\* CREATE INDEX IF NOT EXISTS locks the table before it looks for the index.
CreateIndex(t) ==
    /\ Ready(t, "index")
    /\ IF Now(t).table \in Seen(t)
       THEN Proceed(t) /\ UNCHANGED <<made, lost, stamped, wrote, look, twice>>
       ELSE Fail(t)

\* The version after the INSERT, UPDATE or DELETE of a stamp.
Replaced_Base(s, versions) == (versions \ {s.from}) \union {s.to}

Replaced(s, versions) == (versions \ {s.from}) \union ({s.to} \ {0})

\* It must find the version it replaces, and insert a new one.
Matches_Unchecked(s, versions) == TRUE

Matches(s, versions) == IF s.from = 0 THEN s.to \notin versions ELSE s.from \in versions

StampVersion(t) ==
    /\ Ready(t, "stamp")
    /\ LET s == Now(t)
       IN IF Matches(s, Heads(t))
          THEN /\ stamped' = [stamped EXCEPT ![t] = <<Replaced(s, Heads(t))>>]
               /\ Proceed(t)
               /\ UNCHANGED <<made, lost, wrote, look, twice>>
          ELSE Fail(t)

ReadRow(t) ==
    /\ Ready(t, "read")
    /\ IF Now(t).table \in Seen(t)
       THEN /\ look' = [look EXCEPT ![t] = <<RowSeen(t, Now(t).entry.slug)>>]
            /\ Hold(t)
            /\ UNCHANGED <<script, at, made, lost, stamped, wrote, twice>>
       ELSE Fail(t)

Unique_PillarsOnly(T) == T = "pillars"

\* A unique index refuses a second row of the slug.
Unique(T) == T \in {"pillars", "microtopics", "sources"}

WriteRow(t) ==
    /\ Ready(t, "write")
    /\ LET x == Now(t).entry
           found == look[t][1]
           row == RowSeen(t, x.slug)
           Put(r) == wrote' = [wrote EXCEPT ![t] =
                         [s \in DOMAIN @ \union {x.slug} |-> IF s = x.slug THEN r ELSE @[s]]]
       IN IF found = None /\ row # None /\ Unique(x.table)
          THEN Fail(t)
          ELSE /\ CASE found = None               -> Put(RowOf(x))
                    [] found # None /\ Sends(t) -> Put(Merged(row, found, x))
                    [] OTHER                      -> UNCHANGED wrote
               /\ twice' = IF found = None /\ row # None
                           THEN twice \union {x.slug} ELSE twice
               /\ look' = [look EXCEPT ![t] = <<>>]
               /\ Proceed(t)
               /\ UNCHANGED <<made, lost, stamped>>

PassOver(t) ==
    /\ Ready(t, "pass")
    /\ Proceed(t)
    /\ UNCHANGED <<made, lost, stamped, wrote, look, twice>>

ListTable(t) ==
    /\ Ready(t, "list")
    /\ IF Now(t).table \in Seen(t)
       THEN Proceed(t) /\ UNCHANGED <<made, lost, stamped, wrote, look, twice>>
       ELSE Fail(t)

Commit(t) ==
    /\ Open(t) /\ At(t, "commit")
    /\ tables' = Seen(t)
    /\ heads' = Heads(t)
    /\ rows' = [s \in Slugs |-> IF TableOf(s) \in lost[t] THEN None ELSE RowSeen(t, s)]
    /\ applied' = CASE job[t].kind = "seed" -> IF due[t] THEN job[t].edition ELSE None
                    [] lost[t] # {}         -> None
                    [] OTHER                -> applied
    /\ Close(t)
    /\ UNCHANGED <<broken, twice>>

\* PostgreSQL fails one of the transactions that wait for each other.
Deadlock(t) ==
    /\ \E u \in Others(t) : Waits(t, u) /\ Waits(u, t)
    /\ Fail(t)

\* The process or its connection is gone.
Crash(t) == Open(t) /\ Rollback(t) /\ UNCHANGED broken

Advance(t) ==
    \/ CreateTable(t) \/ DropTable(t) \/ CreateIndex(t) \/ StampVersion(t)
    \/ ReadRow(t) \/ WriteRow(t) \/ PassOver(t) \/ ListTable(t) \/ Commit(t)

BeginAny(t) == BeginUpgrade(t) \/ BeginDowngrade(t) \/ BeginSeed(t) \/ BeginListing(t)

Next ==
    \E t \in Transactions : BeginAny(t) \/ Advance(t) \/ Deadlock(t) \/ Crash(t)

\* Waiting transactions are served in turn; a deadlock is found.
Fairness == \A t \in Transactions : SF_vars(Advance(t) \/ Deadlock(t))

Spec == Init /\ [][Next]_vars /\ Fairness

-----------------------------------------------------------------------------
(* Properties.                                                             *)

\* There is one version, and it never promises a table that is not there, whatever
\* programs of the two trees overlapped, failed or were killed: what runs after
\* `alembic upgrade head` finds its schema.  (Of 0005's tables only two programs
\* at a time can be sure, thanks to the lock of its CREATE INDEX statements: IF
\* NOT EXISTS believes a table that is about to go.)
VersionIsThere ==
    /\ Cardinality(heads) <= 1
    /\ \A h \in heads : \A r \in Revisions :
          /\ r <= h
          /\ r = 5 => \A t, u, v \in Transactions : t = u \/ u = v \/ t = v
          => TablesOf(r) \subseteq tables

\* And there is no table of the first three revisions beyond the version:
\* no later upgrade, whose CREATE TABLE would be refused, is locked out.
\* (Of 0005's tables there may be: DROP TABLE IF EXISTS passes over what
\* another downgrade has dropped, and an upgrade may bring it back before
\* the version is taken down.)
NothingBeyondVersion ==
    \A r \in Main :
        (\A h \in heads : h < r) => TablesOf(r) \intersect tables = {}

\* The invariant of the schema: the tables are those of the version.
SchemaInv == TypeOK /\ VersionIsThere /\ NothingBeyondVersion

\* A program that runs alone on a schema that suits it is not refused: the
\* downgrades drop tables in an order their foreign keys allow, the upgrades
\* make them in one, and a seed can be run again ("Safe to re-run").
AloneNotRefused == ~broken

\* A slug has one row, however the seed runs overlap.
SlugOnce == twice = {}

\* After a seed run that nothing overlapped every entry of its edition has
\* the row the edition gives it, whatever earlier editions said.
EditionApplied ==
    applied # None => \A x \in Entries(applied) : rows[x.slug] = RowOf(x)

\* The rows of a seed run appear together: where there is a row there is an
\* edition all of whose entries have one, so a run that fails or is killed
\* leaves no pillars without their topics.
SeededWhole ==
    \A s \in Slugs : rows[s] # None =>
        \E e \in Editions :
            /\ s \in {x.slug : x \in Entries(e)}
            /\ \A x \in Entries(e) : rows[x.slug] # None

\* The rows of the seeds: an edition is there as a whole, and once.
SeededOnce == SlugOnce /\ SeededWhole

\* Every program ends: waiting for locks, for names, for rows, or for one
\* another, none hangs for ever.  (Transactions are interchangeable, so it
\* is enough to watch one.)
ProgramsEnd ==
    LET t == CHOOSE u \in Transactions : TRUE IN Open(t) ~> ~Open(t)
===============================================================================
