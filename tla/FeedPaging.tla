------------------------------ MODULE FeedPaging ------------------------------
(***************************************************************************)
(* The feed of one user: GET /v1/feed of the API (phase-e-only/app/api/v1  *)
(* /endpoints/feed.py with services/scorer.py and mmr.py) and the infinite *)
(* scroll that calls it (sherrbyte-frontend/js/feed.js), or that calls the *)
(* public list of ArticleListing for a user who is not onboarded.          *)
(*                                                                         *)
(* Scores, embeddings and the random term decide only in which order the   *)
(* re-ranker takes the candidates, which of them it sees when there are    *)
(* many, and in which order the trending articles come: all are left open. *)
(* The caps, the exploration, the injection of trending articles, the      *)
(* impressions and the cursor are modelled as they are.  The endpoint is   *)
(* modelled on a database that has the columns its query names             *)
(* (articles.pillar_id is in none of the migrations).                      *)
(***************************************************************************)
EXTENDS ArticleListing

CONSTANTS Source(_), Topic(_), Pillar(_),
          Trending,        \* the rows of the trending query, once they are stored
          EveryN,          \* inject_trending's every_n (5)
          MaxPerSource, MaxPerTopic,
          ExploreN,        \* score_articles' explore_n, of some call: 0 past the cold start
          Ingestible(_),   \* bound: the articles that may be stored (TRUE: for the public list)
          Calls, None      \* the calls of the endpoint that may be in progress together

ASSUME FeedAssumption ==
    /\ Trending \subseteq Articles
    /\ {EveryN, MaxPerSource, MaxPerTopic} \subseteq Nat \ {0}
    /\ ExploreN \subseteq Nat /\ ExploreN # {}
    /\ IsFiniteSet(Calls) /\ None \notin Calls

VARIABLES
    \* the API and its database
    present,    \* the rows of articles
    seen,       \* feed_impressions of the user
    served,     \* history: served[a], the pages that had a as a new article
    calls,      \* the calls of get_feed
    \* feed.js
    public,     \* is the user without a session, or not onboarded?
    pillar, cursor, exhausted,
    current,    \* the call load() awaits; None: _loading is false
    list,       \* the articles displayed
    due         \* history: the articles there were when the public list was emptied,
                \* of every pillar selected since

database == <<present, seen, served>>
position == <<public, pillar, cursor, exhausted, list, due>>
vars == <<database, calls, position, current>>

\* The model counts the pages of an article up to this number.
Many == Cardinality(Calls) + 1

CallStates == {"idle", "asked", "picked", "answered", "failed"}
NoCall == [at |-> "idle", before |-> Now, pillar |-> All, reset |-> FALSE,
           page |-> <<>>, next |-> Null, new |-> {}]

TypeOK ==
    /\ present \subseteq Articles /\ seen \subseteq present
    /\ served \in [Articles -> 0..Many]
    /\ calls \in [Calls -> [at : CallStates, before : 1..Now, pillar : Choosable,
                            reset : BOOLEAN, page : Seq(Articles), next : 0..Latest,
                            new : SUBSET Articles]]
    /\ \A c \in Calls :
         /\ calls[c].new \subseteq ToSet(calls[c].page) /\ ToSet(calls[c].page) \subseteq present
         /\ Len(calls[c].page) <= Limit
    /\ pillar \in Choosable
    /\ cursor \in 0..Latest /\ exhausted \in BOOLEAN
    /\ current \in Calls \cup {None} /\ (exhausted => current = None)
    /\ list \subseteq present /\ due \subseteq present /\ public \in BOOLEAN

Init ==
    /\ present = {} /\ seen = {} /\ served = [a \in Articles |-> 0]
    /\ calls = [c \in Calls |-> NoCall]
    /\ pillar = All /\ cursor = Null /\ exhausted = FALSE
    /\ current = None /\ list = {} /\ due = {} /\ public \in BOOLEAN

-----------------------------------------------------------------------------
(* mmr.py *)

OfSource(feed, source) == {i \in DOMAIN feed : Source(feed[i]) = source}
OfTopic(feed, topic) == {i \in DOMAIN feed : Topic(feed[i]) = topic}

\* The caps are compared after the article has been added.
Room_OffByOne(feed, a) ==
    /\ Len(feed) < Limit
    /\ Cardinality(OfSource(feed, Source(a))) <= MaxPerSource
    /\ Cardinality(OfTopic(feed, Topic(a))) <= MaxPerTopic

\* Whether mmr_rerank adds the article it has taken.  It stops at limit + 5 articles, of
\* which get_feed keeps the first limit.
Room(feed, a) ==
    /\ Len(feed) < Limit
    /\ Cardinality(OfSource(feed, Source(a))) < MaxPerSource
    /\ Cardinality(OfTopic(feed, Topic(a))) < MaxPerTopic

\* The loop of mmr_rerank over the articles in the order in which it takes them.
RerankLoop(order) ==
    LET Take(feed, a) == IF Room(feed, a) THEN Append(feed, a) ELSE feed
    IN  FoldLeft(Take, <<>>, order)

\* What the loop makes of some items <<article, copy>>, taken in any order: a feed in
\* which every article had room when it was added, and none that is left out has.  (It
\* is that of an order which begins with it.  MCFeedPaging compares the definitions.)
Rerank(items) ==
    LET Ids(q) == [i \in DOMAIN q |-> q[i][1]]
        Taken == {T \in SUBSET items : Cardinality(T) <= Limit}
    IN  {Ids(q) : q \in {r \in UNION {SetToSeqs(T) : T \in Taken} :
            /\ \A i \in DOMAIN r : Room(SubSeq(Ids(r), 1, i - 1), r[i][1])
            /\ \A x \in items \ ToSet(r) : ~Room(Ids(r), x[1])}}

\* A trending article after every EveryN articles of the feed, while there are any:
\* it has every place p that EveryN + 1 divides.
InjectTrending(feed, trending) ==
    LET n == Least(Len(trending), Len(feed) \div EveryN)
        Before(p) == p \div (EveryN + 1)
    IN  [p \in 1..(Len(feed) + n) |->
            IF p % (EveryN + 1) = 0 /\ Before(p) <= n
            THEN trending[Before(p)] ELSE feed[p - Least(Before(p), n)]]

-----------------------------------------------------------------------------
(* get_feed *)

Candidates(before, p) ==
    {a \in present \ seen : PublishedAt(a) < before /\ (p = All \/ Pillar(a) = p)}

\* What the re-ranker is given, as items <<article, copy>>.  score_articles keeps
\* limit * 3 of the candidates (the feed of a user without topics keeps them all).  Its
\* exploration appends candidates without the score that those already scored have,
\* so that `not in` finds all of them absent: copies, cut off at limit * 3, which fail the
\* call if they reach its page (Record).
Scorings(candidates) ==
    LET most == 3 * Limit
        n == Cardinality(candidates)
        copies == {IF n < most THEN Least(m, Least(n, most - n)) ELSE 0 : m \in ExploreN}
        Scored == {S \in SUBSET candidates : S = candidates \/ Cardinality(S) = most}
        Explored == {E \in SUBSET candidates : Cardinality(E) \in copies}
    IN  {(S \X {0}) \cup (E \X {1}) : S \in Scored, E \in Explored}

\* The pages that may come of what the re-ranker is given, with the rows of the trending
\* query in some order.
Pages(items) ==
    UNION {{PageOf(InjectTrending(feed, trending)) :
              trending \in SetToSeqs((Trending \cap present) \ ToSet(feed))} :
           feed \in Rerank(items)}

\* The time of the last article of the page.
NextCursor_Last(page) == PublishedAt(Last(page))

\* oldest_dt
NextCursor(page) ==
    CHOOSE d \in 1..Latest :
        /\ \E k \in DOMAIN page : PublishedAt(page[k]) = d
        /\ \A k \in DOMAIN page : PublishedAt(page[k]) >= d

\* get_feed up to the impressions: it reads the candidates and makes the page.
Pick(c) ==
    /\ ~public /\ calls[c].at = "asked"
    /\ UNCHANGED <<database, position, current>>
    /\ LET candidates == Candidates(calls[c].before, calls[c].pillar) IN
         IF candidates = {}
         THEN calls' = [calls EXCEPT ![c].at = "answered"]
         ELSE \E items \in Scorings(candidates) : \E page \in Pages(items) :
                calls' = [calls EXCEPT ![c].at = "picked", ![c].page = page,
                                       ![c].next = NextCursor(page),
                                       ![c].new = ToSet(page) \ seen]

\* The impressions are not merged.
Record_NotSeen(c) ==
    /\ calls[c].at = "picked"
    /\ calls' = [calls EXCEPT ![c].at = "answered"]
    /\ served' = [a \in Articles |-> IF a \in calls[c].new THEN Least(Many, served[a] + 1)
                                                             ELSE served[a]]
    /\ UNCHANGED <<present, seen, position, current>>

\* The articles that a page has in two places.
Twice(page) ==
    {page[i] : i \in {j \in DOMAIN page : \E k \in 1..(j - 1) : page[k] = page[j]}}

\* Two impressions of one article are to be inserted: the session does not flush between
\* the merges (autoflush=False, db/session.py:49), so the second does not find the first.
Doubled(c) == calls[c].at = "picked" /\ ~(Twice(calls[c].page) \subseteq seen)

\* The impressions are merged and committed.  A row that merge finds is left; the COMMIT
\* fails, and with it the call, when one article is to be inserted twice, or when another
\* call has inserted an article that merge did not find.
Record(c) ==
    /\ calls[c].at = "picked"
    /\ \/ /\ ~Doubled(c)
          /\ calls' = [calls EXCEPT ![c].at = "answered"]
          /\ seen' = seen \cup ToSet(calls[c].page)
          /\ served' = [a \in Articles |-> IF a \in calls[c].new THEN Least(Many, served[a] + 1)
                                                                   ELSE served[a]]
       \/ /\ Doubled(c) \/ calls[c].new \cap seen # {}
          /\ calls' = [calls EXCEPT ![c].at = "failed"]
          /\ UNCHANGED <<seen, served>>
    /\ UNCHANGED <<present, position, current>>

\* list_articles
List(c) ==
    /\ public /\ calls[c].at = "asked"
    /\ \E rows \in Listings(present, calls[c].before, calls[c].pillar) :
         calls' = [calls EXCEPT ![c].at = "answered", ![c].page = PageOf(rows),
                                ![c].next = NextOf(rows)]
    /\ UNCHANGED <<database, position, current>>

\* A call that nobody awaits is over, or has never reached the API.
Forget(c) ==
    /\ c # current
    /\ calls[c].at \in {"asked", "answered", "failed"}
    /\ calls' = [calls EXCEPT ![c] = NoCall]
    /\ UNCHANGED <<database, position, current>>

\* The ingestion stores an article, whose date need not be the latest.
Publish(a) ==
    /\ a \in Ingestible(public) \ present
    /\ present' = present \cup {a}
    /\ UNCHANGED <<seen, served, calls, position, current>>

-----------------------------------------------------------------------------
(* feed.js *)

\* A pillar selected while a page is loading is that of the pages to come, in the same
\* list: they bring what belongs to it, too.
StillDue(p) == IF exhausted THEN due ELSE Listable(due, Now, p)

\* load() does not look whether the feed is exhausted.
Load_Exhausted(reset, p) ==
    IF current # None
    THEN UNCHANGED <<cursor, list, current, calls>> /\ due' = StillDue(p)
    ELSE LET from == IF reset THEN Null ELSE cursor IN
         \E c \in Calls :
            /\ calls[c].at = "idle"
            /\ calls' = [calls EXCEPT ![c].at = "asked", ![c].pillar = p, ![c].reset = reset,
                                      ![c].before = IF from = Null THEN Now ELSE from]
            /\ current' = c
            /\ cursor' = from
            /\ list' = IF reset THEN {} ELSE list
            /\ due' = IF public /\ from = Null THEN Listable(present, Now, p) ELSE due

\* load(reset), with the pillar that is selected.  While a page is loading, or after the
\* last one, it does nothing.
Load(reset, p) ==
    IF current # None \/ exhausted
    THEN UNCHANGED <<cursor, list, current, calls>> /\ due' = StillDue(p)
    ELSE LET from == IF reset THEN Null ELSE cursor IN
         \E c \in Calls :
            /\ calls[c].at = "idle"
            /\ calls' = [calls EXCEPT ![c].at = "asked", ![c].pillar = p, ![c].reset = reset,
                                      ![c].before = IF from = Null THEN Now ELSE from]
            /\ current' = c
            /\ cursor' = from
            /\ list' = IF reset THEN {} ELSE list
            /\ due' = IF public /\ from = Null THEN Listable(present, Now, p) ELSE due

\* The infinite scroll.
Scroll ==
    /\ current = None /\ ~exhausted
    /\ Load(FALSE, pillar)
    /\ UNCHANGED <<database, public, pillar, exhausted>>

SetPillar(p) ==
    /\ pillar' = p
    /\ Load(TRUE, p)
    /\ UNCHANGED <<database, public, exhausted>>

\* The user opens the feed again, whatever is in progress.
Open ==
    /\ pillar' = All /\ cursor' = Null /\ exhausted' = FALSE
    /\ current' = None /\ list' = {} /\ due' = {}
    /\ UNCHANGED <<database, calls, public>>

\* An empty page is not the end.
Shown_GoesOn(page, next) ==
    /\ cursor' = IF page = <<>> THEN cursor ELSE next
    /\ UNCHANGED exhausted

\* What load() makes of a page: one that is empty, or has no cursor, is the last.
Shown(page, next) ==
    IF page = <<>>
    THEN exhausted' = TRUE /\ UNCHANGED cursor
    ELSE cursor' = next /\ exhausted' = (next = Null)

Render(c) ==
    /\ c = current /\ calls[c].at = "answered"
    /\ calls' = [calls EXCEPT ![c] = NoCall]
    /\ current' = None
    /\ list' = (IF calls[c].reset THEN {} ELSE list) \cup ToSet(calls[c].page)
    /\ Shown(calls[c].page, calls[c].next)
    /\ UNCHANGED <<database, public, pillar, due>>

\* The call fails.
Fail(c) ==
    /\ c = current
    /\ calls[c].at = "failed"
    /\ current' = None
    /\ UNCHANGED <<database, calls, position>>

\* The connection is lost, and the call goes on without the page.
Lose(c) ==
    /\ c = current
    /\ calls[c].at # "failed"
    /\ current' = None
    /\ UNCHANGED <<database, calls, position>>

-----------------------------------------------------------------------------

Scrolling ==
    \/ Scroll
    \/ \E c \in Calls : Pick(c) \/ List(c) \/ Record(c) \/ Forget(c) \/ Render(c) \/ Fail(c)

\* What else the user does, and what happens to the connection.
Disturbed ==
    \/ Open
    \/ \E p \in Choosable : SetPillar(p)
    \/ \E c \in Calls : Lose(c)

Next == Scrolling \/ Disturbed \/ \E a \in Articles : Publish(a)

Spec == Init /\ [][Next]_vars

\* Neither the user's scrolling nor the calls come to a standstill.
FairSpec == Spec /\ WF_vars(Scrolling)

-----------------------------------------------------------------------------
(* Properties *)

\* An article is put on a page as new to the user only by calls that were in progress
\* together, whatever is lost, reset or opened again: get_feed records the impressions
\* before it answers, so one call alone gives it once.
ServedBounded == \A a \in Articles : served[a] <= Cardinality(Calls)

\* What is displayed is recorded: a call that lost the race for an impression, or has an
\* article twice, gives no page, and one that finds the impression there does.
DisplayedIsSeen == ~public => list \subseteq seen

\* The invariant of the impressions: they come between the page and its display.
FeedInv == TypeOK /\ ServedBounded /\ DisplayedIsSeen

\* Articles of one source and of one topic on a page, those injected as trending
\* left out, never exceed the caps of mmr.py.
CapsKept ==
    ~public => \A c \in Calls, a \in Articles :
        LET page == calls[c].page
            ranked == {i \in DOMAIN page : page[i] \notin Trending}
        IN  /\ Cardinality(ranked \cap OfSource(page, Source(a))) <= MaxPerSource
            /\ Cardinality(ranked \cap OfTopic(page, Topic(a))) <= MaxPerTopic

\* Page by page the cursor goes back in time, whatever trending articles and
\* whatever order the pages have; only a reset of load() takes it to the present.
CursorDescends ==
    [][cursor # Null /\ cursor' # Null => cursor' < cursor]_cursor

\* js/feed.js:140 falls back to the public list.  At its end every article there was
\* at its beginning, of every pillar that was selected since, has been listed, although
\* others are stored meanwhile, and pages are lost; only an article with the date of
\* another may be missing (`<` in articles.py:164 passes over those that share the date of
\* the last one of a page).
ListedWhole ==
    public /\ exhausted =>
        \A a \in due \ list : \E b \in present \ {a} : PublishedAt(b) = PublishedAt(a)

\* No page repeats what the list already has, a page that was lost and asked for again
\* included.
ListedOnce ==
    \A c \in Calls :
        public /\ c = current /\ calls[c].at = "answered" /\ ~calls[c].reset =>
            ToSet(calls[c].page) \cap list = {}

\* The public list is every article once.
ListedWell == ListedWhole /\ ListedOnce

\* js/app.js:199 loads page after page.  A user who, at last, does nothing but scroll, on a
\* connection that holds, reaches the end of the feed and stays there, if the pages do not
\* go on having articles twice.  (In the cold start they may do so for ever: the copy that
\* the exploration makes of the last article, scorer.py:112, fails every call.)
ScrollEnds ==
    /\ <>[][~Disturbed]_vars
    /\ <>[](\A c \in Calls : ~Doubled(c))
    => <>[]exhausted
===============================================================================
