# SherrByte: specifications, model checks and proofs

This directory models the parts of SherrByte where things happen at the same
time, fail half-way or arrive out of order: sign-in and refresh tokens, the
browser's side of them, its screens and what the reader does there, RSS
ingestion, AI enrichment, the interaction events, the feed and the public list,
onboarding with the weights made of it, and the programs that make and fill the
database. It holds TLA+ modules, the configurations that check
them with TLC, and proofs that TLAPS checks: about the sessions on both sides and
their abstract specification, the event pipeline, the ingestion, the enrichment, the
onboarding and the screens.
Paths below are relative to the repository.

    tlc -config auth_overlap.cfg MCAuthSessions.tla      # one run
    tlapm AuthSessionsProofs.tla                         # the proofs

## 1. Inventory

The repository holds the API (`app/`), a later revision of its personalisation
(`phase-e-only/`), workers started by GitHub Actions, and a static front end
(`sherrbyte-frontend/`).

| component | state it keeps | operations | interacts with |
|---|---|---|---|
| Authentication and sessions (`app/services/auth_service.py`, `app/repos/user_repo.py`, `app/deps.py`) | `users`, `sessions` | register, login, refresh, logout | called by the browser; one transaction per request |
| Browser session (`js/api.js`, `js/app.js`) | `localStorage`, `_access`, `_refresh`, `_refreshing` | save, refresh, retry, clear | refresh endpoint; tabs share `localStorage` |
| Interaction tracker (`js/events.js`) | `_queue`, `_timer` | push, flush | POST `/v1/interactions`; reads the browser session |
| Event ingestion and drain (`phase-e-only/app/services/event_buffer.py`, `workers/event_drain.py`) | Redis stream and group, `user_interactions` | publish, read, insert, acknowledge | the tracker's batches; Redis, PostgreSQL |
| RSS ingestion (`app/services/ingestion_service.py`, `app/repos/article_repo.py`) | `articles`, `sources`, `recent_simhashes` | run, source, item | publishers' sites; PostgreSQL |
| AI enrichment (`app/services/ai_service.py`, `llm_router.py`, `app/repos/ai_repo.py`) | `article_ai`, `article_embeddings`, `article_tags`, Redis cache | batch, article | Gemini, Groq, encoder; reads `articles` |
| Personalised feed (`phase-e-only/app/api/v1/endpoints/feed.py`, `services/mmr.py`, `scorer.py`) | `feed_impressions` | get_feed | reads `articles`, affinities |
| Feed page (`js/feed.js`) | `_pillar`, `_cursor`, `_loading`, `_exhausted`, `_saved`, `_hidden` | load, setPillar, scroll, render, save, hide | the feed endpoint, or the public list; `localStorage`; the tracker |
| Screens of the browser (`js/app.js`) | the screen, `_selectedTopics`, `_dwellArticleId` | boot, log in, register, choose topics, enter the feed, open and close an article | browser session, feed page, onboarding, tracker |
| Public article listing (`app/api/v1/articles.py`) | none | list_articles, get_taxonomy | reads `articles`, `pillars`, `microtopics` |
| Onboarding (`onboarding.py`) | `onboarding_state` | status, topics, source-optout | affinities |
| Affinity, profile vectors (`phase-e-only/app/services/affinity.py`, `profile_vectors.py`) | `user_topic_affinity`, `user_profile_vectors` | seed, recompute, update | events, onboarding, feed |
| Migrations (`migrations/`, `phase-e-only/migrations/`) | the tables, `alembic_version` | upgrade head, downgrade -1 | everything that uses a table |
| Seeds (`app/workers/*_seed.py`, `seed_*.py`) | `pillars`, `microtopics`, `sources` | upsert an edition | read by taxonomy, onboarding, ingestion, enrichment |
| ALS training, service worker, health, logging, configuration, tests | vectors nothing reads, files | | pure input and output, or constants |

What is hard, and what makes each part correct:

* **Sessions.** Every `await` on the database lets other requests run; locks
  and the commit at the end of `get_session` decide. An exchanged token must be
  revoked, sessions must stay with their account, an e-mail must have one
  account, a logout must stick, nobody may wait for ever.
* **Browser.** Many calls get a 401 at once; replies are lost; tabs share
  storage but not memory. A revoked token must not be presented, the session
  must not be forgotten without cause, every call must end.
* **Events.** Queue, request, stream, worker and table each take over from the
  one before, and each can fail in between. No event stored twice, none
  forgotten unseen, all stored in the end.
* **Ingestion.** Two levels of tasks on one database session, three layers of
  deduplication whose checks are far from the insert, overlapping and killed
  runs. No url twice, all of a run or nothing, an end.
* **Enrichment.** A cache written after each answer beside a transaction that commits at
  the end, an exception handler inside the transaction, two providers. The LLM
  is asked once, the outputs of an article belong together, an answer that can
  be stored gets stored.
* **Feed.** A page is made from what was unseen, and records it as seen later;
  the cursor is a date, the order is not. No article offered more often than
  calls overlap, caps kept, the cursor goes back, the public list is whole and lists
  nothing twice, scrolling ends.
* **Screens.** Handlers await in the middle of what they show; a session may end
  under any of them; timers, observers, dwell entries and the set of topics outlive
  the screen they belong to. Screens belong to a session, reading times are of one
  stay, hidden articles stay hidden, topics are sent once.
* **Onboarding and affinity.** Handlers commit in several steps, and everything
  is read, changed and written back beside a nightly job that does the same.
  What was confirmed is weighted, what was saved is kept, a stale score does not
  last.
* **Database.** Migrations of two trees and seeds run whenever somebody starts
  them; only PostgreSQL's locks, unique indexes and the version row stand between
  two of them. The version tells the truth, slugs are unique, seeds are whole,
  nothing hangs.

`PROJECT.json` lists the hazards at their lines and the properties for them.

### Two copies of the personalisation code

`app/` holds condensed copies of several files of `phase-e-only/app/`. The event
pipeline and the feed are modelled from `phase-e-only/`, which is
self-consistent. The copies are not: `app/workers/event_drain.py` is a stub,
`app/models/interactions.py` lacks `UserProfileVector` and `UserTopicAffinity`,
which `app/services/scorer.py` imports, and its `FeedImpression` has no unique
key. Other things a reader of that code will meet: `_side_effects` of
`event_drain.py` is called by nothing, so events never update affinities or
vectors; the feed query names `articles.pillar_id` and the affinity query
`articles.micro_topic`, columns that no migration creates (the feed model
supposes a database that has the former).

## 2. Modules

| module | models | specification |
|---|---|---|
| `RefreshTokens` | what the session table promises: grant, exchange, revoke | abstract |
| `AuthSessions` | auth_service, user_repo, get_session | detailed; implements `RefreshTokens` |
| `ClientSession` | js/api.js in several tabs | uses `RefreshTokens` as its server |
| `Delivery` | what the way from the API to the table promises: accept, deliver | abstract |
| `EventPipeline` | events.js, POST /v1/interactions, stream, drain workers | composed; implements `Delivery` |
| `Ingestion` | run_ingestion, ingest_one_source, _process_item | |
| `Enrichment` | enrich_batch, enrich_article, complete_json | |
| `ArticleListing` | list_articles: the rows, the page, the cursor | operators |
| `FeedPaging` | get_feed, mmr.py, exploration of scorer.py, feed.js; `ArticleListing` | composed |
| `Onboarding` | onboarding.py, affinity.py, profile_vectors.py, the nightly worker | composed |
| `Reading` | cards, marks, menu, overlay and dwell time of a tab | part of `AppShell` |
| `AppShell` | app.js and the loading of feed.js around `Reading` | composed |
| `Database` | migrations of both trees, seeds, get_taxonomy | |
| `MC...` | values for the constants of each | |
| `AuthSessionsProofs`, `ClientSessionProofs`, `EventPipelineProofs`, `IngestionProofs`, `EnrichmentProofs`, `FeedPagingProofs`, `AppShellProofs` (with the theorems of `Onboarding`), `DatabaseProofs` | theorems | |

Definitions named `<definition>_<what is wrong>` are slips the code could
make. No action uses them; each shows, put in place of its definition, that a
property would notice the slip.

### RefreshTokens

A token is `unused`, `live` or `revoked`; `parent` records exchanges. The
constant `SingleUse` chooses between the promise of the docstrings (an exchange
needs a live token) and what the code keeps when requests overlap (an exchange
needs a token that was granted, and leaves it revoked).

### AuthSessions

Committed rows are `account`, `owner` and `revoked`; `revoking` and `minted` are a
request's uncommitted writes, and with `HoldsAccount` its row locks. `pc[r]` is
the next statement of request `r`: the action names are the handler and the
statement (`RefreshLookup` is `get_by_refresh_hash` and the branches after
it). A SELECT reads committed rows (READ COMMITTED). `RevokeRows` is the
`UPDATE sessions ... WHERE revoked_at IS NULL`: it waits for the holders of its
rows, then leaves out what is revoked by now, and does not tell the caller. In
the model `revoke_all_for_user` takes its rows in one step; PostgreSQL takes
them one by one in the order of its scan. Two of them for one user whose scans
differ could deadlock; PostgreSQL then fails one, which is an `Abort`. Every
other request holds at most one session row and waits for no other meanwhile.
`Commit`, `Rollback` and `Abort` end a transaction; `Reply` may lose the
response. `parent` is history.

`ReplyFirst` says whether the response leaves before `get_session` commits.
`pyproject.toml:11` asks for `fastapi>=0.115.0`; up to 0.117 the exit code of a
dependency with `yield` runs before the response is sent, from 0.118 after it.
The runs and theorems say which order they are about.

Left out: password hashing, JWT claims, rate limits and user agents. They
decide only whether a request raises, which every lookup may.

### ClientSession

A token pair is one element of `Pairs`. `held` is `_access`/`_refresh` of a tab,
`stored` is `localStorage`, `refreshing` the promise `_refreshing`. What runs
between two awaits is one action; calls that await one promise go on together.
The server is `RefreshTokens` with `SingleUse`, one request at a time, so that
what this module finds is due to the browser alone. Any reply may be lost and the
page may be reloaded at any time; the history variables `lost` and `cut` say
whether that has happened, and the properties say what holds until it does.
`js/api.js` declares `API_URL` (line 8) and uses `BASE` (48, 67); the model takes
them for one address. The user interface never calls `API.logout`.

### Delivery and EventPipeline

`Delivery` has no streams, groups, batches or workers: an event is accepted once, waits,
and gets its one row or is given up when the stream is full. `EventPipeline` maps what was
published to `accepted`, what is on the stream, pending or read and not committed to
`waiting`, and what MAXLEN dropped before it was read to `lost`.

The pipeline has four stages and their failures: `queue`/`timer` of events.js; `posts` on their
way; the stream as `backlog` (not delivered), `kept` (delivered, still held)
and `pending`; workers with `pc` and `batch`; the table `stored`. `Fault` counts
failures of Redis, PostgreSQL and workers, each at any point, with the work
done or not. `MAXLEN ~` may trim up to the excess, or less. `Invalid` events fail
validation (422 for the batch); `Unstorable` ones have no partition
(`0005_phase_e_interactions.py` creates three months, and `interacted_at` is
the browser's clock).

### Ingestion

`source[r][s]` and `task[r][i]` are the asyncio tasks, each action goes from one
await to the next. All tasks use one session, which executes one statement at a
time: `stmt[r]` is the row it waits for. `Visible` is what a statement of the run
sees. `Raise` ends a run with all its tasks, because `gather` raises and
`session_scope` rolls back. Of an article the model keeps what the layers of
deduplication compare: `Url`, `Text` (normalised) and `Story` (near-duplicates).
`SimhashColumn` is the type of the column `articles.simhash`: `app/models/article.py`
and `migrations/versions/0002_sources_articles.py` disagree about it.

### Enrichment

`step[b]` is where a batch is, `queue[b]` the articles it has still to take, newest
first by `Published`, `current[b]` the one it is about, `wrote[b]` its uncommitted rows,
`aborted[b]` whether PostgreSQL has aborted its transaction. `Newest` leaves open what
ORDER BY and LIMIT leave open among articles of one date. The cache is
outside the transaction. An answer is "good", "skip" (Python raises when it is
stored), "abort" (PostgreSQL refuses it) or "none" (JSON null, which is no `ai_data`, and
a miss when it is read from the cache); "good" answers are taken to have a
summary. `Answered` is the answer of a provider and `CacheAnswer` the SET of Redis that
`enrich_article` awaits after it: a batch may be killed between the two. `Gemini` and `Groq` are what the providers may do. Redis and the encoder may fail
at any call, and a batch may start while another runs: the history variable
`mishaps` remembers which of these has happened, and each property names those it
does not survive. Of kills it remembers only those between an answer and its caching
("unsaved"). `asked` counts the answers received for a text, null left out. A connection error of
Gemini that outlasts its retry is not among the exceptions `complete_json`
catches, so Groq is not asked then. `replace_tags` is only called when a
microtopic is close enough: otherwise old tags stay. The matrix of glosses is
taken to be built (`ai_service.py:83` guards it for the process, not for the
batch).

### FeedPaging

`calls` are the calls of `get_feed` in progress: `Pick` reads candidates and makes
the page, `Record` writes the impressions. (`Pick` is the time of `score_articles`, which
reads the impressions a second time and leaves out what another call has recorded since
the first.) `current` is the call `load()` awaits; of what is displayed the model keeps the
set (`list`). Scores, vectors and the random term decide orders, which the model leaves
open: a property of a page holds for every order. `Pages` are the pages that can come of some candidates: `Scorings` (what
`score_articles` keeps and explores), `Rerank`, the cut, `InjectTrending`, the cut again.
`Rerank` and `InjectTrending` say what the loops of `mmr.py` make (a feed whose articles
had room when they were added, and whose others have none; a trending article at every
place that `EveryN` + 1 divides), so that they can be proved about. `RerankLoop` and `InjectLoop` are
the loops themselves; `MCFeedPaging` assumes that they give the same for every order of
four articles and for two copies, and TLC evaluates that in every run. `ExploreN` are the
values `explore_n` may have, 0 being that of a reader past the cold start or without topics;
which of them a call meets is left open. `a not in scored` compares dictionaries of which one has a key more,
so that exploration appends copies of what is there already. A page that has an article
twice (`Twice`) makes two objects of one primary key, because the session does not flush
between the merges (`autoflush=False`, `db/session.py:49`): the COMMIT fails, and the call
with it (`Doubled`). A micro-topic is the
article's language in this code, so the topic cap is three articles per language.
The database has the columns the query names. `served` counts the pages that had
an article as a new one, up to `Many`, one more than the property allows.

A user who is not onboarded (`public`) is given pages of `ArticleListing` by the same
`load()`. `Listings` are the orders of the rows the query may return: all that
ORDER BY allows, since `published_at` is not unique. `due` is what there was to list
when the list was emptied, of every pillar that was selected since (`StillDue`). The
front end uses neither the filter by source nor the one by language, and never calls
`get_article` or `list_sources`.

### Onboarding

The rows of one reader in `onboarding_state`, `user_topic_affinity` and
`user_profile_vectors`, and requests that go through the handlers statement by
statement. `ob[r]` and `got[r]` are what a request has read into its session; at
the commit SQLAlchemy sends the attributes that differ from it (`WriteState`,
`SeedRows`), and an INSERT of a row that exists meanwhile fails (`CreateState`,
`SeedSave`). The nightly job reads interactions (`raw`), then row by row what
there is (`seen`), then commits. Scores are integers, hundredths of the code's: 60 is
0.6 * explicit_weight. `Signals` are what the sigmoid may give. `acked`, `last`,
`slips` and `failed` are history: what was confirmed, what was saved last, and
whether requests, or a request and the job, have overlapped.

The profile vector is that of `app/services/profile_vectors.py`. The one of
`phase-e-only/` asks for `INTERVAL ':days days'`, a parameter inside a literal, which
asyncpg refuses: there the job's turn always ends like `JobBreak`. `update_short_term` is called
by nothing.

### Reading and AppShell

`Reading` is what a reader does with the cards: open, close, save, hide. `dwell[a]`
is the tracker's entry of an article: "read" while the article has been on the
screen since `startDwell`, "left" once it has not; `stray` says that an event was
pushed for one that was "left". `timers` are closings that have not hidden the
overlay yet. `wanted` is what the reader marked, to be compared with `_saved`,
`_hidden` and `localStorage`.

`AppShell` extends it with the rest of `js/app.js`. `phase[h]` is what handler `h`
awaits (the start, a form, a submission of topics); between two awaits a handler
is one action. A call succeeds, fails, or is denied, which forgets the session and
fires `sb:logout`. `picked` is `_selectedTopics`, `marked` what the chips look like,
`enabled` the button. `mishaps` is history: login and registration overlapped, or a
chip was clicked during a submission. `MaxBusy` bounds the handlers in progress. One tab:
`localStorage` is shared with other tabs, which overwrite each other's marks.

### Database

A program is one transaction: `migrations/env.py` opens one for all revisions that an
upgrade or a downgrade runs. `script[t]` is the lists of statements of a migration, one per
revision with its stamp at the end, and `at[t]` the list and the place in it; `Onward` goes
to the next place. A seed goes through its edition entry by entry: `Upsert` reads the
row of a key, then writes it, and a topic whose pillar there is none of is passed over
(`PassOver`). `get_taxonomy` is its two SELECTs.
`Needs` are the locks of a statement and `Waits` says whom it waits for: a lock
that conflicts, a table of the same name being created, the version row, a row
being written. A statement takes its locks at once and a transaction keeps them, so
that the deadlocks of the model are between statements; PostgreSQL takes those of one DROP
TABLE one after another, and could also find a deadlock within it, which ends like these.
`Deadlock` fails one of two that wait for each other, `Crash` ends
a program anywhere. Of a row the model keeps its slug, its pillar and a text;
`Merged` sends what differs from what was read, as the ORM does. Columns are left
out, and indexes except the CREATE INDEX statements of 0005, which lock a table
that may be older than the transaction. There is no revision 4: 0005 follows 0003.
`due`, `broken`, `twice` and `applied` are history.

## 3. Runs

Each run asks one question of a component, and its properties are the parts of
the answer. Where the code keeps a promise only as long as something has not
happened, the instance lets it happen and the property says so, instead of a
run that rules it out. A "finding" run checks a statement of a docstring or another
text of the repository, and ends with a behaviour of the code that contradicts it.

| run | instance | shows |
|---|---|---|
| `auth_overlap` | 2 accounts, 4 tokens, 2 requests | `TypeOK`, `ExchangedIsRevoked`, `FanOutBounded`, `ClientsServed`, `AccountsKept`, with everything that may overlap, abort, expire, be lost or disabled |
| `auth_progress` | 1 account, 3 tokens, 2 requests, replies before commits, fair | `RequestsEnd`; `ImplementsTokens`, the refinement without single use |
| finding `auth_reuse` | 1 account, 3 tokens, 1 request | `ReuseRevokesAll` fails: the revocation of all sessions on reuse is rolled back by the 401 that follows it |
| `client_tab` | 1 tab, 2 calls, 4 pairs, lost replies, reloads, fair | `ClientInv`, `ForgottenForCause`, `CallsEnd` |
| `app_shell` | 1 tab, 2 articles of which one may be marked, 1 topic, 2 forms, 2 submissions, 2 handlers at once, 1 closing timer | `ShellInv`, `ReadingInv`, `TopicsSent`, `HiddenStaysHidden` |
| `events_drain` | 4 events (1 invalid, 1 without partition), a continuous and a cron worker, stream of 3, 2 faults, fair | `EventsInv`, `AtMostOnce`, `PublishedSettles`; `ImplementsDelivery`, the refinement |
| `ingest_overlap` | 3 items, 2 sources, 2 runs (one mortal), fair | `IngestionInv`, `UrlStoredOnce`, `AllOrNothing`, `RunsEnd` |
| `enrich_batches` | 2 articles with one text, 2 mortal batches, answers of every kind, failing providers, Redis and encoder | `EnrichmentInv`, `AskedOnce`, `TagsHaveTheirSource` |
| `enrich_progress` | 3 articles, 1 batch at a time, fair; one article is always skipped, Gemini refuses | `GoodIsEnriched` |
| `feed_pages` | 4 articles (3 for the personal feed), two of one date, pages of 3, caps of 2, explorations of 0 and 1, 2 calls, 1 trending article, 1 pillar, fair | `FeedInv`, `CapsKept`, `ListedWell`, `CursorDescends`, `ScrollEnds` |
| `onboarding` | 2 topics of which one is in the taxonomy, 1 source, 2 requests, the job, vectors of few or many articles | `OnboardingInv`, `RequestsInTurn`, `StaysComplete`, `RanksSettle` |
| `database` | 2 programs at a time, both trees, editions of the seeds: a first one, a second one with a topic moved and a topic of no pillar, one of sources; fair | `SchemaInv`, `AloneNotRefused`, `SeededOnce`, `EditionApplied`, `ProgramsEnd` |

Some invariants have several parts, each named in its module, and each with a slip that
shows it can fail:

| invariant | parts |
|---|---|
| `ClientsServed` | `KnownIsStored`, `LogoutIsFinal` |
| `AccountsKept` | `ChainKeepsAccount`, `EmailTakenOnce` |
| `ClientInv` | `TypeOK`, `NeverPresentedTwice` |
| `ShellInv` | `TypeOK`, `SessionOnScreen`, `OverlayOverFeed` |
| `ReadingInv` | `DwellIsRead`, `MarksKept` |
| `TopicsSent` | `MarkedIsPicked`, `OneSubmission` |
| `EventsInv` | `TypeOK`, `NothingVanishes` |
| `AtMostOnce` | `OneCopy`, `StoredOnce` |
| `IngestionInv` | `TypeOK`, `CopiesBounded` |
| `EnrichmentInv` | `TypeOK`, `EmbeddedWithAnswer`, `SummaryIsEmbedded` |
| `FeedInv` | `TypeOK`, `DisplayedIsSeen`, `ServedBounded` |
| `ListedWell` | `ListedWhole`, `ListedOnce` |
| `OnboardingInv` | `OnboardingTypeOK`, `AcknowledgedIsWeighted`, `ChosenRanksHigh` |
| `RequestsInTurn` | `SelectionsKept`, `AloneSucceeds` |
| `SchemaInv` | `TypeOK`, `VersionIsThere`, `NothingBeyondVersion` |
| `SeededOnce` | `SlugOnce`, `SeededWhole` |

Why the bounds are enough:

* *Sessions.* Two requests are enough for every pairwise race, and the fan-out
  bound is stated in terms of `Requests`. Three tokens give a chain of two
  exchanges, or two successors of one token; four give both. What these runs check
  on two requests the theorems of section 6 show for any number, except
  `RequestsEnd`. `KnownIsStored` and `LogoutIsFinal` need the
  commit before the reply, `ImplementsTokens` does not: hence the two values of
  `ReplyFirst`.
* *Browser.* Two calls share a refresh and may straddle its end; four pairs are
  three refreshes in a row.
* *Screens.* Any two handlers may overlap, submissions with themselves; one more
  would only repeat the overlap of two. Two articles are needed for a dwell entry
  that outlives its article while another is read. With one topic and
  `MinTopics` = 1 the button is enabled by a choice and disabled by taking it back,
  which is what the properties need of the five of the code.
* *Events.* Batches of two and a stream of three make the second batch overflow
  the stream and leave a partial batch in the queue; two faults can hit one batch
  twice, or the tracker and a worker.
* *Ingestion.* The items of the two sources share a url, so runs can wait for each
  other and deadlock; all have one text, so that layers 2 and 3 decide; `MaxSources`
  is 2, so that sources overlap, and `MaxItems` is 1, so that an item waits for its
  place. A run that meets recent articles raises in layer 3 (see section 4),
  which gives `AllOrNothing` its failures beside the kills.
* *Enrichment.* Articles that share a text share a cache entry, which is where
  batches meet besides the rows; `enrich_progress` has more articles than a batch
  takes.
* *Feed.* Two of the three articles have one source and two one topic, so that a copy is
  one more than either cap allows, and the newest is trending: a page depends on those
  before it, and an injected article may be newer than the cursor. The public list has a
  fourth article with the date of the third, so that a page may end between the two, an
  article with two pillars and one without any, so that a pillar selected while a page
  loads makes a list of two. Any call may explore or not (`ExploreN`): pages with and without an
  article twice are made, and the first are refused. `ScrollEnds` has as its premise
  that pages do not go on having articles twice; without the premise it fails (section 4).
* *Onboarding.* Two requests and the job are three writers of one row. One topic can
  be chosen, and a topic that is not in the taxonomy makes a request that is refused;
  every pair of a topic and a reader has a row of its own, so that a second one adds
  interleavings and no conflicts. One value of the signal is
  enough: whether a score is stale is a question of what it was made from.
* *Database.* Conflicts of locks, names and rows are between two programs, and two at a
  time find what can go wrong, with one exception: the tables of 0005, of
  which `VersionIsThere` says something for two programs at a time only (section 4). The
  theorems are about any number of programs. The editions have the cases the upserts tell apart: a new row, an equal one,
  one whose pillar moves, one that is left out. The version may go up and down any number of
  times.

### Deadlock

TLC checks for deadlock in the runs of `AuthSessions`, `EventPipeline`, `AppShell`,
`Onboarding` and `Database`. The others say `CHECK_DEADLOCK FALSE` because their
instances really may stop: tokens or pairs are used up, every run of the workflow
has been used, every article is enriched, the feed is exhausted.

## 4. Differences met while modelling

One finding is in `PROJECT.json`, with its run: reuse of a refresh token revokes no
session, because the 401 rolls the UPDATE back (`auth_reuse`).

These statements do not hold either; the models contain the behaviour, the properties above are worded so
that they say what remains true, and no run is kept for them. The last column
says what to change to see it.

| statement | what the code does | to see it |
|---|---|---|
| "Refresh tokens are single-use. Each refresh issues a new one and revokes the old." (`auth_service.py:4`) | two refreshes that overlap read `revoked_at` as NULL and both issue a token: `SessionRepo.revoke` does not say whether it changed a row (`auth_service.py:137`) | `auth_overlap`: state `FanOutBounded` with 1, or `Strong!Spec` |
| "Run as a continuous process on Fly.io OR via GitHub Actions cron" (`phase-e-only/app/workers/event_drain.py:3`) | `run_once` reads from a consumer group that only `run_continuous` creates: with cron alone nothing leaves the stream | `events_drain` with no `Continuous` worker |
| "Per-source isolation: one broken publisher doesn't kill the whole run." (`ingestion_service.py:5`) | all tasks share a transaction and `gather` raises what one insert raises (an author of more than 255 characters): all sources are rolled back | `ingest_overlap` with a `Broken` item: ask that only mortal runs fail |
| "DB write is async via drain worker" (`phase-e-only/app/api/v1/endpoints/interactions.py:3`) | a worker that fails after XREADGROUP leaves its entries pending, and every read asks for `>` only (`event_buffer.py:87`): they are never stored | `events_drain`: state `PublishedSettles` with stored rows only |
| "Push interaction events onto the Redis stream. Returns accepted count." (`event_buffer.py:34`) | the count is of what was queued in the pipeline, and is returned from the `except` branch too | |
| "flushes to /v1/interactions every 5s" (`js/events.js:2`) | `_flush` clears the timer and takes at most 50 events; the rest waits for the next push | |
| "Add to in-memory simhash set so later items in the same run also dedup" (`ingestion_service.py:175`) | items between the hash check and the insert do not see each other: one run stores a text twice | `ingest_overlap` with `MaxItems = 2`: ask that a run stores a text once |
| "Return (id, simhash) pairs ... Used by the near-dup check." (`article_repo.py:119`) | the simhash comes back as a string and is XORed with an int: a run with recent articles raises `TypeError` at the first item that reaches layer 3 | `ingest_overlap`: ask that a committed table lets a run commit |
| "Stored in a BigInteger column" (`app/core/text.py:68`) | `0002_sources_articles.py:84` creates BIGINT, the insert binds a string, which asyncpg refuses | `SimhashColumn = "bigint"` |
| "Each article touches the LLM at most once." (`ai_service.py:10`) | two batches miss the cache together and both ask; a batch that is killed after the answer and before the SET of Redis has paid for an answer nobody has | `AskedOnce` without "overlap", or without "unsaved" |
| "Safe to run concurrently." (`ai_service.py:178`) | the batch without an answer overwrites the embedding of the summary by that of the title, for good | `SummaryIsEmbedded` without "overlap" |
| "Persist all three outputs." (`ai_service.py:8`) | when the encoder raises, the row of `article_ai` is committed alone, and the article is not taken again | `EmbeddedWithAnswer` without "encoder" |
| "newly-ingested articles get enriched promptly" (`enrich.yml:3`) | one answer that PostgreSQL refuses rolls back every batch it is in, and stays in the cache for 14 days | `enrich_progress` with an answer "abort" |
| "JWT auto-refresh" (`sherrbyte-frontend/README.md:80`) | each tab keeps what it read when it was loaded: the tab that refreshes second is refused and removes the tokens of the first | `client_tab` with two tabs |
| "deduplicate concurrent refresh attempts" (`js/api.js:42`) | a call that is refused after the refresh has ended starts another one, of a pair that is new | |
| "Fetch candidate articles from DB (unseen, ...)" (`phase-e-only/.../feed.py:5`) | two calls that overlap serve the same unseen article | `ServedBounded` with 1 |
| "so articles aren't repeated next page" (`feed.py:9`) | the trending query does not leave out what the user has seen | |
| "15% articles picked randomly for exploration" (`scorer.py:13`), "(no duplicates)" (`mmr.py:74`), "Infinite scroll" (`sherrbyte-frontend/README.md:74`) | exploration appends copies of articles that are scored already (`a not in scored` compares dictionaries of which one has a key more); a page with one fails the call at the COMMIT, and a reader in the cold start with one article left to read gets nothing else any more | `ScrollEnds` without its second premise |
| "Max 2 articles per source per page." (`mmr.py:7`) | trending articles are injected after the caps | `CapsKept` without its exception |
| "You're all caught up" (`index.html:129`) | what the caps left out is newer than the cursor and is on no later page | |
| "Pick at least 5 topics. Your feed will be built around these." (`index.html:82`) | `_selectedTopics` (`app.js:102`) is never cleared while the chips are made anew: after a logout the next reader sends the last one's topics, which are not shown, and which count towards the five | `app_shell`: state `MarkedIsPicked` as `marked = picked` |
| "Pillar nav filter" (`sherrbyte-frontend/README.md:78`) | `load` returns at once while a page is loading or after the end, also for `setPillar`, which has changed `_pillar` by then: the list goes on from its cursor with the other pillar | `ListedWhole` with `due` not narrowed by `StillDue` |
| "combined = 0.6 * explicit_weight + 0.4 * implicit_score" (`affinity.py:3`) | `seed_explicit_weights` writes max(combined, 0.6), and the job may write a score made from a row without the weight it meets at the commit | `ChosenRanksHigh` without "night" |
| `interaction_cnt` (`scorer.py:84`, cold start below 5) | the job sets it only when it makes the row, and nothing else that runs writes it: a reader whose first vector came from fewer articles stays cold | ask that a reader becomes warm |
| "Tracks: ... shares" (`events.js:3`) | the share button of the overlay passes no id (`app.js:335`): the event has no `article_id`, and its whole batch is answered with 422 | an `Invalid` event |
| "Safe to re-run" (`seed_taxonomy.py:5`, `seed.yml:5`) | two overlapping runs of different editions may leave a row with the pillar of one and the text of the other; a run over an older edition leaves slugs the new one dropped, and sets `active` again, which `sources_seed.py:4` says is toggled from the admin panel | `EditionApplied` for every run, not only those that were alone |

Other behaviour the models contain and no statement promises otherwise:

* *Screens.* `_selectedTopics` and the state of the Continue button outlive a logout,
  and a failed submission enables Continue for fewer than five topics once a chip
  was clicked meanwhile. A taxonomy that cannot be loaded leaves an empty grid, and
  no way on. A logout while two handlers are under way can leave the feed on the
  screen without a session: `SessionOnScreen` excludes overlaps. Pillar
  buttons and observers are made again at a second login, while `_exhausted` and
  `_loading` remain from the first. The "For You" button has no click handler. The timer of a
  closed overlay hides an article that was opened within 320 ms.
* *Marks.* `_hideArticle` removes the first card of an article only. Several tabs
  overwrite each other's `sb_saved` and `sb_hidden`.
* *Events.* What one reader has queued is sent with the token of the next. The tracker
  posts to `sherrbyte-api.fly.dev`, `js/api.js` to an address of `onrender.com`.
* *Lists.* `articles.py:164` compares with `<`: a page that ends between two articles of one
  date passes over the second (`ListedWhole` says which may be missing). Both
  endpoints encode their cursor alike, and each would accept that of the other; `load`
  keeps one cursor for both.
* *Onboarding.* Nothing under `app/` sets `users.onboarding_completed`.
* *Database.* 0005 says IF NOT EXISTS, and DROP TABLE IF EXISTS on the way down. That the
  tables of 0005 are there at version 5 holds for two migrations at a time, because the
  CREATE INDEX statements of the upgrade lock a table before the stamp, and because alembic
  counts the rows its stamp has matched. With three it does not hold: a
  downgrade that overlaps another passes over tables that are gone and drops the rest, so
  that some of them are left at version 3; an upgrade believes those without a lock on
  `user_profile_vectors` or `onboarding_state`, and a downgrade that is still open drops
  them. `VersionIsThere` therefore demands the tables of 0005 only where
  `Transactions` has at most two members, and all else for any number. Downgrades that overlap may leave version 3 with tables
  of 0005, which the next upgrade accepts. `get_taxonomy` is two
  statements, between which a seed may commit: a topic is then listed with pillar
  "unknown". A slug that an edition no longer has stays. `seed.yml` has no concurrency
  group. The main tree refuses a database that is at 0005.

## 5. Fairness

* `AuthSessions`: strong fairness of the next statement of a request. The event
  loop runs every ready coroutine, and PostgreSQL queues the waiters of a row,
  so a waiter is not passed over for ever. `Abort`, `Expire`, `Disable` and new
  requests are not fair.
* `ClientSession`: the server answers, the network delivers or fails, promises
  run on. Logins, calls, reloads and losses are not fair.
* `EventPipeline`: timers fire, requests are answered, workers take steps (one
  loops, cron starts the other every five minutes). Pushes, hidden pages and
  faults are not fair.
* `Ingestion`: some enabled step of a run is taken (event loop; PostgreSQL wakes
  waiters and breaks deadlocks). Starts and kills are not fair.
* `Enrichment`: cron starts batches for ever and a batch runs on; strong
  fairness of an answer for every article that goes on asking, when the
  providers may answer at all.
* `FeedPaging`: some enabled step of the scrolling, of a call or of its answer is
  taken (event loops of page and API). Everything else the user may do, and lost
  connections, are not fair, and `ScrollEnds` is about behaviours in which they
  stop. Publications stop because articles are finite: that is the bound.
* `Database`: strong fairness of the next statement, or of the failure by deadlock, of each
  open transaction: PostgreSQL queues waiters and detects deadlocks after a second. Starts
  and crashes are not fair.
* `Onboarding` states none. `RanksSettle` has its own premise: for a topic whose score the
  job goes on computing for ever (a reader who goes on reading about it), a score that a
  stale read spoilt is repaired in the end. `AppShell` has no liveness property.

## 6. Proofs

`AuthSessionsProofs`, for any users, tokens and requests. The only assumption on
constants is `AuthAssumption` (`None` is no user and no token, `ReplyFirst` is a
Boolean, and `Requests`, the requests served at once, are finitely many, which only
`FanOut` needs); `Tokens` may be infinite.

* `TypeCorrect`, `Exchanges`, `Emails`, `Chains`: the invariants `TypeOK`,
  `ExchangedIsRevoked`, `EmailTakenOnce` and `ChainKeepsAccount`, for both orders of
  reply and commit; `Accounts` joins the last two to `AccountsKept`.
* `Known`, `Logouts`: `KnownIsStored` and `LogoutIsFinal` when `ReplyFirst = FALSE`;
  `Clients` joins them to `ClientsServed`.
* `Implements`: `Spec => ImplementsTokens`, the refinement without single use.
* `SequentialImplements`: `Spec => ImplementsSingleUse` when there is one request
  at a time, which is what the docstring promises and overlap breaks. `UsedOnce`: then
  `Spec => []Strong!ExchangedOnce`, no two tokens are issued for one. No run checks these
  two: they are proved only.
* `FanOut`: `Spec => []FanOutBounded`, how far overlap may break it: a token has at
  most as many successors as requests are served at once, for both orders of reply and
  commit.

The argument. `ExchangedIsRevoked` is not inductive: that the commit of a refresh
revokes the presented token depends on what its UPDATE did several statements
before, and possibly did not do because another request had committed. `IInv`
adds what holds in between:

* `CallsOK`, which operation can be at which statement;
* `RowsOK`, a session that is not committed has no history;
* `MintedOK`, an uncommitted session is new and belongs to one request, which
  is about to end;
* `LocksOK`, an uncommitted revocation is of a committed and unrevoked row, and
  no two requests hold one row;
* `PresentedOK`, past its UPDATE a refresh has the presented token in
  `revoked \cup revoking[r]`, and holds no other row.

There is one lemma per kind of action (`StartKeeps`, `LookupKeeps`, `RevokeKeeps`,
`CommitKeeps`, ...) with one step per conjunct, and `NextKeeps` collects them. For
the refinement, every action but `Commit` leaves `owner`, `revoked` and `parent`
alone (`OthersStutter`), and `CommitImplements` shows from `MintedOK` and
`PresentedOK` that a commit is a `Grant`, an `Exchange`, a `Revoke` or a stutter.
`Chains`, `Known`, `Logouts` and `SequentialImplements` add a small invariant each
(`ChainInv`, `ReplyInv`, `SequentialInv`) on top of `IInv`. So does `FanOut`: the bound
on successors alone is not inductive, since it does not say who may still add one.
`FanInv` bounds the successors of a token together with `Exchanging`, the requests that
found it unrevoked and have not committed. A commit moves one from the second
to the first; once there is a successor the token is revoked and a lookup adds none; before
that there is nothing but requests to count.

`ClientSessionProofs`, for any calls and token pairs, from `ClientAssumption` (`None` is no
pair):

* `BrowserUsesTheServer`: `Spec => Server!Spec`, for any number of tabs. Whatever tabs do,
  the session table goes through grants and exchanges of single use; `Typed` is its
  invariant, which says that a refresh carries a token pair.
* `ServerExchangesOnce`: `Spec => []Server!ExchangedOnce`, so no pair has two successors,
  for any number of tabs; `ServerInv` adds that an exchanged pair is revoked.
* `PresentedOnce` and `KeptUnlessRefused`: `ClientInv` and `ForgottenForCause`, for one tab
  (`SingleTab`). The hypothesis is the difference of section 4 about "JWT auto-refresh": with
  two tabs neither holds.

`TabInv` adds that memory and `localStorage` agree and the screen tells whether there are
tokens (`MemoryOK`), that a refresh is asked with the tokens in memory, which nothing
replaces before it is settled (`RefreshOK`), and what the server would do with them in
each phase of a refresh (`LiveOK`): it would exchange them, or has just done so and would
exchange what it gave, or has denied them. `NeverPresentedTwice` is one of the phases;
`ForgottenForCause` follows from another, because only a denied refresh clears anything.

`EventPipelineProofs`, for any events, workers, batch sizes, length of the stream
and number of faults, from `EventAssumption` alone:

* `TypeCorrect`, `Once`, `Copies`, `Accounted`: the invariants `TypeOK`,
  `StoredOnce`, `OneCopy` and `NothingVanishes`; `Delivered` joins the middle two to
  `AtMostOnce`, `Kept` the others to `EventsInv`.
* `Implements`: `Spec => ImplementsDelivery`, so that the pipeline is a delivery channel
  whatever fails.
* `InOnePlace`: `Spec => []Channel!OnePlace`, what it gains by that: a published event is
  on its way, in the table with one row, or given up, and never two of them.

That an event has one row depends on all the places it passed before: it is
stored once because it was read once, and read once because it was on the
stream once. The invariant adds `MadeOK` (queue, requests and stream hold no
event twice, and nothing that was not made), `WorkersOK` (what a worker holds
is pending, has no row before the worker's commit and one after it) and
`RowsOK` (what has a row is off the stream). Three lemmas about sequences come
first: what a flush or a read takes and leaves (`SplitElements`), what XADD
joins (`JoinElements`), what push appends (`AppendElements`).

`IngestionProofs`, for any items and sources, any bounds of the two semaphores and both
types of the simhash column:

* `UrlsOnce`: `Spec => []UrlStoredOnce`, for any runs and without an assumption.
* `WholeRuns`: `Spec => []AllOrNothing`, likewise.
* `CopiesWithinPlaces`: `Spec => []IngestionInv`, that is `TypeOK` and `CopiesBounded`, from
  `IngestionAssumption`, of which it needs that `MaxItems` is a number and that there are
  finitely many runs (the type of `errors` counts them).

The check of layer 1 and the insert are several awaits apart, so what keeps urls
apart is the insert: `UrlsApart` says that even runs that have not committed
hold no url in common, because `ON CONFLICT` waits for the other run.
`WaitersRun` and `OffIsEmpty` say that only a running run waits or has written.

Copies of a text are bounded because they were all between the hash check and the insert
together. `WindowOK` bounds `Copies`, those a run has inserted from a source and those past
the check. An item passes the check only when no copy is visible, hence none
inserted: then all copies are items that hold a place of the semaphore, and `PlacesOK`
says that these are at most `MaxItems`. `ErrorsOK` is what the type of `errors` needs: a
committed run counts one failure of a source at most.

`EnrichmentProofs`, for any finite set of articles, any texts, batches and limit, any
providers, and Redis and the encoder failing at any call, from `EnrichmentAssumption`:

* `OutputsTogether`: `Spec => []EnrichmentInv`, that is `TypeOK`, `EmbeddedWithAnswer` and
  `SummaryIsEmbedded`.
* `AnsweredOnce`: `Spec => []AskedOnce`.
* `TagsFollow`: `Spec => []TagsHaveTheirSource`.

The properties are about committed rows, and a batch commits what it wrote for many
articles and many calls before. `BatchOK` says where an article of a batch can be (still to
take, being worked on, or written, and only once); `WroteOK` is the three properties for
the rows that are not committed, with the exception of the article whose embedding is yet
to be computed. `SummaryIsEmbedded` and `AskedOnce` hold as long as batches do not overlap:
`Alone` says that one is open at most, `FreshOK` that it has no article with a row, so
that its commit overwrites nothing, and `AskedOK` that a provider is asked for what has
not been answered, and that an answer is in the cache or with the one batch that is about
to put it there: a batch that dies then is the one kill that `AskedOnce` excuses. `Local` is the lemma that spares each action the batches it does not
belong to.

`FeedPagingProofs`, for any articles, dates, sources, topics, pillars, caps, page size and
finite number of calls, from `ListingAssumption` and `FeedAssumption`:

* `Impressions`: `Spec => []FeedInv`, that is `TypeOK`, `ServedBounded` and
  `DisplayedIsSeen`.
* `Caps`: `Spec => []CapsKept`.
* `Listed`: `Spec => []ListedWell`, that is `ListedWhole` and `ListedOnce`.
* `Descends`: `Spec => CursorDescends`.

First what the operators make. `RoomKeepsCaps`: a feed keeps a cap because the last article
of each source, and of each topic, had room. `PageMade`: a page begins with a candidate, consists of
candidates and trending articles, and keeps the caps among the others, because the page
without the injected articles has places of the re-ranked feed, each once (`PlacesApart`,
`PlacesCount`). `CursorOfPage`: its cursor is the date of its oldest article, so older
than the candidate it begins with. `PageListed`: a listable article that is not on a page
of the list is older than its cursor, or shares its date.

The rest is where a page can be while others are made, lost or forgotten. `CallsOK` says
for every call, awaited or not, what its page has: dates before its own cursor, the caps,
impressions that are there once it is answered. `PositionOK`: the awaited call was made
from the cursor as it still is, and a reset has emptied the list, which gives
`CursorDescends` at its display. `ServedOK` bounds the pages that had an article as new
together with the calls that have picked it as new and not recorded it (`Promised`): when
nobody has recorded it those are all there is to count, and once it is recorded no call
picks it again. For the public list, `ListOK` says that it goes from the newest article to
the cursor, so that a page before the cursor repeats nothing; `DueOK` that what is due and
not listed is older than the cursor, and on the page that is loading or older than that
page's cursor. `DueOK` also carries the pillar: of the page that is loading and of the one
to follow, which differ when the pillar is changed meanwhile. One lemma per action.

`AppShellProofs`, for any articles, topics, forms, submissions and pages, any number of
handlers and closing timers at once, from `ReadingAssumption` and `ShellAssumption` (`None`
is no article and no phase of a session, the kinds of handlers are disjoint):

* `ScreensForReaders`: `Spec => []ShellInv`, that is `TypeOK`, `SessionOnScreen` and
  `OverlayOverFeed`.
* `ReadsAndMarks`: `Spec => []ReadingInv`, that is `DwellIsRead` and `MarksKept`.
* `TopicsOnce`: `Spec => []TopicsSent`, that is `MarkedIsPicked` and `OneSubmission`.
* `HiddenGone`: `Spec => HiddenStaysHidden`.

Two invariants, because the screens do to the cards only four things (`NextReading`).
`RInv` is about what is read: `ReadSince` says that the article the overlay is about has
been on the screen since `startDwell`, although entries of others that left it are still in
the map; it makes `endDwell` push no event for a stay that was interrupted. `SInv` is about
the screens: a handler sets the screen several awaits after it began, so that
`SessionOnScreen` needs to know where every handler is. `EnteringOK`: as long as nothing
has overlapped, at most one handler will change the screen, and the screen is the one
it began on. `ScreenOK`: which sessions the screens go with, and that neither a page of the
feed nor the pillars are awaited on a screen that has lost its session. `SubmitsOK`:
while topics are sent the button is disabled, so that no second submission starts.

The same module, about `Onboarding`, the service behind the topics screen, for any slugs,
taxonomy, sources and number of requests, any signals, lengths and fewest number of slugs,
from `OnboardingAssumption`. Only the theorems share the module: the two components have
no constant or variable in common.

* `Weights`: `OnboardingSpec => []OnboardingInv`, that is `OnboardingTypeOK`,
  `AcknowledgedIsWeighted` and `ChosenRanksHigh`.
* `InTurn`: `OnboardingSpec => []RequestsInTurn`.
* `Complete`: `OnboardingSpec => StaysComplete`.

Requests and job act on what they have read before, so the invariant (`TInv`) says how
what was read relates to what is there. `ReadsOK`: a row a request has read as present
or as weighing 1 still is, since nothing deletes a row or takes a weight away. That
is why a seed that leaves such a row alone is right although its read is old.
`NightOK`: as long as no request and no job overlapped, the job has read the rows as
they are, and a score of 0.6 that a request read is one still. `TurnOK`: as long as no
two requests overlapped, one is active at most, and what it is about to write back is
the row as it is. One lemma per action; `JobEndKeeps` serves the three ways a
job ends.

`DatabaseProofs`, for any editions of the seeds and any number of open transactions, from
`DatabaseAssumption` (an edition is a taxonomy or a list of sources and has no slug twice;
a slug is of one table):

* `SchemaHolds`: `Spec => []SchemaInv`, that is `TypeOK`, `VersionIsThere` and
  `NothingBeyondVersion`: whatever overlaps, fails or is killed.
* `NeverRefusedAlone`: `Spec => []AloneNotRefused`.
* `SeedsOnceAndWhole`: `Spec => []SeededOnce`.
* `SeedsApply`: `Spec => []EditionApplied`.

The properties speak of committed tables, and a commit brings in what a program did many
statements before. `Programs` follows it: the place in its lists determines which tables an
upgrade has made (those of the revisions passed, and `Creates` of the list it is in), which
ones a downgrade has dropped (`Drops`), and what each has stamped. First come the lemmas
about the lists themselves (`UpgradeStep`, `DowngradeStep`: what changes from one place to the
next). The rest of the invariant is what PostgreSQL keeps apart: no table is made
twice (`Names`), one transaction has written the version, and from the one it began with
(`Stamps`), and no two hold locks that conflict, where what is dropped is locked (`Locks`).
Then `CommitIs` computes what a commit does to the tables, and `SchemaCommit` shows that the
tables of the main tree are again those of the version (`Schema`).

For the seeds, `Filled` says that a run holds a lock on the table of every entry it has
read, so that no downgrade takes the rows away before it commits (`RowKept`), and that every
entry it has done has a row. `Alone` says what a program that nothing overlapped can count
on at each place; `NotRefused` goes through its statements and finds none that
fails, and at the end of a seed run it is `EditionApplied`.

`Five`, about the tables of 0005, is for two transactions (`AtMostTwo`): an upgrade that is
past its first index has made `user_interactions` or holds a Share lock on it, and
a downgrade of 0005 cannot drop that table, its last, before the upgrade ends. TLC
checked every part of the invariant before it was proved; on three transactions
it refuted `Five`, which is how the limit of `VersionIsThere` was found.

Left to TLC:

* the liveness properties (`RequestsEnd`, `CallsEnd`, `PublishedSettles`, `RunsEnd`,
  `GoodIsEnriched`, `ScrollEnds`, `RanksSettle`, `ProgramsEnd`), since TLAPS proves
  neither fairness arguments nor ENABLED;
* that the loops of `mmr.py` (`RerankLoop`, `InjectLoop`: a fold and a concatenation) give
  what `Rerank` and `InjectTrending` of `FeedPaging` say, which for sequences of any length
  needs induction over data: TLC compares them for four articles.

## 7. Not modelled

* In modelled components: `update_short_term` and `_side_effects`, which nothing calls;
  `get_article`, `list_sources` and the filters of the list by source and by language,
  which the front end does not use; wording, layout, scores
  and vectors.
* ALS training: a numerical batch job that writes vectors nothing reads.
* The service worker: a cache of static files.
* Health, logging, errors, configuration, tests: input and output, or constants.
* Rate limits (`slowapi`), CORS and the connection pool: libraries that decide only
  whether a request is served.
* Several tabs that share `localStorage` are in `ClientSession` as a constant, but
  checked with one tab, and not in `AppShell`.

## 8. Plan

Done: sessions first, because everything else trusts them, then the pipelines that
write data, then what reads it, then onboarding, the screens and the database.
Every invariant and every action property that a run checks is proved; liveness is not.
What is left: an abstract specification of a table of unique urls that `Ingestion` implements.
