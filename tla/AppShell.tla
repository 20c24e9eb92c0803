------------------------------- MODULE AppShell -------------------------------
(***************************************************************************)
(* One tab of sherrbyte-frontend: the screens of js/app.js, its handlers   *)
(* (boot, login, registration, the choice of topics) and the loading of    *)
(* the feed, around what the reader does with the cards (Reading).         *)
(*                                                                         *)
(* A handler runs from one await to the next without interruption; while   *)
(* it awaits, the others and the reader go on.  A call of js/api.js        *)
(* succeeds, fails, or is denied: 401, and the refresh token is refused,   *)
(* so that _fetch forgets the session and fires sb:logout (how tokens are  *)
(* exchanged is in ClientSession).  /v1/taxonomy and /v1/articles are      *)
(* public and never denied.  The cursor of the feed is FeedPaging's.       *)
(***************************************************************************)
EXTENDS Reading, FiniteSets

CONSTANTS Topics,     \* the microtopics
          MinTopics,  \* 5: the fewest _toggleTopic enables Continue for
          Startup,    \* the callback of init
          Forms,      \* the clicks on btn-login and on btn-register
          Submits,    \* clicks on btn-ob-continue
          MaxBusy     \* bound: handlers in progress at once

ASSUME ShellAssumption ==
    /\ MinTopics \in Nat /\ MaxBusy \in Nat
    /\ Forms \cap Submits = {} /\ Startup \notin Forms \cup Submits
    /\ None \notin {"new", "ready"}

Handlers == {Startup} \cup Forms \cup Submits

VARIABLES
    screen,     \* the .screen that is not hidden, besides the overlay
    session,    \* tokens and _user, also in localStorage: None, "new", "ready" (onboarded)
    phase,      \* phase[h]: what handler h awaits
    grid,       \* has #topic-grid its chips?
    picked,     \* _selectedTopics
    marked,     \* the chips shown as selected
    enabled,    \* is btn-ob-continue enabled?
    pillars,    \* are there pillar buttons?
    watched,    \* does an IntersectionObserver watch the end of the list?
    loading,    \* _loading: "no", or the endpoint that was asked
    exhausted,  \* _exhausted
    \* history
    mishaps     \* overlaps of handlers since the page was loaded

onboarding == <<grid, picked, marked, enabled>>
nav        == <<pillars, watched>>
feed       == <<loading, exhausted>>
shell      == <<screen, session, phase, onboarding, nav, feed, mishaps>>
vars       == <<shell, reading>>

Screens == {"splash", "auth", "onboarding", "app"}
Mishaps == {"forms",  \* login and registration overlapped
            "chips"}  \* a chip was clicked during a submission

TypeOK ==
    /\ ReadingTypeOK
    /\ screen \in Screens
    /\ session \in {"new", "ready", None}
    /\ phase \in [Handlers -> {"off", "splash", "call", "taxonomy", "pillars"}]
    /\ grid \in BOOLEAN /\ enabled \in BOOLEAN
    /\ picked \subseteq Topics /\ marked \subseteq Topics
    /\ pillars \in BOOLEAN /\ watched \in BOOLEAN
    /\ loading \in {"no", "feed", "articles"} /\ exhausted \in BOOLEAN
    /\ mishaps \subseteq Mishaps

Splash == [h \in Handlers |-> IF h = Startup THEN "splash" ELSE "off"]

\* A page that has just been loaded shows the splash for two seconds.
Init ==
    /\ ReadingInit
    /\ screen = "splash" /\ session = None /\ phase = Splash
    /\ grid = FALSE /\ picked = {} /\ marked = {} /\ enabled = FALSE
    /\ pillars = FALSE /\ watched = FALSE
    /\ loading = "no" /\ exhausted = FALSE
    /\ mishaps = {}

-----------------------------------------------------------------------------

Busy == {h \in Handlers : phase[h] # "off"}
MayStart(h) == phase[h] = "off" /\ Cardinality(Busy) < MaxBusy

Goes(h, p) == phase' = [phase EXCEPT ![h] = p]

\* show(id)
Show_OverOverlay(id) == screen' = id /\ UNCHANGED <<detail, dwell>>
Show(id) == screen' = id /\ HideOverlay

LogOut_Unheard == session' = None /\ UNCHANGED <<screen, detail, dwell>>

\* clearAuth and sb:logout
LogOut == session' = None /\ Show("auth")

\* Feed.load(reset): the list is emptied at once, and the endpoint chosen.
Load(reset) ==
    IF loading = "no" /\ ~exhausted
    THEN /\ loading' = IF session = "ready" THEN "feed" ELSE "articles"
         /\ cards' = IF reset THEN {} ELSE cards
         /\ UNCHANGED exhausted
    ELSE UNCHANGED <<feed, cards>>

\* _initMainApp until its await.
EnterApp(h) == Show("app") /\ Goes(h, "pillars")

\* _postLogin until its await.
PostLogin(h, user) ==
    IF user = "ready"
    THEN EnterApp(h)
    ELSE Goes(h, "taxonomy") /\ UNCHANGED <<screen, detail, dwell>>

\* show() and phases change nothing else of what is read.
UntouchedReading == UNCHANGED <<cards, menu, marks, dwelling, timers, stray>>

-----------------------------------------------------------------------------
(* Boot *)

\* The callback of init, after the splash: API.me() if there is a session.
Boot ==
    /\ phase[Startup] = "splash"
    /\ IF session = None
       THEN Show("auth") /\ Goes(Startup, "off")
       ELSE Goes(Startup, "call") /\ UNCHANGED <<screen, detail, dwell>>
    /\ UntouchedReading
    /\ UNCHANGED <<session, onboarding, nav, feed, mishaps>>

-----------------------------------------------------------------------------
(* The forms *)

\* A click on btn-login or btn-register, which is disabled until its handler ends.
\* The reader may change the tab, and use the other form, meanwhile.
ClickForm(h) ==
    /\ h \in Forms
    /\ screen = "auth"
    /\ MayStart(h)
    /\ Goes(h, "call")
    /\ mishaps' = mishaps \cup
         (IF \E g \in Handlers \ {h} : phase[g] \in {"call", "taxonomy"} THEN {"forms"} ELSE {})
    /\ UNCHANGED <<screen, session, onboarding, nav, feed, reading>>

\* API.me, API.login or API.register returns a user, who is saved.
Admit(h) ==
    /\ h \in {Startup} \cup Forms
    /\ phase[h] = "call"
    /\ session' \in {"new", "ready"}
    /\ PostLogin(h, session')
    /\ UntouchedReading
    /\ UNCHANGED <<onboarding, nav, feed, mishaps>>

\* _postLogin after its await: the chips are made anew, unless the call failed.
ShowOnboarding(h) ==
    /\ phase[h] = "taxonomy"
    /\ \/ grid' = TRUE /\ marked' = {}
       \/ UNCHANGED <<grid, marked>>
    /\ Show("onboarding")
    /\ Goes(h, "off")
    /\ UntouchedReading
    /\ UNCHANGED <<session, picked, enabled, nav, feed, mishaps>>

-----------------------------------------------------------------------------
(* Onboarding *)

Chip_ByItsLook(t) ==
    /\ picked' = IF t \in picked THEN picked \ {t} ELSE picked \cup {t}
    /\ marked' = IF t \in marked THEN marked \ {t} ELSE marked \cup {t}

\* What a click on chip t makes of _selectedTopics and of the class of the chip.
Chip(t) ==
    IF t \in picked
    THEN picked' = picked \ {t} /\ marked' = marked \ {t}
    ELSE picked' = picked \cup {t} /\ marked' = marked \cup {t}

\* _toggleTopic
ToggleTopic(t) ==
    /\ screen = "onboarding" /\ grid
    /\ Chip(t)
    /\ enabled' = (Cardinality(picked') >= MinTopics)
    /\ mishaps' = mishaps \cup
         (IF \E h \in Submits : phase[h] \in {"call", "pillars"} THEN {"chips"} ELSE {})
    /\ UNCHANGED <<screen, session, phase, grid, nav, feed, reading>>

ClickContinue_StaysEnabled(h) ==
    /\ screen = "onboarding" /\ enabled
    /\ MayStart(h)
    /\ Goes(h, "call")
    /\ UNCHANGED <<screen, session, onboarding, nav, feed, mishaps, reading>>

\* A click on btn-ob-continue: API.selectTopics.
ClickContinue(h) ==
    /\ screen = "onboarding" /\ enabled
    /\ MayStart(h)
    /\ enabled' = FALSE
    /\ Goes(h, "call")
    /\ UNCHANGED <<screen, session, grid, picked, marked, nav, feed, mishaps, reading>>

\* selectTopics returns: the user, if there still is one, is marked as onboarded.
\* The button stays disabled.
TopicsSaved(h) ==
    /\ h \in Submits
    /\ phase[h] = "call"
    /\ session' = IF session = None THEN None ELSE "ready"
    /\ EnterApp(h)
    /\ UntouchedReading
    /\ UNCHANGED <<onboarding, nav, feed, mishaps>>

-----------------------------------------------------------------------------
(* What every handler may meet *)

\* The catch clauses.
Caught(h) ==
    /\ Goes(h, "off")
    /\ enabled' = (enabled \/ h \in Submits)

\* The call fails: the network, 4xx (for a login 401 without a refresh token) or 5xx.
CallFails(h) ==
    /\ phase[h] = "call"
    /\ Caught(h)
    /\ IF h = Startup THEN Show("auth") ELSE UNCHANGED <<screen, detail, dwell>>
    /\ UntouchedReading
    /\ UNCHANGED <<session, grid, picked, marked, nav, feed, mishaps>>

\* 401, and the refresh fails: wherever the reader is, the session is forgotten.
CallDenied(h) ==
    /\ phase[h] = "call"
    /\ session # None
    /\ LogOut
    /\ Caught(h)
    /\ UntouchedReading
    /\ UNCHANGED <<grid, picked, marked, nav, feed, mishaps>>

\* _initMainApp after its await: the pillar buttons, unless the call failed, the first
\* page, and an observer more.
FinishEntry(h) ==
    /\ phase[h] = "pillars"
    /\ pillars' \in {pillars, TRUE}
    /\ watched' = TRUE
    /\ Load(TRUE)
    /\ Goes(h, "off")
    /\ UNCHANGED <<screen, session, onboarding, mishaps, menu, marks, overlay>>

-----------------------------------------------------------------------------
(* The feed *)

\* The end of the list comes into view.
ScrollToEnd ==
    /\ screen = "app" /\ watched
    /\ loading = "no" /\ ~exhausted
    /\ Load(FALSE)
    /\ UNCHANGED <<screen, session, phase, onboarding, nav, mishaps, menu, marks, overlay>>

\* _selectPillar and Feed.setPillar
SelectPillar ==
    /\ screen = "app" /\ pillars /\ detail # "open"
    /\ Load(TRUE)
    /\ menu' = None
    /\ UNCHANGED <<screen, session, phase, onboarding, nav, mishaps, marks, overlay>>

\* A page arrives: the last one if it is empty or has no cursor.  (load(true) has
\* emptied the list when it began, and nothing has filled it since.)
PageArrives ==
    /\ loading # "no"
    /\ loading' = "no"
    /\ \E page \in SUBSET Articles :
         /\ \E heroes \in SUBSET page : RenderBatch(heroes, page \ heroes)
         /\ exhausted' \in {page = {}, TRUE}
    /\ UNCHANGED <<screen, session, phase, onboarding, nav, mishaps, menu, marks, overlay>>

\* The catch clause of load: an empty list stays empty.
PageFails ==
    /\ loading # "no"
    /\ loading' = "no"
    /\ UNCHANGED <<exhausted, screen, session, phase, onboarding, nav, mishaps, reading>>

\* 401 and no refresh: a reader in the middle of an article is on the auth screen.
PageDenied ==
    /\ loading = "feed" /\ session # None
    /\ loading' = "no"
    /\ LogOut
    /\ UntouchedReading
    /\ UNCHANGED <<phase, onboarding, nav, exhausted, mishaps>>

\* The page is loaded again; the session is in localStorage.
Reload ==
    /\ phase[Startup] # "splash"
    /\ ReloadReading
    /\ screen' = "splash" /\ phase' = Splash
    /\ grid' = FALSE /\ picked' = {} /\ marked' = {} /\ enabled' = FALSE
    /\ pillars' = FALSE /\ watched' = FALSE
    /\ loading' = "no" /\ exhausted' = FALSE
    /\ mishaps' = {}
    /\ UNCHANGED session

-----------------------------------------------------------------------------

Handle(h) ==
    \/ ClickForm(h) \/ Admit(h) \/ ShowOnboarding(h)
    \/ CallFails(h) \/ CallDenied(h) \/ FinishEntry(h)

Next ==
    \/ Boot \/ Reload
    \/ \E h \in Handlers : Handle(h)
    \/ \E h \in Submits : ClickContinue(h) \/ TopicsSaved(h)
    \/ \E t \in Topics : ToggleTopic(t)
    \/ ScrollToEnd \/ SelectPillar \/ PageArrives \/ PageFails \/ PageDenied
    \/ screen = "app" /\ Read /\ UNCHANGED shell
    \/ Elsewhere /\ UNCHANGED shell

Spec == Init /\ [][Next]_vars

-----------------------------------------------------------------------------
(* Properties *)

\* app.js:323-351: the feed and the choice of topics are only on the screen of a reader
\* who is logged in, whenever a session ends, as long as no two handlers that change
\* the screen are under way at once.
SessionOnScreen == mishaps = {} /\ screen \in {"onboarding", "app"} => session # None

\* The overlay is never over another screen than the feed, whatever ends the session
\* while an article is open.
OverlayOverFeed == detail # "off" => screen = "app"

\* app.js:108-131: the chips are made anew for the next reader and _selectedTopics is
\* not.  Whatever is shown as selected will be sent; what will be sent need not be shown.
MarkedIsPicked == marked \subseteq picked

\* app.js:138: Continue sends the topics once, and enough of them, unless a chip is
\* clicked while it does.  (Those of the reader before are sent and count, too.)
OneSubmission ==
    "chips" \notin mishaps =>
        /\ Cardinality({h \in Submits : phase[h] = "call"}) <= 1
        /\ enabled => Cardinality(picked) >= MinTopics

\* The invariant of the screens: each is there for a reader who may see it.
ShellInv == TypeOK /\ SessionOnScreen /\ OverlayOverFeed

\* _selectedTopics is sent once, with enough topics, and none that is shown as selected
\* is missing.
TopicsSent == MarkedIsPicked /\ OneSubmission
===============================================================================
