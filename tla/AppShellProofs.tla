---------------------------- MODULE AppShellProofs ----------------------------
(***************************************************************************)
(* Proofs about AppShell and Reading, for any articles, topics, forms and  *)
(* submissions, and any number of handlers in progress at once; and about  *)
(* Onboarding, the service that keeps the topics the reader chooses there. *)
(***************************************************************************)
EXTENDS AppShell, Onboarding, FiniteSetTheorems, TLAPS

-----------------------------------------------------------------------------
(* What is read *)

\* The article of the overlay has been on the screen since startDwell.
ReadSince == detail # "off" /\ dwelling # None => dwell[dwelling] # "left"

RInv == ReadingTypeOK /\ OverlayOverFeed /\ ReadSince /\ ReadingInv

\* The screens and the feed change what is read in four ways.
Untouched == UNCHANGED <<screen, reading>>

Shows == HideOverlay /\ UntouchedReading

Lists ==
    /\ cards' \in SUBSET Articles /\ cards' \cap hidden \subseteq cards
    /\ menu' \in {menu, None}
    /\ UNCHANGED <<screen, marks, overlay>>

Reloads == ReloadReading

LEMMA LoadLists == ASSUME RInv, NEW r \in BOOLEAN, Load(r) PROVE cards' \in {cards, {}}
  BY DEF Load

LEMMA NextReading ==
  ASSUME RInv, Next
  PROVE  \/ Untouched \/ Shows \/ Lists \/ Reloads
         \/ screen = "app" /\ Read /\ screen' = screen
         \/ Elsewhere /\ screen' = screen
  <1>1. CASE Boot
    BY <1>1 DEF Boot, Show, Untouched, Shows, UntouchedReading, reading, overlay, HideOverlay
  <1>2. CASE Reload
    BY <1>2 DEF Reload, Reloads
  <1>3. ASSUME NEW h \in Handlers, Handle(h) PROVE Untouched \/ Shows \/ Lists
    <2>1. CASE ClickForm(h)
      BY <2>1 DEF ClickForm, Untouched
    <2>2. CASE Admit(h)
      BY <2>2 DEF Admit, PostLogin, EnterApp, Show, Untouched, Shows, UntouchedReading, reading, overlay
    <2>3. CASE ShowOnboarding(h)
      BY <2>3 DEF ShowOnboarding, Show, Shows
    <2>4. CASE CallFails(h)
      BY <2>4 DEF CallFails, Show, Untouched, Shows, UntouchedReading, reading, overlay
    <2>5. CASE CallDenied(h)
      BY <2>5 DEF CallDenied, LogOut, Show, Shows
    <2>6. CASE FinishEntry(h)
      BY <2>6, LoadLists DEF FinishEntry, Lists, RInv, ReadingTypeOK
    <2>. QED BY <1>3, <2>1, <2>2, <2>3, <2>4, <2>5, <2>6 DEF Handle
  <1>4. ASSUME NEW h \in Submits, ClickContinue(h) \/ TopicsSaved(h) PROVE Untouched \/ Shows
    BY <1>4 DEF ClickContinue, TopicsSaved, EnterApp, Show, Untouched, Shows
  <1>5. ASSUME NEW t \in Topics, ToggleTopic(t) PROVE Untouched
    BY <1>5 DEF ToggleTopic, Untouched
  <1>6. CASE ScrollToEnd \/ SelectPillar
    BY <1>6, LoadLists DEF ScrollToEnd, SelectPillar, Lists, RInv, ReadingTypeOK
  <1>7. CASE PageArrives
    BY <1>7 DEF PageArrives, RenderBatch, Lists, RInv, ReadingTypeOK
  <1>8. CASE PageFails \/ PageDenied
    BY <1>8 DEF PageFails, PageDenied, LogOut, Show, Untouched, Shows
  <1>9. CASE ((screen = "app" /\ Read) \/ Elsewhere) /\ UNCHANGED shell
    BY <1>9 DEF shell
  <1>. QED BY <1>1, <1>2, <1>3, <1>4, <1>5, <1>6, <1>7, <1>8, <1>9 DEF Next

\* Every step keeps the entries of the articles and the marks of the reader.
LEMMA ReadingKeeps == ASSUME RInv, [Next]_vars PROVE RInv'
  <1>. USE ReadingAssumption DEF RInv, ReadingInv, DwellIsRead
  <1>1. CASE Untouched \/ UNCHANGED vars
    BY <1>1 DEF Untouched, vars, shell, reading, marks, overlay, ReadingTypeOK, OverlayOverFeed, ReadSince, MarksKept
  <1>2. CASE Shows
    BY <1>2 DEF Shows, HideOverlay, Left, UntouchedReading, marks, ReadingTypeOK, OverlayOverFeed, ReadSince, MarksKept
  <1>3. CASE Lists
    BY <1>3 DEF Lists, marks, overlay, ReadingTypeOK, OverlayOverFeed, ReadSince, MarksKept
  <1>4. CASE Reloads
    BY <1>4 DEF Reloads, ReloadReading, NoDwell, Marks, ReadingTypeOK, OverlayOverFeed, ReadSince, MarksKept
  <1>5. CASE screen = "app" /\ Read /\ screen' = screen
    <2>1. ASSUME NEW a \in Articles, ToggleSave(a) PROVE RInv'
      <3>1. /\ saved' = Toggled(saved, a) /\ store' = [saved |-> saved', hidden |-> hidden]
            /\ wanted' = [wanted EXCEPT !.saved = Toggled(@, a)]
            /\ UNCHANGED <<cards, menu, hidden, overlay>>
        BY <2>1 DEF ToggleSave, SavePersist
      <3>2. Toggled(saved, a) \subseteq Articles
        BY DEF Toggled, ReadingTypeOK
      <3>3. wanted' = [saved |-> Toggled(saved, a), hidden |-> hidden]
        BY <3>1 DEF ReadingTypeOK, Marks, MarksKept
      <3>4. ReadingTypeOK' /\ MarksKept'
        BY <3>1, <3>2, <3>3 DEF ReadingTypeOK, Marks, MarksKept, overlay
      <3>. QED BY <1>5, <3>1, <3>4 DEF overlay, OverlayOverFeed, ReadSince
    <2>2. ASSUME NEW a \in Articles, ShowMenu(a) PROVE RInv'
      BY <1>5, <2>2 DEF ShowMenu, marks, overlay, ReadingTypeOK, OverlayOverFeed, ReadSince, MarksKept
    <2>3. ASSUME NEW a \in Articles, OpenArticle(a) PROVE RInv'
      <3>1. /\ detail' = "in" /\ dwelling' = a /\ menu' = None
            /\ dwell' = StartDwell(Left(dwell), a)
            /\ UNCHANGED <<cards, marks, timers, stray>>
        BY <2>3 DEF OpenArticle
      <3>2. /\ dwell' \in [Articles -> {None, "read", "left"}] /\ dwell'[a] = "read"
        BY <3>1 DEF StartDwell, Left, ReadingTypeOK
      <3>. QED BY <1>5, <3>1, <3>2 DEF marks, ReadingTypeOK, OverlayOverFeed, ReadSince, MarksKept
    <2>4. CASE SlideIn
      BY <1>5, <2>4 DEF SlideIn, marks, ReadingTypeOK, OverlayOverFeed, ReadSince, MarksKept
    <2>5. CASE CloseDetail
      <3>1. /\ detail # "off" /\ timers < MaxTimers /\ detail' = "out" /\ timers' = timers + 1
            /\ dwelling' = None /\ UNCHANGED <<cards, menu, marks>>
        BY <2>5 DEF CloseDetail
      <3>2. stray' = FALSE /\ dwell' \in [Articles -> {None, "read", "left"}]
        BY <2>5 DEF CloseDetail, EndDwell, ReadingTypeOK, ReadSince
      <3>3. timers' \in 0..MaxTimers
        BY <3>1 DEF ReadingTypeOK
      <3>. QED BY <1>5, <3>1, <3>2, <3>3 DEF marks, ReadingTypeOK, OverlayOverFeed, ReadSince, MarksKept
    <2>. QED BY <1>5, <2>1, <2>2, <2>3, <2>4, <2>5 DEF Read
  <1>6. CASE Elsewhere /\ screen' = screen
    <2>1. CASE CloseMenu
      BY <1>6, <2>1 DEF CloseMenu, marks, overlay, ReadingTypeOK, OverlayOverFeed, ReadSince, MarksKept
    <2>2. CASE HideArticle
      <3>1. /\ hidden' = hidden \cup {menu} /\ store' = [saved |-> saved, hidden |-> hidden']
            /\ wanted' = [wanted EXCEPT !.hidden = @ \cup {menu}]
            /\ cards' = cards \ {menu} /\ menu' = None /\ menu \in Articles
            /\ UNCHANGED <<saved, overlay>>
        BY <2>2 DEF HideArticle, SavePersist, ReadingTypeOK
      <3>2. wanted' = [saved |-> saved, hidden |-> hidden \cup {menu}]
        BY <3>1 DEF ReadingTypeOK, Marks, MarksKept
      <3>3. ReadingTypeOK' /\ MarksKept'
        BY <3>1, <3>2 DEF ReadingTypeOK, Marks, MarksKept, overlay
      <3>. QED BY <1>6, <3>1, <3>3 DEF overlay, OverlayOverFeed, ReadSince
    <2>3. CASE HideTimer
      BY <2>3 DEF HideTimer, HideOverlay, Left, marks, ReadingTypeOK, OverlayOverFeed, ReadSince, MarksKept
    <2>. QED BY <1>6, <2>1, <2>2, <2>3 DEF Elsewhere
  <1>. QED BY <1>1, <1>2, <1>3, <1>4, <1>5, <1>6, NextReading

LEMMA ReadingInitially == Init => RInv
  <1>. SUFFICES ASSUME Init PROVE RInv
    OBVIOUS
  <1>1. NoMarks \in Marks /\ 0 \in 0..MaxTimers
    BY ReadingAssumption DEF NoMarks, Marks
  <1>2. ReadingTypeOK
    BY <1>1 DEF Init, ReadingInit, ReadingTypeOK, NoDwell
  <1>3. OverlayOverFeed /\ ReadSince
    BY DEF Init, ReadingInit, OverlayOverFeed, ReadSince
  <1>4. ReadingInv
    BY DEF Init, ReadingInit, ReadingInv, DwellIsRead, MarksKept, NoMarks
  <1>. QED BY <1>2, <1>3, <1>4 DEF RInv

LEMMA ReadingInvariant == Spec => []RInv
  BY ReadingInitially, ReadingKeeps, PTL DEF Spec

-----------------------------------------------------------------------------
(* The screens *)

ShellTypeOK ==
    /\ screen \in Screens
    /\ session \in {"new", "ready", None}
    /\ phase \in [Handlers -> {"off", "splash", "call", "taxonomy", "pillars"}]
    /\ grid \in BOOLEAN /\ enabled \in BOOLEAN
    /\ picked \subseteq Topics /\ marked \subseteq Topics
    /\ pillars \in BOOLEAN /\ watched \in BOOLEAN
    /\ loading \in {"no", "feed", "articles"} /\ exhausted \in BOOLEAN
    /\ mishaps \subseteq Mishaps

\* Handler h will change the screen.
Entering(h) == phase[h] \in {"splash", "call", "taxonomy"}

\* Only the startup waits for the splash, and no submission for the topics.
PhasesOK ==
    \A h \in Handlers : /\ phase[h] = "splash" => h = Startup
                        /\ phase[h] = "taxonomy" => h \notin Submits

\* Each handler that will change the screen is alone, and on the screen it began on.
EnteringOK ==
    mishaps = {} =>
        /\ \A g, h \in Handlers : Entering(g) /\ Entering(h) => g = h
        /\ \A h \in Handlers : Entering(h) =>
              screen = IF h = Startup THEN "splash" ELSE IF h \in Forms THEN "auth" ELSE "onboarding"
        /\ \A h \in Handlers : phase[h] = "taxonomy" => session = "new"

\* A screen tells how far the session is, and who may load the feed of the reader.
ScreenOK ==
    mishaps = {} =>
        /\ screen = "onboarding" => session = "new"
        /\ screen = "app" => session = "ready"
        /\ screen = "splash" \/ (screen = "auth" /\ session = "ready") =>
              \A h \in Handlers : phase[h] # "pillars"
        /\ loading = "feed" => screen = "app"

\* A submission sends enough topics, once, unless a chip is clicked meanwhile.
SubmitsOK ==
    "chips" \notin mishaps =>
        /\ \A g, h \in Submits : phase[g] = "call" /\ phase[h] = "call" => g = h
        /\ \A h \in Submits : phase[h] = "call" => ~enabled /\ Cardinality(picked) >= MinTopics
        /\ enabled => Cardinality(picked) >= MinTopics

SInv == ShellTypeOK /\ PhasesOK /\ EnteringOK /\ ScreenOK /\ SubmitsOK /\ MarkedIsPicked

\* A step that begins no submission leaves them.
LEMMA SubmitsKeep ==
  ASSUME SInv, picked' = picked, enabled' => enabled,
         "chips" \in mishaps => "chips" \in mishaps',
         \A h \in Submits : phase'[h] = "call" => phase[h] = "call"
  PROVE  SubmitsOK'
  BY DEF SInv, SubmitsOK

\* A handler that ends, or goes on to wait for the pillars, while the screen stays.
LEMMA BootKeeps == ASSUME SInv, Boot PROVE SInv'
  <1>. DEFINE p == IF session = None THEN "off" ELSE "call"
              s == IF session = None THEN "auth" ELSE screen
  <1>1. /\ phase[Startup] = "splash" /\ phase' = [phase EXCEPT ![Startup] = p] /\ screen' = s
        /\ UNCHANGED <<session, onboarding, nav, feed, mishaps>> /\ Startup \in Handlers
    BY DEF Boot, Show, Goes, Handlers
  <1>2. p \in {"off", "call"} /\ s \in Screens /\ (p = "off" => session = None /\ s = "auth")
        /\ (p = "call" => s = screen)
    BY DEF SInv, ShellTypeOK, Screens
  <1>. HIDE DEF p, s
  <1>3. phase'[Startup] = p /\ \A h \in Handlers \ {Startup} : phase'[h] = phase[h]
    BY <1>1 DEF SInv, ShellTypeOK
  <1>4. ShellTypeOK'
    BY <1>1, <1>2 DEF SInv, ShellTypeOK, onboarding, nav, feed
  <1>5. PhasesOK' /\ MarkedIsPicked'
    BY <1>1, <1>2, <1>3 DEF SInv, PhasesOK, MarkedIsPicked, onboarding
  <1>6. EnteringOK'
    BY <1>1, <1>2, <1>3 DEF SInv, EnteringOK, Entering
  <1>7. ScreenOK'
    BY <1>1, <1>2, <1>3, ShellAssumption DEF SInv, EnteringOK, Entering, ScreenOK, feed
  <1>8. SubmitsOK'
    BY <1>1, <1>3, SubmitsKeep, ShellAssumption DEF onboarding, Handlers
  <1>. QED BY <1>4, <1>5, <1>6, <1>7, <1>8 DEF SInv

\* A form is sent from the auth screen; if another one is under way, that is a mishap.
LEMMA ClickFormKeeps == ASSUME SInv, NEW h \in Handlers, ClickForm(h) PROVE SInv'
  <1>1. /\ h \in Forms /\ screen = "auth" /\ phase[h] = "off"
        /\ phase' = [phase EXCEPT ![h] = "call"]
        /\ mishaps' = mishaps \cup
             (IF \E g \in Handlers \ {h} : phase[g] \in {"call", "taxonomy"} THEN {"forms"} ELSE {})
        /\ UNCHANGED <<screen, session, onboarding, nav, feed, reading>>
    BY DEF ClickForm, MayStart, Goes
  <1>2. phase'[h] = "call" /\ \A g \in Handlers \ {h} : phase'[g] = phase[g]
    BY <1>1 DEF SInv, ShellTypeOK
  <1>3. h \notin Submits /\ h # Startup
    BY <1>1, ShellAssumption
  <1>4. mishaps' \subseteq Mishaps /\ mishaps \subseteq mishaps'
    BY <1>1 DEF SInv, ShellTypeOK, Mishaps
  <1>5. ShellTypeOK'
    BY <1>1, <1>4 DEF SInv, ShellTypeOK, onboarding, nav, feed
  <1>6. PhasesOK' /\ MarkedIsPicked'
    BY <1>1, <1>2, <1>3 DEF SInv, PhasesOK, MarkedIsPicked, onboarding
  <1>7. EnteringOK'
    <2>. SUFFICES ASSUME mishaps' = {} PROVE EnteringOK'
      BY DEF EnteringOK
    <2>1. \A g \in Handlers \ {h} : phase[g] \notin {"call", "taxonomy"}
      BY <1>1
    <2>2. \A g \in Handlers \ {h} : phase[g] # "splash"
      BY <1>1, <1>4 DEF SInv, EnteringOK, Entering, PhasesOK
    <2>. QED BY <1>1, <1>2, <1>3, <2>1, <2>2 DEF EnteringOK, Entering
  <1>8. ScreenOK'
    BY <1>1, <1>2, <1>4 DEF SInv, ScreenOK, feed
  <1>9. SubmitsOK'
    BY <1>1, <1>2, <1>3, <1>4, SubmitsKeep DEF onboarding, Handlers
  <1>. QED BY <1>5, <1>6, <1>7, <1>8, <1>9 DEF SInv

\* A user is admitted: to the feed, or to the choice of topics.
LEMMA AdmitKeeps == ASSUME SInv, NEW h \in Handlers, Admit(h) PROVE SInv'
  <1>1. /\ h \in {Startup} \cup Forms /\ phase[h] = "call" /\ session' \in {"new", "ready"}
        /\ UNCHANGED <<onboarding, nav, feed, mishaps>>
        /\ \/ session' = "ready" /\ screen' = "app" /\ phase' = [phase EXCEPT ![h] = "pillars"]
           \/ session' = "new" /\ screen' = screen /\ phase' = [phase EXCEPT ![h] = "taxonomy"]
    BY DEF Admit, PostLogin, EnterApp, Show, Goes
  <1>2. /\ \A g \in Handlers \ {h} : phase'[g] = phase[g]
        /\ \/ session' = "ready" /\ screen' = "app" /\ phase'[h] = "pillars"
           \/ session' = "new" /\ screen' = screen /\ phase'[h] = "taxonomy"
    BY <1>1 DEF SInv, ShellTypeOK
  <1>3. h \notin Submits /\ (h \in Forms => h # Startup)
    BY <1>1, ShellAssumption
  <1>4. ShellTypeOK'
    BY <1>1 DEF SInv, ShellTypeOK, Screens, onboarding, nav, feed
  <1>5. PhasesOK' /\ MarkedIsPicked'
    BY <1>1, <1>2, <1>3 DEF SInv, PhasesOK, MarkedIsPicked, onboarding
  <1>6. mishaps = {} => \A g \in Handlers \ {h} : ~Entering(g)
    BY <1>1 DEF SInv, EnteringOK, Entering
  <1>7. mishaps = {} => screen \in {"splash", "auth"}
    BY <1>1, <1>3 DEF SInv, EnteringOK, Entering
  <1>8. EnteringOK'
    BY <1>1, <1>2, <1>6 DEF SInv, EnteringOK, Entering
  <1>9. ScreenOK'
    BY <1>1, <1>2, <1>7 DEF SInv, ScreenOK, feed
  <1>10. SubmitsOK'
    BY <1>1, <1>2, <1>3, SubmitsKeep DEF onboarding, Handlers
  <1>. QED BY <1>4, <1>5, <1>8, <1>9, <1>10 DEF SInv

\* The topics are shown to the new reader who waited for them.
LEMMA OnboardingKeeps == ASSUME SInv, NEW h \in Handlers, ShowOnboarding(h) PROVE SInv'
  <1>1. /\ phase[h] = "taxonomy" /\ phase' = [phase EXCEPT ![h] = "off"] /\ screen' = "onboarding"
        /\ grid' \in {grid, TRUE} /\ marked' \in {marked, {}}
        /\ UNCHANGED <<session, picked, enabled, nav, feed, mishaps>>
    BY DEF ShowOnboarding, Show, Goes
  <1>2. phase'[h] = "off" /\ \A g \in Handlers \ {h} : phase'[g] = phase[g]
    BY <1>1 DEF SInv, ShellTypeOK
  <1>3. ShellTypeOK'
    BY <1>1 DEF SInv, ShellTypeOK, Screens, nav, feed
  <1>4. PhasesOK' /\ MarkedIsPicked'
    BY <1>1, <1>2 DEF SInv, PhasesOK, MarkedIsPicked
  <1>5. mishaps = {} => /\ \A g \in Handlers \ {h} : ~Entering(g)
                        /\ session = "new" /\ screen \in {"splash", "auth"}
    BY <1>1 DEF SInv, EnteringOK, Entering, PhasesOK, Handlers
  <1>6. EnteringOK'
    BY <1>1, <1>2, <1>5 DEF EnteringOK, Entering
  <1>7. ScreenOK'
    BY <1>1, <1>2, <1>5 DEF SInv, ScreenOK, feed
  <1>8. SubmitsOK'
    BY <1>1, <1>2, SubmitsKeep DEF Handlers
  <1>. QED BY <1>3, <1>4, <1>6, <1>7, <1>8 DEF SInv

\* A chip enables the button only while nothing is being submitted, but for a mishap.
LEMMA ToggleKeeps == ASSUME SInv, NEW t \in Topics, ToggleTopic(t) PROVE SInv'
  <1>1. /\ enabled' = (Cardinality(picked') >= MinTopics)
        /\ mishaps' = mishaps \cup
             (IF \E h \in Submits : phase[h] \in {"call", "pillars"} THEN {"chips"} ELSE {})
        /\ UNCHANGED <<screen, session, phase, grid, nav, feed, reading>>
    BY DEF ToggleTopic
  <1>2. mishaps' \subseteq Mishaps /\ mishaps \subseteq mishaps'
    BY <1>1 DEF SInv, ShellTypeOK, Mishaps
  <1>3. picked' \subseteq Topics /\ marked' \subseteq Topics /\ MarkedIsPicked'
    BY DEF ToggleTopic, Chip, SInv, ShellTypeOK, MarkedIsPicked
  <1>4. enabled' \in BOOLEAN
    BY <1>1
  <1>5. ShellTypeOK'
    BY <1>1, <1>2, <1>3, <1>4 DEF SInv, ShellTypeOK, nav, feed
  <1>6. PhasesOK' /\ EnteringOK' /\ ScreenOK'
    BY <1>1, <1>2 DEF SInv, PhasesOK, EnteringOK, Entering, ScreenOK, feed
  <1>7. SubmitsOK'
    BY <1>1, <1>2 DEF SubmitsOK
  <1>. QED BY <1>3, <1>5, <1>6, <1>7 DEF SInv

\* The topics are submitted by the only handler.
LEMMA ContinueKeeps == ASSUME SInv, NEW h \in Submits, ClickContinue(h) PROVE SInv'
  <1>1. /\ screen = "onboarding" /\ enabled /\ phase[h] = "off" /\ enabled' = FALSE
        /\ phase' = [phase EXCEPT ![h] = "call"]
        /\ UNCHANGED <<screen, session, grid, picked, marked, nav, feed, mishaps, reading>>
    BY DEF ClickContinue, MayStart, Goes
  <1>2. h \in Handlers /\ phase'[h] = "call" /\ \A g \in Handlers \ {h} : phase'[g] = phase[g]
    BY <1>1 DEF SInv, ShellTypeOK, Handlers
  <1>3. h \notin Forms /\ h # Startup
    BY ShellAssumption
  <1>4. ShellTypeOK'
    BY <1>1, <1>2 DEF SInv, ShellTypeOK, nav, feed
  <1>5. PhasesOK' /\ MarkedIsPicked'
    BY <1>1, <1>2 DEF SInv, PhasesOK, MarkedIsPicked
  <1>6. "chips" \notin mishaps => \A g \in Submits : phase[g] # "call"
    BY <1>1 DEF SInv, SubmitsOK
  <1>7. EnteringOK'
    <2>. SUFFICES ASSUME mishaps = {} PROVE EnteringOK'
      BY <1>1 DEF EnteringOK
    <2>1. \A g \in Handlers \ {h} : ~Entering(g)
      BY <1>1, <1>6 DEF SInv, EnteringOK, Entering, PhasesOK, Handlers
    <2>. QED BY <1>1, <1>2, <1>3, <2>1 DEF SInv, EnteringOK, Entering
  <1>8. ScreenOK'
    BY <1>1, <1>2 DEF SInv, ScreenOK, feed
  <1>9. SubmitsOK'
    BY <1>1, <1>2, <1>6 DEF SInv, SubmitsOK, Handlers
  <1>. QED BY <1>4, <1>5, <1>7, <1>8, <1>9 DEF SInv

\* The reader whose topics are saved goes to the feed.
LEMMA SavedKeeps == ASSUME SInv, NEW h \in Submits, TopicsSaved(h) PROVE SInv'
  <1>1. /\ phase[h] = "call" /\ session' = IF session = None THEN None ELSE "ready"
        /\ screen' = "app" /\ phase' = [phase EXCEPT ![h] = "pillars"]
        /\ UNCHANGED <<onboarding, nav, feed, mishaps>>
    BY DEF TopicsSaved, EnterApp, Show, Goes
  <1>2. h \in Handlers /\ phase'[h] = "pillars" /\ \A g \in Handlers \ {h} : phase'[g] = phase[g]
    BY <1>1 DEF SInv, ShellTypeOK, Handlers
  <1>3. h \notin Forms /\ h # Startup
    BY ShellAssumption
  <1>4. ShellTypeOK'
    BY <1>1, <1>2 DEF SInv, ShellTypeOK, Screens, onboarding, nav, feed
  <1>5. PhasesOK' /\ MarkedIsPicked'
    BY <1>1, <1>2 DEF SInv, PhasesOK, MarkedIsPicked, onboarding
  <1>6. mishaps = {} => /\ \A g \in Handlers \ {h} : ~Entering(g)
                        /\ screen = "onboarding" /\ session = "new"
    BY <1>1, <1>2, <1>3 DEF SInv, EnteringOK, Entering, ScreenOK
  <1>7. EnteringOK'
    BY <1>1, <1>2, <1>6 DEF EnteringOK, Entering
  <1>8. ScreenOK'
    BY <1>1, <1>2, <1>6, ShellAssumption DEF SInv, ScreenOK, feed
  <1>9. SubmitsOK'
    BY <1>1, <1>2, SubmitsKeep DEF onboarding, Handlers
  <1>. QED BY <1>4, <1>5, <1>7, <1>8, <1>9 DEF SInv

\* A call that fails: the startup goes to the auth screen, another handler stays.
LEMMA CaughtSubmits ==
  ASSUME SInv, NEW h \in Handlers, phase[h] = "call", Caught(h), UNCHANGED <<picked, mishaps>>
  PROVE  SubmitsOK'
  <1>1. /\ phase'[h] = "off" /\ \A g \in Handlers \ {h} : phase'[g] = phase[g]
        /\ enabled' = (enabled \/ h \in Submits)
    BY DEF Caught, Goes, SInv, ShellTypeOK
  <1>2. CASE h \in Submits
    BY <1>1, <1>2 DEF SInv, SubmitsOK, Handlers
  <1>3. CASE h \notin Submits
    BY <1>1, <1>3, SubmitsKeep DEF Handlers
  <1>. QED BY <1>2, <1>3

LEMMA FailsKeeps == ASSUME SInv, NEW h \in Handlers, CallFails(h) PROVE SInv'
  <1>1. /\ phase[h] = "call" /\ Caught(h) /\ phase' = [phase EXCEPT ![h] = "off"]
        /\ screen' = IF h = Startup THEN "auth" ELSE screen
        /\ enabled' = (enabled \/ h \in Submits)
        /\ UNCHANGED <<session, grid, picked, marked, nav, feed, mishaps>>
    BY DEF CallFails, Caught, Goes, Show
  <1>2. phase'[h] = "off" /\ \A g \in Handlers \ {h} : phase'[g] = phase[g]
    BY <1>1 DEF SInv, ShellTypeOK
  <1>3. enabled' \in BOOLEAN
    BY <1>1
  <1>4. ShellTypeOK'
    BY <1>1, <1>3 DEF SInv, ShellTypeOK, Screens, nav, feed
  <1>5. PhasesOK' /\ MarkedIsPicked'
    BY <1>1, <1>2 DEF SInv, PhasesOK, MarkedIsPicked
  <1>6. mishaps = {} => /\ \A g \in Handlers \ {h} : ~Entering(g)
                        /\ h = Startup => screen = "splash"
    BY <1>1 DEF SInv, EnteringOK, Entering
  <1>7. EnteringOK'
    BY <1>1, <1>2, <1>6 DEF EnteringOK, Entering
  <1>8. ScreenOK'
    BY <1>1, <1>2, <1>6 DEF SInv, ScreenOK, feed
  <1>9. SubmitsOK'
    BY <1>1, CaughtSubmits
  <1>. QED BY <1>4, <1>5, <1>7, <1>8, <1>9 DEF SInv

\* A call that is denied: no other handler is left that would bring back a screen.
LEMMA DeniedKeeps == ASSUME SInv, NEW h \in Handlers, CallDenied(h) PROVE SInv'
  <1>1. /\ phase[h] = "call" /\ Caught(h) /\ phase' = [phase EXCEPT ![h] = "off"]
        /\ screen' = "auth" /\ session' = None /\ enabled' = (enabled \/ h \in Submits)
        /\ UNCHANGED <<grid, picked, marked, nav, feed, mishaps>>
    BY DEF CallDenied, Caught, Goes, LogOut, Show
  <1>2. phase'[h] = "off" /\ \A g \in Handlers \ {h} : phase'[g] = phase[g]
    BY <1>1 DEF SInv, ShellTypeOK
  <1>3. enabled' \in BOOLEAN
    BY <1>1
  <1>4. ShellTypeOK'
    BY <1>1, <1>3 DEF SInv, ShellTypeOK, Screens, nav, feed
  <1>5. PhasesOK' /\ MarkedIsPicked'
    BY <1>1, <1>2 DEF SInv, PhasesOK, MarkedIsPicked
  <1>6. mishaps = {} => (\A g \in Handlers \ {h} : ~Entering(g)) /\ screen # "app"
    BY <1>1 DEF SInv, EnteringOK, Entering
  <1>7. EnteringOK'
    BY <1>1, <1>2, <1>6 DEF EnteringOK, Entering
  <1>8. ScreenOK'
    BY <1>1, <1>2, <1>6, ShellAssumption DEF SInv, ScreenOK, feed
  <1>9. SubmitsOK'
    BY <1>1, CaughtSubmits
  <1>. QED BY <1>4, <1>5, <1>7, <1>8, <1>9 DEF SInv

\* The first page is that of the reader only if the reader is still there.
LEMMA EntryKeeps == ASSUME SInv, NEW h \in Handlers, FinishEntry(h) PROVE SInv'
  <1>1. /\ phase[h] = "pillars" /\ phase' = [phase EXCEPT ![h] = "off"]
        /\ pillars' \in {pillars, TRUE} /\ watched' = TRUE
        /\ exhausted' = exhausted
        /\ loading' \in {loading, IF session = "ready" THEN "feed" ELSE "articles"}
        /\ UNCHANGED <<screen, session, onboarding, mishaps>>
    BY DEF FinishEntry, Load, feed, Goes
  <1>2. phase'[h] = "off" /\ \A g \in Handlers \ {h} : phase'[g] = phase[g]
    BY <1>1 DEF SInv, ShellTypeOK
  <1>3. ShellTypeOK'
    <2>1. pillars' \in BOOLEAN /\ watched' \in BOOLEAN /\ loading' \in {"no", "feed", "articles"}
      BY <1>1 DEF SInv, ShellTypeOK
    <2>. QED BY <1>1, <2>1 DEF SInv, ShellTypeOK, onboarding
  <1>4. PhasesOK' /\ MarkedIsPicked'
    BY <1>1, <1>2 DEF SInv, PhasesOK, MarkedIsPicked, onboarding
  <1>5. EnteringOK'
    BY <1>1, <1>2 DEF SInv, EnteringOK, Entering
  <1>6. ScreenOK'
    BY <1>1, <1>2 DEF SInv, ScreenOK, ShellTypeOK, Screens
  <1>7. SubmitsOK'
    BY <1>1, <1>2, SubmitsKeep DEF onboarding, Handlers
  <1>. QED BY <1>3, <1>4, <1>5, <1>6, <1>7 DEF SInv

\* The pages of the feed: one of the reader's is asked for on the feed's screen, and
\* when it is denied there is no handler that would leave the auth screen.
LEMMA PagesKeep ==
  ASSUME SInv, ScrollToEnd \/ SelectPillar \/ PageArrives \/ PageFails \/ PageDenied
  PROVE  SInv'
  <1>1. CASE PageDenied
    <2>1. /\ loading = "feed" /\ loading' = "no" /\ session' = None /\ screen' = "auth"
          /\ UNCHANGED <<phase, onboarding, nav, exhausted, mishaps>>
      BY <1>1 DEF PageDenied, LogOut, Show
    <2>2. ShellTypeOK' /\ PhasesOK' /\ MarkedIsPicked'
      BY <2>1 DEF SInv, ShellTypeOK, PhasesOK, MarkedIsPicked, Screens, onboarding, nav
    <2>3. mishaps = {} => \A h \in Handlers : ~Entering(h)
      BY <2>1 DEF SInv, EnteringOK, ScreenOK
    <2>4. EnteringOK' /\ ScreenOK'
      BY <2>1, <2>3, ShellAssumption DEF EnteringOK, Entering, ScreenOK
    <2>5. SubmitsOK'
      BY <2>1, SubmitsKeep DEF onboarding
    <2>. QED BY <2>2, <2>4, <2>5 DEF SInv
  <1>2. CASE ScrollToEnd \/ SelectPillar \/ PageArrives \/ PageFails
    <2>1. /\ loading' \in {"no", "feed", "articles"} /\ exhausted' \in BOOLEAN
          /\ loading' = "feed" => loading = "feed" \/ screen = "app"
          /\ UNCHANGED <<screen, session, phase, onboarding, nav, mishaps>>
      BY <1>2 DEF ScrollToEnd, SelectPillar, PageArrives, PageFails, Load, feed, SInv, ShellTypeOK
    <2>2. ShellTypeOK' /\ PhasesOK' /\ MarkedIsPicked'
      BY <2>1 DEF SInv, ShellTypeOK, PhasesOK, MarkedIsPicked, onboarding, nav
    <2>3. EnteringOK' /\ ScreenOK'
      BY <2>1 DEF SInv, EnteringOK, Entering, ScreenOK
    <2>4. SubmitsOK'
      BY <2>1, SubmitsKeep DEF onboarding
    <2>. QED BY <2>2, <2>3, <2>4 DEF SInv
  <1>. QED BY <1>1, <1>2

\* A page that has just been loaded.
LEMMA FreshShell ==
  ASSUME screen' = "splash", phase' = Splash, grid' = FALSE, picked' = {}, marked' = {},
         enabled' = FALSE, pillars' = FALSE, watched' = FALSE, loading' = "no",
         exhausted' = FALSE, mishaps' = {}, session' \in {"new", "ready", None}
  PROVE  SInv'
  <1>1. ShellTypeOK' /\ MarkedIsPicked'
    BY DEF ShellTypeOK, Screens, Splash, MarkedIsPicked
  <1>2. \A h \in Handlers : phase'[h] = IF h = Startup THEN "splash" ELSE "off"
    BY DEF Splash
  <1>3. PhasesOK' /\ EnteringOK' /\ ScreenOK' /\ SubmitsOK'
    BY <1>2, ShellAssumption DEF PhasesOK, EnteringOK, Entering, ScreenOK, SubmitsOK, Handlers
  <1>. QED BY <1>1, <1>3 DEF SInv

LEMMA ShellInitially == Init => SInv
  <1>. SUFFICES ASSUME Init PROVE SInv
    OBVIOUS
  <1>1. ShellTypeOK /\ MarkedIsPicked
    BY DEF Init, ShellTypeOK, Screens, Splash, MarkedIsPicked
  <1>2. \A h \in Handlers : phase[h] = IF h = Startup THEN "splash" ELSE "off"
    BY DEF Init, Splash
  <1>3. PhasesOK /\ EnteringOK /\ ScreenOK /\ SubmitsOK
    BY <1>2, ShellAssumption DEF Init, PhasesOK, EnteringOK, Entering, ScreenOK, SubmitsOK, Handlers
  <1>. QED BY <1>1, <1>3 DEF SInv

\* Every step keeps the screens.
LEMMA ShellKeeps == ASSUME SInv, [Next]_vars PROVE SInv'
  <1>1. CASE Boot
    BY <1>1, BootKeeps
  <1>2. CASE Reload
    BY <1>2, FreshShell DEF Reload, SInv, ShellTypeOK
  <1>3. CASE \E h \in Handlers : Handle(h)
    BY <1>3, ClickFormKeeps, AdmitKeeps, OnboardingKeeps, FailsKeeps, DeniedKeeps, EntryKeeps DEF Handle
  <1>4. CASE \E h \in Submits : ClickContinue(h) \/ TopicsSaved(h)
    BY <1>4, ContinueKeeps, SavedKeeps
  <1>5. CASE \E t \in Topics : ToggleTopic(t)
    BY <1>5, ToggleKeeps
  <1>6. CASE ScrollToEnd \/ SelectPillar \/ PageArrives \/ PageFails \/ PageDenied
    BY <1>6, PagesKeep
  <1>7. CASE UNCHANGED shell
    BY <1>7 DEF shell, onboarding, nav, feed, SInv, ShellTypeOK, PhasesOK, EnteringOK, Entering,
                ScreenOK, SubmitsOK, MarkedIsPicked
  <1>. QED BY <1>1, <1>2, <1>3, <1>4, <1>5, <1>6, <1>7 DEF Next, vars

LEMMA ShellInvariant == Spec => []SInv
  BY ShellInitially, ShellKeeps, PTL DEF Spec

-----------------------------------------------------------------------------
(* The theorems *)

\* app.js:323-351, feed.js: the feed and the choice of topics are on the screen of a
\* reader with a session only, and an article is open over nothing but the feed, however
\* a session ends and however many handlers wait meanwhile.
THEOREM ScreensForReaders == Spec => []ShellInv
  <1>1. RInv /\ SInv => ShellInv
    BY ShellAssumption DEF RInv, SInv, ShellInv, ShellTypeOK, TypeOK, SessionOnScreen, ScreenOK
  <1>. QED BY <1>1, ReadingInvariant, ShellInvariant, PTL

\* events.js:63 and _savePersist of feed.js: a dwell event counts one uninterrupted stay
\* of its article on the screen, and the marks of the reader are those in localStorage.
THEOREM ReadsAndMarks == Spec => []ReadingInv
  <1>1. RInv => ReadingInv
    BY DEF RInv
  <1>. QED BY <1>1, ReadingInvariant, PTL

\* app.js:138: _selectedTopics is sent once, with enough topics, and every topic that is
\* shown as selected is among them (others may be, too, of the reader before).
THEOREM TopicsOnce == Spec => []TopicsSent
  <1>1. SInv => TopicsSent
    <2>. SUFFICES ASSUME SInv, "chips" \notin mishaps
                  PROVE  Cardinality({h \in Submits : phase[h] = "call"}) <= 1
      BY DEF SInv, SubmitsOK, TopicsSent, OneSubmission
    <2>. DEFINE S == {h \in Submits : phase[h] = "call"}
    <2>1. CASE S = {}
      BY <2>1, FS_EmptySet
    <2>2. CASE \E h \in S : S = {h}
      BY <2>2, FS_Singleton
    <2>3. \A g, h \in S : g = h
      BY DEF SInv, SubmitsOK
    <2>. QED BY <2>1, <2>2, <2>3
  <1>. QED BY <1>1, ShellInvariant, PTL

\* _renderBatch of feed.js: what the reader has hidden does not come back into the feed.
THEOREM HiddenGone == Spec => HiddenStaysHidden
  <1>1. ASSUME RInv, [Next]_vars
        PROVE  [\A a \in wanted.hidden : a \notin cards => a \notin cards']_<<cards>>
    <2>1. \A a \in hidden : a \notin cards => a \notin cards'
      BY <1>1, NextReading DEF Untouched, Shows, UntouchedReading, Lists, Reloads, ReloadReading,
         Read, ToggleSave, ShowMenu, OpenArticle, SlideIn, CloseDetail, Elsewhere, CloseMenu,
         HideArticle, HideTimer, vars, reading
    <2>. QED BY <1>1, <2>1 DEF RInv, ReadingInv, MarksKept
  <1>. QED BY <1>1, ReadingInvariant, PTL DEF Spec, HiddenStaysHidden

-----------------------------------------------------------------------------
(* The service behind the onboarding screen: Onboarding, for any slugs,    *)
(* taxonomy, sources and number of requests, any signals and lengths and   *)
(* any fewest number of slugs.                                             *)

\* What a request has read of the affinities is still true where it says yes, since
\* nothing deletes a row or takes an explicit weight away.
ReadsOK ==
    \A r \in Requests :
        /\ pc[r] # "seed" => DOMAIN got[r] = {}
        /\ \A t \in DOMAIN got[r] :
             /\ got[r][t].explicit => t \in explicit
             /\ got[r][t].there => t \in rated

\* Without an overlap the job and the requests find each other at rest.
NightOK ==
    /\ job = "off" => DOMAIN seen = {}
    /\ "night" \notin slips =>
         /\ job # "off" => \A r \in Requests : pc[r] = "off"
         /\ job = "rows" => \A t \in DOMAIN seen : seen[t] = AffinityRow(t)
         /\ \A r \in Requests : \A t \in DOMAIN got[r] :
              got[r][t].combined >= 60 => combined[t] >= 60

\* Without an overlap a request has read what is there.
TurnOK ==
    /\ ~started => chosen = {} /\ muted = {} /\ step = 0
    /\ \A r \in Requests : pc[r] \in {"reload", "select"} => started
    /\ "requests" \notin slips =>
         /\ \A r, q \in Requests : pc[r] # "off" /\ pc[q] # "off" => r = q
         /\ \A r \in Requests :
              /\ pc[r] = "create" => ~started
              /\ pc[r] = "select" => ob[r] = ReadState
    /\ slips = {} => \A r \in Requests : \A t \in DOMAIN got[r] :
                           got[r][t].there = (t \in rated)

TInv ==
    /\ OnboardingTypeOK
    /\ AcknowledgedIsWeighted
    /\ ReadsOK
    /\ NightOK
    /\ ChosenRanksHigh
    /\ TurnOK
    /\ SelectionsKept
    /\ AloneSucceeds

\* No rows.
LEMMA NoRows == DOMAIN NoReads = {} /\ AreReads(NoReads)
  BY DEF NoReads, AreReads

\* A row is read as it is, beside the others.
LEMMA AddedRow ==
  ASSUME OnboardingTypeOK, NEW rows, AreReads(rows), NEW t \in Slugs
  PROVE  /\ AreReads(AddRow(rows, t))
         /\ DOMAIN AddRow(rows, t) = DOMAIN rows \cup {t}
         /\ AddRow(rows, t)[t] = AffinityRow(t)
         /\ \A u \in DOMAIN rows : u # t => AddRow(rows, t)[u] = rows[u]
  <1>1. AffinityRow(t) \in Row
    BY DEF OnboardingTypeOK, AffinityRow, Row
  <1>. QED BY <1>1 DEF AddRow, AreReads

\* The request's own variables.
RequestOK ==
    /\ pc \in [Requests -> {"off", "topics", "sources", "create", "reload", "select", "seed"}]
    /\ body \in [Requests -> [topics: SUBSET Slugs, sources: SUBSET Sources,
                              kind: {"topics", "sources"}]]
    /\ ob \in [Requests -> Selections]
    /\ DOMAIN got = Requests /\ \A r \in Requests : AreReads(got[r])

\* A request that ends leaves nothing behind, and the others alone.
LEMMA Ended ==
  ASSUME OnboardingTypeOK, NEW r \in Requests, End(r)
  PROVE  /\ RequestOK'
         /\ pc'[r] = "off" /\ DOMAIN got'[r] = {}
         /\ \A q \in Requests \ {r} :
              pc'[q] = pc[q] /\ body'[q] = body[q] /\ ob'[q] = ob[q] /\ got'[q] = got[q]
  <1>1. pc' \in [Requests -> {"off", "topics", "sources", "create", "reload", "select", "seed"}]
    BY DEF End, GoTo, OnboardingTypeOK
  <1>2. body' \in [Requests -> [topics: SUBSET Slugs, sources: SUBSET Sources,
                                kind: {"topics", "sources"}]]
    BY DEF End, OnboardingTypeOK
  <1>3. Nothing \in Selections
    BY DEF Nothing, Selections
  <1>4. ob' \in [Requests -> Selections]
    BY <1>3 DEF End, OnboardingTypeOK
  <1>5. /\ DOMAIN got' = Requests
        /\ \A q \in Requests : got'[q] = IF q = r THEN NoReads ELSE got[q]
    BY DEF End, OnboardingTypeOK
  <1>6. (\A q \in Requests : AreReads(got[q]))'
    BY <1>5, NoRows DEF OnboardingTypeOK, AreReads
  <1>7. \A q \in Requests \ {r} :
              pc'[q] = pc[q] /\ body'[q] = body[q] /\ ob'[q] = ob[q] /\ got'[q] = got[q]
    BY <1>5 DEF End, GoTo, OnboardingTypeOK
  <1>8. pc'[r] = "off" /\ DOMAIN got'[r] = {}
    BY <1>5, NoRows DEF End, GoTo, OnboardingTypeOK
  <1>. QED BY <1>1, <1>2, <1>4, <1>5, <1>6, <1>7, <1>8 DEF RequestOK

\* Nothing has happened yet.
LEMMA TasteInitially == OnboardingInit => TInv
  <1>. SUFFICES ASSUME OnboardingInit PROVE TInv
    OBVIOUS
  <1>1. Nothing \in Selections /\ (TRUE \in BOOLEAN /\ FALSE \in BOOLEAN)
    BY DEF Nothing, Selections
  <1>2. RequestOK
    BY <1>1, NoRows DEF OnboardingInit, RequestOK
  <1>3. raw \in [DOMAIN raw -> Signals] /\ DOMAIN raw \subseteq Slugs
    BY DEF OnboardingInit, NoReads
  <1>4. OnboardingTypeOK
    <2>1. /\ implicit \in [Slugs -> 0..9] /\ combined \in [Slugs -> 0..96]
          /\ step \in 0..2 /\ profile \in Lengths \cup {NoVector}
      BY DEF OnboardingInit
    <2>2. /\ started \in BOOLEAN /\ failed \in BOOLEAN
          /\ last \in Selections /\ AreReads(seen)
      BY <1>1, NoRows DEF OnboardingInit
    <2>. QED BY <1>2, <1>3, <2>1, <2>2 DEF OnboardingInit, OnboardingTypeOK, RequestOK
  <1>5. ReadsOK /\ NightOK /\ TurnOK
    BY NoRows DEF OnboardingInit, ReadsOK, NightOK, TurnOK
  <1>6. /\ AcknowledgedIsWeighted /\ ChosenRanksHigh
        /\ SelectionsKept /\ AloneSucceeds
    BY DEF OnboardingInit, AcknowledgedIsWeighted, ChosenRanksHigh,
           SelectionsKept, AloneSucceeds, Nothing
  <1>. QED BY <1>4, <1>5, <1>6 DEF TInv

\* A new request has read nothing, and remembers whom it overlaps.
LEMMA PostKeeps ==
  ASSUME TInv, NEW r \in Requests, PostTopics(r) \/ PostSources(r)
  PROVE  TInv'
  <1>. USE DEF GoTo, state, affinity, night
  <1>1. slips \subseteq slips' /\ slips' \subseteq Slips
    BY DEF PostTopics, PostSources, Overlaps, Slips, TInv,
           OnboardingTypeOK
  <1>2. /\ pc' \in [Requests -> {"off", "topics", "sources", "create", "reload", "select", "seed"}]
        /\ pc[r] = "off" /\ pc'[r] \in {"topics", "sources"}
        /\ \A q \in Requests \ {r} : pc'[q] = pc[q]
    BY DEF PostTopics, PostSources, TInv, OnboardingTypeOK
  <1>3. body' \in [Requests -> [topics: SUBSET Slugs, sources: SUBSET Sources,
                                kind: {"topics", "sources"}]]
    <2>1. \A S \in SUBSET Slugs : [topics |-> S, sources |-> {}, kind |-> "topics"]
              \in [topics: SUBSET Slugs, sources: SUBSET Sources, kind: {"topics", "sources"}]
      OBVIOUS
    <2>2. \A S \in SUBSET Sources : [topics |-> {}, sources |-> S, kind |-> "sources"]
              \in [topics: SUBSET Slugs, sources: SUBSET Sources, kind: {"topics", "sources"}]
      OBVIOUS
    <2>3. PICK new \in [topics: SUBSET Slugs, sources: SUBSET Sources, kind: {"topics", "sources"}] :
              body' = [body EXCEPT ![r] = new]
      BY <2>1, <2>2 DEF PostTopics, PostSources
    <2>. QED BY <2>3 DEF TInv, OnboardingTypeOK
  <1>4. UNCHANGED <<started, step, chosen, muted, rated, explicit, implicit, combined, profile,
                    ob, got, job, raw, seen, acked, last, failed>>
    BY DEF PostTopics, PostSources
  <1>5. OnboardingTypeOK'
    BY <1>1, <1>2, <1>3, <1>4 DEF TInv, OnboardingTypeOK, AreReads
  <1>6. ReadsOK' /\ AcknowledgedIsWeighted'
    BY <1>2, <1>4 DEF TInv, ReadsOK, AcknowledgedIsWeighted
  <1>7. "night" \notin slips' => job = "off"
    BY DEF PostTopics, PostSources, Overlaps
  <1>8. NightOK' /\ ChosenRanksHigh'
    BY <1>1, <1>4, <1>7 DEF TInv, NightOK, ChosenRanksHigh, AffinityRow
  <1>9. "requests" \notin slips' => \A q \in Requests : pc[q] = "off"
    BY DEF PostTopics, PostSources, Overlaps
  <1>10. TurnOK'
    <2>1. CASE "requests" \in slips'
      BY <2>1, <1>1, <1>2, <1>4 DEF TInv, TurnOK
    <2>2. CASE "requests" \notin slips'
      <3>1. \A q, q2 \in Requests : pc'[q] # "off" /\ pc'[q2] # "off" => q = q2
        BY <2>2, <1>2, <1>9
      <3>2. \A q \in Requests : pc'[q] \in {"off", "topics", "sources"}
        BY <2>2, <1>2, <1>9
      <3>3. slips' = {} => \A q \in Requests : \A t \in DOMAIN got'[q] :
                                got'[q][t].there = (t \in rated')
        BY <1>1, <1>4 DEF TInv, TurnOK
      <3>4. \A q \in Requests : pc'[q] # "create" /\ pc'[q] # "select" /\ pc'[q] # "reload"
        BY <3>2
      <3>. QED BY <1>4, <3>1, <3>3, <3>4 DEF TInv, TurnOK
    <2>. QED BY <2>1, <2>2
  <1>11. SelectionsKept' /\ AloneSucceeds'
    BY <1>1, <1>4 DEF TInv, SelectionsKept, AloneSucceeds
  <1>. QED BY <1>5, <1>6, <1>8, <1>10, <1>11 DEF TInv

\* The statements before the first commit of a handler leave the weights alone.
LEMMA StateKeeps ==
  ASSUME TInv, NEW r \in Requests, GetState(r) \/ ReloadState(r)
  PROVE  TInv'
  <1>. USE DEF GoTo, state, affinity, night, history
  <1>1. UNCHANGED <<started, step, chosen, muted, rated, explicit, implicit, combined, profile,
                    body, got, job, raw, seen, acked, last, slips, failed>>
    BY DEF GetState, ReloadState
  <1>2. /\ pc' \in [Requests -> {"off", "topics", "sources", "create", "reload", "select", "seed"}]
        /\ pc[r] \in {"topics", "sources", "reload"}
        /\ \/ pc'[r] = "create" /\ ~started
           \/ pc'[r] = "select" /\ (started \/ pc[r] = "reload")
        /\ \A q \in Requests \ {r} : pc'[q] = pc[q]
    <2>1. pc \in [Requests -> {"off", "topics", "sources", "create", "reload", "select", "seed"}]
      BY DEF TInv, OnboardingTypeOK
    <2>2. /\ pc[r] \in {"topics", "sources", "reload"}
          /\ \/ pc' = [pc EXCEPT ![r] = "create"] /\ ~started
             \/ pc' = [pc EXCEPT ![r] = "select"] /\ (started \/ pc[r] = "reload")
      BY DEF GetState, ReloadState
    <2>. QED BY <2>1, <2>2
  <1>3. ReadState \in Selections
    BY DEF ReadState, Selections, TInv, OnboardingTypeOK
  <1>4. /\ ob' \in [Requests -> Selections]
        /\ pc'[r] = "select" => ob'[r] = ReadState
        /\ \A q \in Requests \ {r} : ob'[q] = ob[q]
    BY <1>3 DEF GetState, ReloadState, TInv, OnboardingTypeOK
  <1>5. OnboardingTypeOK'
    BY <1>1, <1>2, <1>4 DEF TInv, OnboardingTypeOK, AreReads
  <1>6. ReadsOK' /\ AcknowledgedIsWeighted'
    BY <1>1, <1>2 DEF TInv, ReadsOK, AcknowledgedIsWeighted
  <1>7. NightOK' /\ ChosenRanksHigh'
    BY <1>1, <1>2 DEF TInv, NightOK, ChosenRanksHigh, AffinityRow
  <1>8. TurnOK'
    BY <1>1, <1>2, <1>4 DEF TInv, TurnOK, ReadState
  <1>9. SelectionsKept' /\ AloneSucceeds'
    BY <1>1 DEF TInv, SelectionsKept, AloneSucceeds
  <1>. QED BY <1>5, <1>6, <1>7, <1>8, <1>9 DEF TInv

\* A row that is made has nothing in it, and one that is there is not made again.
LEMMA CreateKeeps ==
  ASSUME TInv, NEW r \in Requests, CreateState(r)
  PROVE  TInv'
  <1>. USE DEF affinity, night
  <1>1. UNCHANGED <<rated, explicit, implicit, combined, profile, job, raw, seen, acked, last, slips>>
        /\ pc[r] = "create"
    BY DEF CreateState
  <1>2. CASE ~started
    <2>1. /\ started' = TRUE /\ step' = 0 /\ chosen' = {} /\ muted' = {}
          /\ UNCHANGED <<body, ob, got, failed>>
          /\ pc' \in [Requests -> {"off", "topics", "sources", "create", "reload", "select", "seed"}]
          /\ pc'[r] = "reload"
          /\ \A q \in Requests \ {r} : pc'[q] = pc[q]
      BY <1>2 DEF CreateState, GoTo, TInv, OnboardingTypeOK
    <2>2. OnboardingTypeOK'
      BY <1>1, <2>1 DEF TInv, OnboardingTypeOK, AreReads
    <2>3. ReadsOK' /\ AcknowledgedIsWeighted'
      BY <1>1, <2>1 DEF TInv, ReadsOK, AcknowledgedIsWeighted
    <2>4. NightOK' /\ ChosenRanksHigh'
      BY <1>1, <2>1 DEF TInv, NightOK, ChosenRanksHigh, AffinityRow
    <2>5. TurnOK'
      <3>1. CASE "requests" \in slips
        BY <3>1, <1>1, <2>1 DEF TInv, TurnOK
      <3>2. CASE "requests" \notin slips
        <4>1. \A q \in Requests \ {r} : pc'[q] = "off"
          BY <3>2, <1>1, <2>1 DEF TInv, TurnOK
        <4>. QED BY <3>2, <4>1, <1>1, <2>1 DEF TInv, TurnOK
      <3>. QED BY <3>1, <3>2
    <2>6. SelectionsKept' /\ AloneSucceeds'
      BY <1>1, <1>2, <2>1 DEF TInv, TurnOK, SelectionsKept, AloneSucceeds
    <2>. QED BY <2>2, <2>3, <2>4, <2>5, <2>6 DEF TInv
  <1>3. CASE started
    <2>1. End(r) /\ failed' = TRUE /\ UNCHANGED <<started, step, chosen, muted>>
      BY <1>3 DEF CreateState, state
    <2>2. /\ RequestOK'
          /\ pc'[r] = "off" /\ DOMAIN got'[r] = {}
          /\ \A q \in Requests \ {r} :
               pc'[q] = pc[q] /\ body'[q] = body[q] /\ ob'[q] = ob[q] /\ got'[q] = got[q]
      BY <2>1, Ended DEF TInv
    <2>3. OnboardingTypeOK'
      BY <1>1, <2>1, <2>2 DEF TInv, OnboardingTypeOK, RequestOK, AreReads
    <2>4. ReadsOK' /\ AcknowledgedIsWeighted'
      BY <1>1, <2>1, <2>2 DEF TInv, ReadsOK, AcknowledgedIsWeighted
    <2>5. NightOK' /\ ChosenRanksHigh'
      BY <1>1, <2>1, <2>2 DEF TInv, NightOK, ChosenRanksHigh, AffinityRow
    <2>6. "requests" \in slips
      BY <1>1, <1>3 DEF TInv, TurnOK
    <2>7. TurnOK' /\ SelectionsKept' /\ AloneSucceeds'
      BY <1>1, <2>1, <2>2, <2>6 DEF TInv, TurnOK, SelectionsKept,
             AloneSucceeds
    <2>. QED BY <2>3, <2>4, <2>5, <2>7 DEF TInv
  <1>. QED BY <1>2, <1>3

\* A request that breaks off leaves the weights and the selection alone.
LEMMA BreakKeeps ==
  ASSUME TInv, NEW r \in Requests, Break(r)
  PROVE  TInv'
  <1>1. End(r) /\ UNCHANGED <<started, step, chosen, muted, rated, explicit, implicit, combined,
                    profile, job, raw, seen, acked, last, slips, failed>>
    BY DEF Break, state, affinity, night, history
  <1>2. /\ RequestOK'
        /\ pc'[r] = "off" /\ DOMAIN got'[r] = {}
        /\ \A q \in Requests \ {r} :
             pc'[q] = pc[q] /\ body'[q] = body[q] /\ ob'[q] = ob[q] /\ got'[q] = got[q]
    BY <1>1, Ended DEF TInv
  <1>3. OnboardingTypeOK'
    BY <1>1, <1>2 DEF TInv, OnboardingTypeOK, RequestOK, AreReads
  <1>4. ReadsOK' /\ AcknowledgedIsWeighted'
    BY <1>1, <1>2 DEF TInv, ReadsOK, AcknowledgedIsWeighted
  <1>5. NightOK' /\ ChosenRanksHigh'
    BY <1>1, <1>2 DEF TInv, NightOK, ChosenRanksHigh, AffinityRow
  <1>6. TurnOK'
    BY <1>1, <1>2 DEF TInv, TurnOK, ReadState
  <1>7. SelectionsKept' /\ AloneSucceeds'
    BY <1>1 DEF TInv, SelectionsKept, AloneSucceeds
  <1>. QED BY <1>3, <1>4, <1>5, <1>6, <1>7 DEF TInv

\* A selection stays one with other topics ...
LEMMA OtherTopics ==
  ASSUME NEW s \in Selections, NEW n \in 0..2, NEW S \in SUBSET Slugs
  PROVE  [s EXCEPT !.chosen = S, !.step = n] \in Selections
  BY DEF Selections

\* ... or with other sources.
LEMMA OtherSources ==
  ASSUME NEW s \in Selections, NEW n \in 0..2, NEW S \in SUBSET Sources
  PROVE  [s EXCEPT !.muted = S, !.step = n] \in Selections
  BY DEF Selections

\* What a handler saves is what it has read, with its own part in it.
LEMMA SaveKeeps ==
  ASSUME TInv, NEW r \in Requests, SaveState(r)
  PROVE  TInv'
  <1>. DEFINE new == Selected(r)
              topics == body[r].kind = "topics"
  <1>1. /\ new \in Selections
        /\ new.step >= 1
        /\ topics  => new.chosen = body[r].topics /\ new.muted = ob[r].muted
                      /\ new.step = Bigger(ob[r].step, 1)
        /\ ~topics => new.chosen = ob[r].chosen /\ new.muted = body[r].sources
                      /\ new.step = Bigger(ob[r].step, 2)
    <2>1. /\ ob[r] \in Selections
          /\ body[r] \in [topics: SUBSET Slugs, sources: SUBSET Sources, kind: {"topics", "sources"}]
      BY DEF TInv, OnboardingTypeOK
    <2>2. Bigger(ob[r].step, 1) \in 1..2 /\ Bigger(ob[r].step, 2) = 2
      BY <2>1 DEF Bigger, Selections
    <2>3. CASE topics
      <3>1. new = [ob[r] EXCEPT !.chosen = body[r].topics, !.step = Bigger(ob[r].step, 1)]
        BY <2>3 DEF Selected
      <3>2. /\ Bigger(ob[r].step, 1) \in 0..2
            /\ body[r].topics \in SUBSET Slugs /\ ob[r] \in Selections
        BY <2>1, <2>2
      <3>. DEFINE e == [ob[r] EXCEPT !.chosen = body[r].topics, !.step = Bigger(ob[r].step, 1)]
      <3>3. /\ e \in Selections /\ e.chosen = body[r].topics
            /\ e.muted = ob[r].muted /\ e.step = Bigger(ob[r].step, 1)
        <4>1. e \in Selections
          BY <3>2, OtherTopics
        <4>2. e.chosen = body[r].topics
          BY <3>2 DEF Selections
        <4>3. e.muted = ob[r].muted
          BY <3>2 DEF Selections
        <4>4. e.step = Bigger(ob[r].step, 1)
          BY <3>2 DEF Selections
        <4>. QED BY <4>1, <4>2, <4>3, <4>4
      <3>4. new = e
        BY <3>1
      <3>. HIDE DEF e, new
      <3>. QED BY <2>2, <2>3, <3>3, <3>4
    <2>4. CASE ~topics
      <3>1. new = [ob[r] EXCEPT !.muted = body[r].sources, !.step = Bigger(ob[r].step, 2)]
        BY <2>4 DEF Selected
      <3>2. /\ Bigger(ob[r].step, 2) \in 0..2
            /\ body[r].sources \in SUBSET Sources /\ ob[r] \in Selections
        BY <2>1, <2>2
      <3>. DEFINE e == [ob[r] EXCEPT !.muted = body[r].sources, !.step = Bigger(ob[r].step, 2)]
      <3>3. /\ e \in Selections /\ e.chosen = ob[r].chosen
            /\ e.muted = body[r].sources /\ e.step = Bigger(ob[r].step, 2)
        <4>1. e \in Selections
          BY <3>2, OtherSources
        <4>2. e.chosen = ob[r].chosen
          BY <3>2 DEF Selections
        <4>3. e.muted = body[r].sources
          BY <3>2 DEF Selections
        <4>4. e.step = Bigger(ob[r].step, 2)
          BY <3>2 DEF Selections
        <4>. QED BY <4>1, <4>2, <4>3, <4>4
      <3>4. new = e
        BY <3>1
      <3>. HIDE DEF e, new
      <3>. QED BY <2>2, <2>4, <3>3, <3>4
    <2>. QED BY <2>3, <2>4
  <1>2. /\ UNCHANGED <<started, rated, explicit, implicit, combined, profile,
                       job, raw, seen, acked, slips, failed>>
        /\ pc[r] = "select"
    BY DEF SaveState, WriteState, affinity, night
  <1>3. step' \in 0..2 /\ chosen' \subseteq Slugs /\ muted' \subseteq Sources
    BY <1>1 DEF SaveState, WriteState, TInv, OnboardingTypeOK, Selections
  <1>4. last' \in Selections
    <2>1. /\ body[r].topics \subseteq Slugs /\ body[r].sources \subseteq Sources
          /\ last \in Selections /\ Bigger(last.step, 1) \in 0..2 /\ 2 \in 0..2
      BY DEF TInv, OnboardingTypeOK, Selections, Bigger
    <2>2. Nothing \in Selections
      BY DEF Nothing, Selections
    <2>3. [last EXCEPT !.chosen = body[r].topics, !.step = Bigger(last.step, 1)] \in Selections
      BY <2>1, OtherTopics
    <2>4. [last EXCEPT !.muted = body[r].sources, !.step = 2] \in Selections
      BY <2>1, OtherSources
    <2>. QED BY <2>2, <2>3, <2>4 DEF SaveState
  <1>5. /\ RequestOK'
        /\ pc'[r] \in {"off", "seed"} /\ DOMAIN got'[r] = {}
        /\ \A q \in Requests \ {r} : pc'[q] = pc[q] /\ ob'[q] = ob[q] /\ got'[q] = got[q]
    <2>1. CASE topics
      <3>1. /\ pc' = [pc EXCEPT ![r] = "seed"] /\ ob' = [ob EXCEPT ![r] = Nothing]
            /\ body' = body /\ got' = got
        BY <2>1 DEF SaveState, GoTo
      <3>2. Nothing \in Selections
        BY DEF Nothing, Selections
      <3>3. DOMAIN got[r] = {}
        BY <1>2 DEF TInv, ReadsOK
      <3>4. pc' \in [Requests -> {"off", "topics", "sources", "create", "reload", "select", "seed"}]
            /\ pc'[r] = "seed" /\ \A q \in Requests \ {r} : pc'[q] = pc[q]
        BY <3>1 DEF TInv, OnboardingTypeOK
      <3>5. ob' \in [Requests -> Selections] /\ \A q \in Requests \ {r} : ob'[q] = ob[q]
        BY <3>1, <3>2 DEF TInv, OnboardingTypeOK
      <3>. QED BY <3>1, <3>3, <3>4, <3>5 DEF TInv, OnboardingTypeOK, RequestOK, AreReads
    <2>2. CASE ~topics
      <3>1. End(r)
        BY <2>2 DEF SaveState
      <3>. QED BY <3>1, Ended DEF TInv
    <2>. QED BY <2>1, <2>2
  <1>6. OnboardingTypeOK'
    BY <1>2, <1>3, <1>4, <1>5 DEF TInv, OnboardingTypeOK, RequestOK, AreReads
  <1>7. ReadsOK' /\ AcknowledgedIsWeighted'
    BY <1>2, <1>5 DEF TInv, ReadsOK, AcknowledgedIsWeighted
  <1>8. NightOK' /\ ChosenRanksHigh'
    BY <1>2, <1>5 DEF TInv, NightOK, ChosenRanksHigh, AffinityRow
  <1>9. ASSUME "requests" \notin slips
        PROVE  /\ started /\ ob[r] = ReadState
               /\ chosen' = new.chosen /\ muted' = new.muted /\ step' = new.step
    <2>1. started /\ ob[r] = ReadState
      BY <1>2, <1>9 DEF TInv, TurnOK
    <2>2. WriteState(r, new)
      BY DEF SaveState
    <2>. QED BY <2>1, <2>2 DEF WriteState, ReadState
  <1>10. TurnOK'
    <2>1. CASE "requests" \in slips
      BY <2>1, <1>2, <1>5 DEF TInv, TurnOK
    <2>2. CASE "requests" \notin slips
      <3>1. \A q \in Requests \ {r} : pc'[q] = "off"
        BY <2>2, <1>2, <1>5 DEF TInv, TurnOK
      <3>. QED BY <2>2, <3>1, <1>2, <1>5, <1>9 DEF TInv, TurnOK
    <2>. QED BY <2>1, <2>2
  <1>11. SelectionsKept'
    <2>. SUFFICES ASSUME "requests" \notin slips
                  PROVE  chosen' = last'.chosen /\ muted' = last'.muted /\ step' = last'.step
      BY <1>2 DEF SelectionsKept
    <2>1. /\ last \in Selections
          /\ ob[r].chosen = last.chosen /\ ob[r].muted = last.muted /\ ob[r].step = last.step
      BY <1>9 DEF ReadState, TInv, OnboardingTypeOK, SelectionsKept
    <2>2. CASE topics
      BY <2>1, <2>2, <1>1, <1>9 DEF SaveState, Selections
    <2>3. CASE ~topics
      BY <2>1, <2>3, <1>1, <1>9 DEF SaveState, Selections, Bigger
    <2>. QED BY <2>2, <2>3
  <1>12. AloneSucceeds'
    BY <1>2 DEF TInv, AloneSucceeds
  <1>. QED BY <1>6, <1>7, <1>8, <1>10, <1>11, <1>12 DEF TInv

\* A row that is read now is as it is.
LEMMA SeedGetKeeps ==
  ASSUME TInv, NEW r \in Requests, SeedGet(r)
  PROVE  TInv'
  <1>1. /\ UNCHANGED <<started, step, chosen, muted, rated, explicit, implicit, combined, profile,
                       pc, body, ob, job, raw, seen, acked, last, slips, failed>>
        /\ pc[r] = "seed"
    BY DEF SeedGet, state, affinity, night, history
  <1>2. PICK t \in body[r].topics : got' = [got EXCEPT ![r] = AddRow(got[r], t)]
    BY DEF SeedGet
  <1>3. t \in Slugs /\ AreReads(got[r]) /\ DOMAIN got = Requests
    BY DEF TInv, OnboardingTypeOK
  <1>4. /\ DOMAIN got' = Requests
        /\ got'[r] = AddRow(got[r], t)
        /\ \A q \in Requests \ {r} : got'[q] = got[q]
    BY <1>2, <1>3
  <1>5. /\ AreReads(got'[r])
        /\ DOMAIN got'[r] = DOMAIN got[r] \cup {t}
        /\ got'[r][t] = AffinityRow(t)
        /\ \A u \in DOMAIN got[r] : u # t => got'[r][u] = got[r][u]
    <2>1. OnboardingTypeOK
      BY DEF TInv
    <2>. DEFINE read == got[r]
    <2>2. AreReads(read) /\ got'[r] = AddRow(read, t)
      BY <1>3, <1>4
    <2>. HIDE DEF read
    <2>3. /\ AreReads(AddRow(read, t))
          /\ DOMAIN AddRow(read, t) = DOMAIN read \cup {t}
          /\ AddRow(read, t)[t] = AffinityRow(t)
          /\ \A u \in DOMAIN read : u # t => AddRow(read, t)[u] = read[u]
      BY <1>3, <2>1, <2>2, AddedRow
    <2>. QED BY <2>2, <2>3 DEF read
  <1>6. /\ got'[r][t].there = (t \in rated)
        /\ got'[r][t].explicit = (t \in explicit)
        /\ got'[r][t].combined = combined[t]
    BY <1>5 DEF AffinityRow
  <1>7. OnboardingTypeOK'
    <2>1. \A q \in Requests : AreReads(got'[q])
      BY <1>4, <1>5 DEF TInv, OnboardingTypeOK
    <2>. QED BY <1>1, <1>4, <2>1 DEF TInv, OnboardingTypeOK, AreReads
  <1>8. ReadsOK' /\ AcknowledgedIsWeighted'
    <2>1. \A q \in Requests : pc'[q] # "seed" => DOMAIN got'[q] = {}
      BY <1>1, <1>4 DEF TInv, ReadsOK
    <2>2. \A q \in Requests : \A u \in DOMAIN got'[q] :
              (got'[q][u].explicit => u \in explicit) /\ (got'[q][u].there => u \in rated)
      BY <1>4, <1>5, <1>6 DEF TInv, ReadsOK
    <2>. QED BY <1>1, <2>1, <2>2 DEF TInv, ReadsOK, AcknowledgedIsWeighted
  <1>9. NightOK' /\ ChosenRanksHigh'
    <2>1. "night" \notin slips => \A q \in Requests : \A u \in DOMAIN got'[q] :
              got'[q][u].combined >= 60 => combined[u] >= 60
      BY <1>4, <1>5, <1>6 DEF TInv, NightOK
    <2>. QED BY <1>1, <2>1 DEF TInv, NightOK, ChosenRanksHigh, AffinityRow
  <1>10. TurnOK'
    <2>1. slips = {} => \A q \in Requests : \A u \in DOMAIN got'[q] :
              got'[q][u].there = (u \in rated)
      BY <1>4, <1>5, <1>6 DEF TInv, TurnOK
    <2>. QED BY <1>1, <2>1 DEF TInv, TurnOK, ReadState
  <1>11. SelectionsKept' /\ AloneSucceeds'
    BY <1>1 DEF TInv, SelectionsKept, AloneSucceeds
  <1>. QED BY <1>7, <1>8, <1>9, <1>10, <1>11 DEF TInv

\* The topics of an answered request weigh 1, and rank high unless the job wrote between.
LEMMA SeedSaveKeeps ==
  ASSUME TInv, NEW r \in Requests, SeedSave(r)
  PROVE  TInv'
  <1>. DEFINE S == body[r].topics
              rows == got[r]
  <1>1. /\ UNCHANGED <<started, step, chosen, muted, implicit, profile, job, raw, seen, last, slips>>
        /\ pc[r] = "seed" /\ DOMAIN rows = S /\ End(r)
    BY DEF SeedSave, SeedRows, state, affinity, night
  <1>2. /\ RequestOK'
        /\ pc'[r] = "off" /\ DOMAIN got'[r] = {}
        /\ \A q \in Requests \ {r} :
             pc'[q] = pc[q] /\ body'[q] = body[q] /\ ob'[q] = ob[q] /\ got'[q] = got[q]
    BY <1>1, Ended DEF TInv
  <1>3. S \subseteq Slugs
    BY DEF TInv, OnboardingTypeOK
  <1>4. CASE NewRows(S, rows) \cap rated = {}
    <2>1. /\ rated' = rated \cup NewRows(S, rows)
          /\ explicit' = explicit \cup {t \in S : ~rows[t].explicit}
          /\ combined' = [t \in Slugs |->
                            IF t \in S /\ rows[t].combined < 60 THEN 60 ELSE combined[t]]
          /\ acked' = acked \cup S /\ failed' = failed
      BY <1>4 DEF SeedSave, SeedRows
    <2>2. rated' = rated \cup S /\ explicit' = explicit \cup S
      <3>1. \A t \in S : (rows[t].explicit => t \in explicit) /\ (rows[t].there => t \in rated)
        BY <1>1 DEF TInv, ReadsOK
      <3>. QED BY <2>1, <3>1 DEF NewRows
    <2>3. combined' \in [Slugs -> 0..96] /\ \A t \in Slugs : combined[t] >= 60 => combined'[t] >= 60
      BY <2>1 DEF TInv, OnboardingTypeOK
    <2>4. OnboardingTypeOK'
      BY <1>1, <1>2, <1>3, <2>1, <2>2, <2>3
         DEF TInv, OnboardingTypeOK, RequestOK, AreReads
    <2>5. ReadsOK' /\ AcknowledgedIsWeighted'
      BY <1>1, <1>2, <2>1, <2>2 DEF TInv, ReadsOK, AcknowledgedIsWeighted
    <2>6. "night" \notin slips => job = "off"
      BY <1>1 DEF TInv, NightOK
    <2>7. NightOK'
      <3>1. \A q \in Requests : \A t \in DOMAIN got'[q] : t \in Slugs
        BY <1>2 DEF RequestOK, AreReads
      <3>2. "night" \notin slips => \A q \in Requests : \A t \in DOMAIN got'[q] :
                got'[q][t].combined >= 60 => combined'[t] >= 60
        BY <1>2, <2>3, <3>1 DEF TInv, NightOK
      <3>. QED BY <1>1, <2>6, <3>2 DEF TInv, NightOK
    <2>8. ChosenRanksHigh'
      <3>. SUFFICES ASSUME "night" \notin slips, NEW t \in explicit'
                    PROVE  combined'[t] >= 60
        BY <1>1 DEF ChosenRanksHigh
      <3>1. CASE t \in S
        <4>1. rows[t].combined \in 0..96 /\ combined[t] \in 0..96
          BY <3>1, <1>1, <1>3 DEF TInv, OnboardingTypeOK, AreReads, Row
        <4>2. rows[t].combined >= 60 => combined[t] >= 60
          BY <3>1, <1>1 DEF TInv, NightOK
        <4>. QED BY <3>1, <1>3, <2>1, <4>1, <4>2
      <3>2. CASE t \notin S
        <4>1. t \in explicit /\ t \in Slugs
          BY <3>2, <2>2 DEF TInv, OnboardingTypeOK
        <4>. QED BY <4>1, <2>3 DEF TInv, ChosenRanksHigh
      <3>. QED BY <3>1, <3>2
    <2>9. TurnOK'
      <3>1. CASE slips = {}
        <4>1. \A q \in Requests : DOMAIN got'[q] = {}
          BY <3>1, <1>1, <1>2 DEF TInv, TurnOK, ReadsOK
        <4>. QED BY <4>1, <1>1, <1>2 DEF TInv, TurnOK, ReadState
      <3>2. CASE slips # {}
        BY <3>2, <1>1, <1>2 DEF TInv, TurnOK, ReadState
      <3>. QED BY <3>1, <3>2
    <2>10. SelectionsKept' /\ AloneSucceeds'
      BY <1>1, <2>1 DEF TInv, SelectionsKept, AloneSucceeds
    <2>. QED BY <2>4, <2>5, <2>7, <2>8, <2>9, <2>10 DEF TInv
  <1>5. CASE NewRows(S, rows) \cap rated # {}
    <2>1. failed' = TRUE /\ UNCHANGED <<rated, explicit, implicit, combined, acked>>
      BY <1>5 DEF SeedSave, affinity
    <2>2. OnboardingTypeOK'
      BY <1>1, <1>2, <2>1 DEF TInv, OnboardingTypeOK, RequestOK, AreReads
    <2>3. ReadsOK' /\ AcknowledgedIsWeighted'
      BY <1>1, <1>2, <2>1 DEF TInv, ReadsOK, AcknowledgedIsWeighted
    <2>4. NightOK' /\ ChosenRanksHigh'
      BY <1>1, <1>2, <2>1 DEF TInv, NightOK, ChosenRanksHigh, AffinityRow
    <2>5. TurnOK' /\ SelectionsKept'
      BY <1>1, <1>2, <2>1 DEF TInv, TurnOK, ReadState, SelectionsKept
    <2>6. slips # {}
      BY <1>1, <1>5 DEF TInv, TurnOK, NewRows
    <2>. QED BY <1>1, <2>2, <2>3, <2>4, <2>5, <2>6 DEF TInv, AloneSucceeds
  <1>. QED BY <1>4, <1>5

\* The job starts with nothing read, and remembers whom it overlaps.
LEMMA JobStartKeeps == ASSUME TInv, JobStart PROVE TInv'
  <1>1. /\ UNCHANGED <<started, step, chosen, muted, rated, explicit, implicit, combined, profile,
                       pc, body, ob, got, seen, acked, last, failed>>
        /\ job = "off" /\ job' = "rows"
        /\ slips' = slips \cup Overlaps(TRUE)
    BY DEF JobStart, state, affinity, request
  <1>2. PICK S \in SUBSET Taxonomy : raw' \in [S -> Signals]
    BY DEF JobStart
  <1>3. slips \subseteq slips' /\ slips' \subseteq Slips
    BY <1>1 DEF Overlaps, Slips, TInv, OnboardingTypeOK
  <1>4. "night" \notin slips' => \A r \in Requests : pc[r] = "off"
    BY <1>1 DEF Overlaps
  <1>5. DOMAIN raw' \subseteq Slugs /\ raw' \in [DOMAIN raw' -> Signals]
    BY <1>2, OnboardingAssumption
  <1>6. OnboardingTypeOK'
    BY <1>1, <1>3, <1>5 DEF TInv, OnboardingTypeOK, AreReads
  <1>7. ReadsOK' /\ AcknowledgedIsWeighted'
    BY <1>1 DEF TInv, ReadsOK, AcknowledgedIsWeighted
  <1>8. NightOK' /\ ChosenRanksHigh'
    BY <1>1, <1>3, <1>4 DEF TInv, NightOK, ChosenRanksHigh, AffinityRow
  <1>9. TurnOK'
    BY <1>1, <1>3 DEF TInv, TurnOK, ReadState
  <1>10. SelectionsKept' /\ AloneSucceeds'
    BY <1>1, <1>3 DEF TInv, SelectionsKept, AloneSucceeds
  <1>. QED BY <1>6, <1>7, <1>8, <1>9, <1>10 DEF TInv

\* The job's next row is read as it is.
LEMMA JobGetKeeps == ASSUME TInv, JobGet PROVE TInv'
  <1>1. /\ UNCHANGED <<started, step, chosen, muted, rated, explicit, implicit, combined, profile,
                       pc, body, ob, got, job, raw, acked, last, slips, failed>>
        /\ job = "rows"
    BY DEF JobGet, state, affinity, request, history
  <1>2. PICK t \in DOMAIN raw : seen' = AddRow(seen, t)
    BY DEF JobGet
  <1>3. OnboardingTypeOK /\ t \in Slugs /\ AreReads(seen)
    BY DEF TInv, OnboardingTypeOK
  <1>4. /\ AreReads(seen')
        /\ DOMAIN seen' = DOMAIN seen \cup {t}
        /\ seen'[t] = AffinityRow(t)
        /\ \A u \in DOMAIN seen : u # t => seen'[u] = seen[u]
    BY <1>2, <1>3, AddedRow
  <1>5. OnboardingTypeOK'
    BY <1>1, <1>4 DEF TInv, OnboardingTypeOK, AreReads
  <1>6. ReadsOK' /\ AcknowledgedIsWeighted'
    BY <1>1 DEF TInv, ReadsOK, AcknowledgedIsWeighted
  <1>7. NightOK' /\ ChosenRanksHigh'
    <2>1. "night" \notin slips => \A u \in DOMAIN seen' : seen'[u] = AffinityRow(u)
      BY <1>1, <1>4 DEF TInv, NightOK
    <2>. QED BY <1>1, <2>1 DEF TInv, NightOK, ChosenRanksHigh, AffinityRow
  <1>8. TurnOK'
    BY <1>1 DEF TInv, TurnOK, ReadState
  <1>9. SelectionsKept' /\ AloneSucceeds'
    BY <1>1 DEF TInv, SelectionsKept, AloneSucceeds
  <1>. QED BY <1>5, <1>6, <1>7, <1>8, <1>9 DEF TInv

\* A job that ends, early or not, leaves the weights alone.
LEMMA JobEndKeeps ==
  ASSUME TInv, JobEnd, profile' \in Lengths \cup {NoVector},
         UNCHANGED <<state, affinity, request, history>>
  PROVE  TInv'
  <1>1. /\ UNCHANGED <<started, step, chosen, muted, rated, explicit, implicit, combined,
                       pc, body, ob, got, acked, last, slips, failed>>
        /\ job' = "off" /\ raw' = NoReads /\ seen' = NoReads
    BY DEF JobEnd, state, affinity, request, history
  <1>2. DOMAIN raw' \subseteq Slugs /\ raw' \in [DOMAIN raw' -> Signals]
    BY <1>1 DEF NoReads
  <1>3. AreReads(seen') /\ DOMAIN seen' = {}
    BY <1>1, NoRows
  <1>4. OnboardingTypeOK'
    BY <1>1, <1>2, <1>3 DEF TInv, OnboardingTypeOK, AreReads
  <1>5. ReadsOK' /\ AcknowledgedIsWeighted'
    BY <1>1 DEF TInv, ReadsOK, AcknowledgedIsWeighted
  <1>6. NightOK' /\ ChosenRanksHigh'
    BY <1>1, <1>3 DEF TInv, NightOK, ChosenRanksHigh, AffinityRow
  <1>7. TurnOK'
    BY <1>1 DEF TInv, TurnOK, ReadState
  <1>8. SelectionsKept' /\ AloneSucceeds'
    BY <1>1 DEF TInv, SelectionsKept, AloneSucceeds
  <1>. QED BY <1>4, <1>5, <1>6, <1>7, <1>8 DEF TInv

\* The scores of the night: a topic with weight 1 stays at 60 or more when the job has
\* read the row as it is.
LEMMA JobRowsKeeps == ASSUME TInv, JobRows PROVE TInv'
  <1>1. /\ UNCHANGED <<started, step, chosen, muted, explicit, profile,
                       pc, body, ob, got, acked, last, slips, failed>>
        /\ job = "rows" /\ DOMAIN seen = DOMAIN raw
    BY DEF JobRows, JobEnd, state, affinity, request,
           history
  <1>2. CASE NewRows(DOMAIN raw, seen) \cap rated = {}
    <2>1. /\ rated' = rated \cup DOMAIN raw
          /\ implicit' = [t \in Slugs |->
               IF t \in DOMAIN raw /\ raw[t] # seen[t].implicit THEN raw[t] ELSE implicit[t]]
          /\ combined' = [t \in Slugs |->
               IF t \in DOMAIN raw /\ Mixed(seen[t], raw[t]) # seen[t].combined
               THEN Mixed(seen[t], raw[t]) ELSE combined[t]]
          /\ job' = "vector" /\ raw' = raw /\ seen' = seen
      BY <1>2 DEF JobRows
    <2>2. \A t \in DOMAIN raw : raw[t] \in 1..9 /\ Mixed(seen[t], raw[t]) \in 0..96
      BY OnboardingAssumption DEF Mixed, TInv, OnboardingTypeOK
    <2>3. implicit' \in [Slugs -> 0..9] /\ combined' \in [Slugs -> 0..96]
      BY <2>1, <2>2 DEF TInv, OnboardingTypeOK
    <2>4. OnboardingTypeOK'
      BY <1>1, <2>1, <2>3 DEF TInv, OnboardingTypeOK, AreReads
    <2>5. ReadsOK' /\ AcknowledgedIsWeighted'
      BY <1>1, <2>1 DEF TInv, ReadsOK, AcknowledgedIsWeighted
    <2>6. "night" \notin slips => \A r \in Requests : DOMAIN got[r] = {}
      BY <1>1 DEF TInv, NightOK, ReadsOK
    <2>7. NightOK'
      BY <1>1, <2>1, <2>6 DEF TInv, NightOK
    <2>8. ChosenRanksHigh'
      <3>. SUFFICES ASSUME "night" \notin slips, NEW t \in explicit
                    PROVE  combined'[t] >= 60
        BY <1>1 DEF ChosenRanksHigh
      <3>1. t \in Slugs /\ combined[t] >= 60
        BY DEF TInv, OnboardingTypeOK, ChosenRanksHigh
      <3>2. ASSUME t \in DOMAIN raw
            PROVE  Mixed(seen[t], raw[t]) >= 60
        <4>1. seen[t].explicit
          <5>1. seen[t] = AffinityRow(t)
            BY <3>2, <1>1 DEF TInv, NightOK
          <5>2. AffinityRow(t).explicit = (t \in explicit)
            BY DEF AffinityRow
          <5>. QED BY <5>1, <5>2
        <4>. QED BY <3>2, <4>1, <2>2 DEF Mixed
      <3>. QED BY <3>1, <3>2, <2>1
    <2>9. TurnOK'
      <3>1. slips = {} => \A r \in Requests : DOMAIN got[r] = {}
        BY <2>6
      <3>. QED BY <1>1, <3>1 DEF TInv, TurnOK, ReadState
    <2>10. SelectionsKept' /\ AloneSucceeds'
      BY <1>1 DEF TInv, SelectionsKept, AloneSucceeds
    <2>. QED BY <2>4, <2>5, <2>7, <2>8, <2>9, <2>10 DEF TInv
  <1>3. CASE NewRows(DOMAIN raw, seen) \cap rated # {}
    <2>1. JobEnd /\ UNCHANGED <<state, affinity, request, history>>
      BY <1>3 DEF JobRows
    <2>2. profile' \in Lengths \cup {NoVector}
      BY <1>1 DEF TInv, OnboardingTypeOK
    <2>. QED BY <2>1, <2>2, JobEndKeeps
  <1>. QED BY <1>2, <1>3

\* Every step keeps the invariant.
LEMMA TasteKeeps == ASSUME TInv, [OnboardingNext]_taste PROVE TInv'
  <1>1. ASSUME NEW r \in Requests, PostTopics(r) \/ PostSources(r)
        PROVE  TInv'
    BY <1>1, PostKeeps
  <1>2. ASSUME NEW r \in Requests, Serve(r)
        PROVE  TInv'
    BY <1>2, StateKeeps, CreateKeeps, SaveKeeps, SeedGetKeeps, SeedSaveKeeps
       DEF Serve
  <1>3. ASSUME NEW r \in Requests, Break(r)
        PROVE  TInv'
    BY <1>3, BreakKeeps
  <1>4. ASSUME JobVector
        PROVE  TInv'
    <2>1. /\ profile' \in Lengths \cup {NoVector} /\ JobEnd
          /\ UNCHANGED <<state, affinity, request, history>>
      BY <1>4 DEF JobVector, TInv, OnboardingTypeOK
    <2>. QED BY <2>1, JobEndKeeps
  <1>5. ASSUME JobBreak
        PROVE  TInv'
    <2>1. /\ profile' \in Lengths \cup {NoVector} /\ JobEnd
          /\ UNCHANGED <<state, affinity, request, history>>
      BY <1>5 DEF JobBreak, TInv, OnboardingTypeOK
    <2>. QED BY <2>1, JobEndKeeps
  <1>6. CASE UNCHANGED taste
    <2>1. UNCHANGED <<started, step, chosen, muted, rated, explicit, implicit, combined, profile,
                      pc, body, ob, got, job, raw, seen, acked, last, slips, failed>>
      BY <1>6 DEF taste, state, affinity, request, night,
             history
    <2>. QED BY <2>1 DEF TInv, OnboardingTypeOK, AreReads,
                    AcknowledgedIsWeighted, ReadsOK, NightOK,
                         AffinityRow, ChosenRanksHigh, TurnOK,
                         ReadState, SelectionsKept, AloneSucceeds
  <1>. QED BY <1>1, <1>2, <1>3, <1>4, <1>5, <1>6, JobStartKeeps, JobGetKeeps, JobRowsKeeps
           DEF OnboardingNext, Job

\* The inductive invariant holds in every behaviour.
LEMMA TasteInvariant == OnboardingSpec => []TInv
  BY TasteInitially, TasteKeeps, PTL DEF OnboardingSpec

-----------------------------------------------------------------------------

\* Every topic of an answered POST /onboarding/topics weighs 1 in user_topic_affinity
\* for good, and is worth at least 0.6 unless the nightly job ran while a request did
\* (onboarding.py:63, affinity.py:48-66 and 93-112).
THEOREM Weights == OnboardingSpec => []OnboardingInv
  <1>1. TInv => OnboardingInv
    BY DEF TInv, OnboardingInv
  <1>. QED BY <1>1, TasteInvariant, PTL

\* Requests of a reader that do not overlap succeed, and onboarding_state is what they
\* saved last (onboarding.py:27-34, 56-59 and 74-78).
THEOREM InTurn == OnboardingSpec => []RequestsInTurn
  <1>1. TInv => RequestsInTurn
    BY DEF TInv, RequestsInTurn
  <1>. QED BY <1>1, TasteInvariant, PTL

\* onboarding.py:96: whatever stale row a request writes back, a reader whose onboarding
\* was complete keeps a complete one.
THEOREM Complete == OnboardingSpec => StaysComplete
  <1>1. ASSUME TInv, [OnboardingNext]_taste, step >= 1
        PROVE  step' >= 1
    <2>1. ASSUME NEW r \in Requests, CreateState(r)
          PROVE  step' = step
      <3>1. started
        BY <1>1 DEF TInv, TurnOK
      <3>. QED BY <2>1, <3>1 DEF CreateState, state
    <2>2. ASSUME NEW r \in Requests, SaveState(r)
          PROVE  step' >= 1
      <3>1. Selected(r).step >= 1
        <4>1. /\ body[r].kind \in {"topics", "sources"} /\ ob[r] \in Selections
              /\ Bigger(ob[r].step, 1) >= 1 /\ Bigger(ob[r].step, 2) >= 1
          BY <1>1 DEF TInv, OnboardingTypeOK, Selections, Bigger
        <4>. QED BY <4>1 DEF Selected, Selections
      <3>. QED BY <1>1, <2>2, <3>1 DEF SaveState, WriteState
    <2>3. ASSUME NEW r \in Requests, PostTopics(r) \/ PostSources(r) \/ Break(r)
                   \/ GetState(r) \/ ReloadState(r) \/ SeedGet(r) \/ SeedSave(r)
          PROVE  step' = step
      BY <2>3 DEF PostTopics, PostSources, Break, GetState,
             ReloadState, SeedGet, SeedSave, state
    <2>4. ASSUME JobStart \/ Job \/ JobBreak
          PROVE  step' = step
      BY <2>4 DEF JobStart, Job, JobGet, JobRows,
             JobVector, JobBreak, state
    <2>5. CASE UNCHANGED taste
      BY <1>1, <2>5 DEF taste, state
    <2>. QED BY <1>1, <2>1, <2>2, <2>3, <2>4, <2>5 DEF OnboardingNext, Serve
  <1>2. TInv /\ [OnboardingNext]_taste => [step >= 1 => step' >= 1]_taste
    BY <1>1
  <1>. QED BY <1>2, TasteInvariant, PTL DEF OnboardingSpec, StaysComplete
===============================================================================
