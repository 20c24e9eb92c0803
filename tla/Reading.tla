------------------------------- MODULE Reading --------------------------------
(***************************************************************************)
(* What a reader does with the cards of the feed, in one tab: the article  *)
(* overlay of js/app.js with the dwell time of js/events.js, and the save  *)
(* button and the menu of js/feed.js.                                      *)
(*                                                                         *)
(* A feed never repeats an article within one list here (how often the     *)
(* server may send one is in FeedPaging); of the scroll listeners only     *)
(* their effect matters: one that was never removed writes into the dwell  *)
(* entry of its article if there is one, while another article is read.    *)
(* Events are pushed to the queue EventPipeline describes.                 *)
(***************************************************************************)
EXTENDS Naturals

CONSTANTS Articles,
          Marked,     \* bound: those the reader may save or hide
          MaxTimers,  \* bound: closings of the overlay still sliding out
          None

ASSUME ReadingAssumption ==
    Marked \subseteq Articles /\ None \notin Articles /\ MaxTimers \in Nat

VARIABLES
    cards,     \* the articles that have a card in #feed-list
    saved,     \* _saved
    hidden,    \* _hidden
    store,     \* sb_saved and sb_hidden in localStorage
    menu,      \* the article whose menu is on the screen, or None
    detail,    \* #article-detail: "off" (hidden), "in" (sliding in), "open", "out"
    dwelling,  \* _dwellArticleId
    dwell,     \* dwell[a]: None if _dwell has no entry; "read"; "left" when the
               \* article was off the screen at some time since startDwell
    timers,    \* timeouts that will hide the overlay
    \* history
    stray,     \* was a dwell event pushed for an entry that was "left"?
    wanted     \* what the reader has marked: [saved, hidden]

marks   == <<saved, hidden, store, wanted>>
overlay == <<detail, dwelling, dwell, timers, stray>>
reading == <<cards, menu, marks, overlay>>

NoMarks == [saved |-> {}, hidden |-> {}]
Marks == [saved: SUBSET Articles, hidden: SUBSET Articles]

ReadingTypeOK ==
    /\ cards \subseteq Articles /\ saved \subseteq Articles /\ hidden \subseteq Articles
    /\ store \in Marks /\ wanted \in Marks
    /\ menu \in Articles \cup {None}
    /\ detail \in {"off", "in", "open", "out"}
    /\ dwelling \in Articles \cup {None}
    /\ dwell \in [Articles -> {None, "read", "left"}]
    /\ timers \in 0..MaxTimers
    /\ stray \in BOOLEAN
    /\ detail \in {"in", "open"} => dwelling # None

NoDwell == [a \in Articles |-> None]

ReadingInit ==
    /\ cards = {} /\ menu = None
    /\ saved = {} /\ hidden = {} /\ store = NoMarks /\ wanted = NoMarks
    /\ detail = "off" /\ dwelling = None /\ dwell = NoDwell /\ timers = 0 /\ stray = FALSE

\* The page is loaded again: the marks come from localStorage.
ReloadReading ==
    /\ cards' = {} /\ menu' = None
    /\ saved' = store.saved /\ hidden' = store.hidden
    /\ detail' = "off" /\ dwelling' = None /\ dwell' = NoDwell /\ timers' = 0
    /\ UNCHANGED <<store, wanted, stray>>

-----------------------------------------------------------------------------
(* js/feed.js *)

RenderBatch_RowsUnfiltered(heroes, rows) == cards' = cards \cup (heroes \ hidden) \cup rows

\* _renderBatch: the first articles of a page are hero cards, which have a save
\* button and a menu, the others rows.  Both follow the cards of the list.
RenderBatch(heroes, rows) == cards' = cards \cup (heroes \ hidden) \cup (rows \ hidden)

SavePersist_NotHidden(s, h) == store' = [store EXCEPT !.hidden = h]

\* _savePersist
SavePersist(s, h) == store' = [saved |-> s, hidden |-> h]

Toggled(S, a) == IF a \in S THEN S \ {a} ELSE S \cup {a}

\* _toggleSave: its click does not reach the document, and leaves a menu open.
ToggleSave(a) ==
    /\ a \in cards \cap Marked
    /\ saved' = Toggled(saved, a)
    /\ SavePersist(saved', hidden)
    /\ wanted' = [wanted EXCEPT !.saved = Toggled(@, a)]
    /\ UNCHANGED <<cards, menu, hidden, overlay>>

\* _showMenu replaces the menu of another card.
ShowMenu(a) ==
    /\ a \in cards \cap Marked
    /\ menu' = a
    /\ UNCHANGED <<cards, marks, overlay>>

\* "Show less like this", and a click anywhere else.
CloseMenu ==
    /\ menu # None
    /\ menu' = None
    /\ UNCHANGED <<cards, marks, overlay>>

\* "Hide this story" and "Mute": _hideArticle.  The menu is a child of the body, and
\* its card may be gone.
HideArticle ==
    /\ menu # None
    /\ hidden' = hidden \cup {menu}
    /\ SavePersist(saved, hidden')
    /\ cards' = cards \ {menu}
    /\ wanted' = [wanted EXCEPT !.hidden = @ \cup {menu}]
    /\ menu' = None
    /\ UNCHANGED <<saved, overlay>>

-----------------------------------------------------------------------------
(* js/app.js and js/events.js *)

\* The overlay has gone, or shows another article.
Left(entries) == [a \in Articles |-> IF entries[a] = "read" THEN "left" ELSE entries[a]]

\* show() hides every .screen; the overlay is one.
HideOverlay ==
    /\ detail' = "off"
    /\ dwell' = Left(dwell)

StartDwell_IfNone(entries, a) ==
    [entries EXCEPT ![a] = IF @ = None THEN "read" ELSE @]

\* startDwell starts over, whatever entry a has.
StartDwell(entries, a) == [entries EXCEPT ![a] = "read"]

CloseDetail_StaysOpen ==
    /\ detail # "off"
    /\ timers < MaxTimers
    /\ timers' = timers + 1
    /\ dwelling' = None
    /\ UNCHANGED <<cards, menu, marks, detail, dwell, stray>>

\* openArticle: a card may be tapped again until the overlay has slid in.
OpenArticle(a) ==
    /\ a \in cards
    /\ detail # "open"
    /\ detail' = "in"
    /\ dwelling' = a
    /\ dwell' = StartDwell(Left(dwell), a)
    /\ menu' = None
    /\ UNCHANGED <<cards, marks, timers, stray>>

SlideIn ==
    /\ detail = "in"
    /\ detail' = "open"
    /\ UNCHANGED <<cards, menu, marks, dwelling, dwell, timers, stray>>

\* endDwell: only reads of more than three seconds count.
EndDwell(a) ==
    /\ dwell' = [dwell EXCEPT ![a] = None]
    /\ stray' \in {stray, stray \/ dwell[a] = "left"}

\* _closeDetail: the back button is there until the overlay is hidden.
CloseDetail ==
    /\ detail # "off"
    /\ timers < MaxTimers
    /\ detail' = "out"
    /\ timers' = timers + 1
    /\ IF dwelling # None THEN EndDwell(dwelling) ELSE UNCHANGED <<dwell, stray>>
    /\ dwelling' = None
    /\ UNCHANGED <<cards, menu, marks>>

\* 320 ms later: nobody asks whether an article was opened meanwhile.
HideTimer ==
    /\ timers > 0
    /\ timers' = timers - 1
    /\ HideOverlay
    /\ UNCHANGED <<cards, menu, marks, dwelling, stray>>

-----------------------------------------------------------------------------

\* The steps of a reader who has the feed on the screen.
Read ==
    \/ \E a \in Articles : ToggleSave(a) \/ ShowMenu(a) \/ OpenArticle(a)
    \/ SlideIn \/ CloseDetail

\* Those that do not need the feed.
Elsewhere == CloseMenu \/ HideArticle \/ HideTimer

-----------------------------------------------------------------------------
(* Properties *)

\* events.js:63 "only count reads": the time (and the scroll) of a dwell event is that
\* of one uninterrupted stay of the article on the screen, although entries outlive
\* their article: a second tap, a logout and a late timer take it away without endDwell.
DwellIsRead == ~stray

\* Articles the reader has hidden do not come back into the feed, by whatever page,
\* whether it was asked for before, or the page was loaded again since.
HiddenStaysHidden == [][\A a \in wanted.hidden : a \notin cards => a \notin cards']_<<cards>>

\* What was marked is in localStorage, for the next time the page is loaded.
MarksKept == store = wanted /\ saved = wanted.saved /\ hidden = wanted.hidden

\* The invariant of what the reader does: reading times and marks are what they say.
ReadingInv == DwellIsRead /\ MarksKept
===============================================================================
