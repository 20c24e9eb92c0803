---------------------------- MODULE ClientSession -----------------------------
(***************************************************************************)
(* The browser's side of the session: sherrbyte-frontend/js/api.js in      *)
(* several tabs of one browser.  Each tab is a JavaScript program with its *)
(* own _access and _refresh, read from localStorage when the page loads;   *)
(* localStorage is shared.  Calls that are answered 401 join one refresh   *)
(* per tab (_refreshing) and are sent once more.  The server exchanges     *)
(* refresh tokens as RefreshTokens promises, one request at a time (what   *)
(* overlapping requests add to it is in AuthSessions).                     *)
(*                                                                         *)
(* A token pair is one element of Pairs: access and refresh token are      *)
(* always saved together.  From an await to the next one a tab is not      *)
(* interrupted, and the calls that await the same promise go on together.  *)
(* The model gives the base address the name README.md:46 of the frontend  *)
(* gives it: api.js line 8 declares API_URL and uses BASE.                 *)
(***************************************************************************)
EXTENDS Naturals, FiniteSets

CONSTANTS Tabs,
          Calls,    \* bound: the calls a tab has in progress
          Pairs,    \* bound: the token pairs the server may issue
          None

ASSUME ClientAssumption == None \notin Pairs

VARIABLES
    status, parent,  \* the server's refresh tokens
    expired,         \* pairs whose access token has expired
    stored,          \* localStorage: a pair, or None
    held,            \* held[t]: _access and _refresh of tab t
    screen,          \* screen[t]: "auth" or "app"
    call,            \* call[t][c]: "idle", "sent", "waiting" or "again"
    bearer,          \* bearer[t][c]: the access token call c was sent with
    refreshing,      \* refreshing[t]: "no", "asked", "granted" or "denied"
    refresh,         \* refresh[t]: the pair in the body, or in the reply, of the refresh
    \* history
    lost,            \* has the network lost a refresh or its reply?
    cut              \* has a page been loaded again in the middle of a refresh?

server == <<status, parent>>
tab == <<held, screen>>
fetches == <<call, bearer>>
flight == <<refreshing, refresh>>
mishaps == <<lost, cut>>
vars == <<server, expired, stored, tab, fetches, flight, mishaps>>

Server == INSTANCE RefreshTokens WITH Tokens <- Pairs, SingleUse <- TRUE

TypeOK ==
    /\ Server!TypeOK
    /\ expired \subseteq Pairs
    /\ stored \in Pairs \cup {None} /\ held \in [Tabs -> Pairs \cup {None}]
    /\ screen \in [Tabs -> {"auth", "app"}]
    /\ call \in [Tabs -> [Calls -> {"idle", "sent", "waiting", "again"}]]
    /\ bearer \in [Tabs -> [Calls -> Pairs \cup {None}]]
    /\ refreshing \in [Tabs -> {"no", "asked", "granted", "denied"}]
    /\ refresh \in [Tabs -> Pairs \cup {None}]
    /\ lost \in BOOLEAN /\ cut \in BOOLEAN
    /\ \A t \in Tabs : refreshing[t] = "no" => \A c \in Calls : call[t][c] # "waiting"

Idle == [c \in Calls |-> "idle"]
NoBearer == [c \in Calls |-> None]

Init ==
    /\ Server!Init
    /\ expired = {} /\ stored = None
    /\ held = [t \in Tabs |-> None]
    /\ screen = [t \in Tabs |-> "auth"]
    /\ call = [t \in Tabs |-> Idle]
    /\ bearer = [t \in Tabs |-> NoBearer]
    /\ refreshing = [t \in Tabs |-> "no"]
    /\ refresh = [t \in Tabs |-> None]
    /\ lost = FALSE /\ cut = FALSE

-----------------------------------------------------------------------------

Unused == {p \in Pairs : status[p] = "unused"}

\* Every call in progress may lead to a refresh: the bound on Pairs is applied
\* when a call is sent, and when a user logs in.
Reserve ==
    Cardinality(Unused) >
        Cardinality({tc \in Tabs \X Calls : call[tc[1]][tc[2]] # "idle"})

Become(t, c, st) == call' = [call EXCEPT ![t][c] = st]

\* saveTokens in tab t
Save(t, p) ==
    /\ held' = [held EXCEPT ![t] = p]
    /\ stored' = p

\* clearAuth in tab t, and the sb:logout event
Clear(t) ==
    /\ held' = [held EXCEPT ![t] = None]
    /\ stored' = None
    /\ screen' = [screen EXCEPT ![t] = "auth"]

-----------------------------------------------------------------------------

\* API.login and API.register
Login(t) ==
    /\ screen[t] = "auth" /\ Reserve
    /\ \E p \in Unused : Server!Grant(p) /\ Save(t, p)
    /\ screen' = [screen EXCEPT ![t] = "app"]
    /\ UNCHANGED <<expired, fetches, flight, mishaps>>

\* The page loads: what was in memory is gone, and so are the calls.
Load(t) ==
    /\ cut' = (cut \/ refreshing[t] # "no")
    /\ held' = [held EXCEPT ![t] = stored]
    /\ screen' = [screen EXCEPT ![t] = IF stored = None THEN "auth" ELSE "app"]
    /\ call' = [call EXCEPT ![t] = Idle]
    /\ bearer' = [bearer EXCEPT ![t] = NoBearer]
    /\ refreshing' = [refreshing EXCEPT ![t] = "no"]
    /\ refresh' = [refresh EXCEPT ![t] = None]
    /\ UNCHANGED <<server, expired, stored, lost>>

\* _fetch
Send(t, c) ==
    /\ screen[t] = "app" /\ call[t][c] = "idle" /\ Reserve
    /\ Become(t, c, "sent")
    /\ bearer' = [bearer EXCEPT ![t][c] = held[t]]
    /\ UNCHANGED <<server, expired, stored, tab, flight, mishaps>>

\* jwt_access_ttl_minutes have passed.
Expire(p) ==
    /\ status[p] # "unused" /\ p \notin expired
    /\ expired' = expired \cup {p}
    /\ UNCHANGED <<server, stored, tab, fetches, flight, mishaps>>

\* A retry that is refused as well ends the session.
Return_LogsOut(t, c) ==
    /\ \/ /\ call[t][c] = "sent" /\ (bearer[t][c] \notin expired \/ held[t] = None)
          /\ UNCHANGED <<stored, tab>>
       \/ /\ call[t][c] = "again"
          /\ IF held[t] \in expired THEN Clear(t) ELSE UNCHANGED <<stored, tab>>
    /\ Become(t, c, "idle")
    /\ bearer' = [bearer EXCEPT ![t][c] = None]
    /\ UNCHANGED <<server, expired, flight, mishaps>>

\* The response arrives and is none of 401, or the call has had its retry, or
\* the connection failed.
Return(t, c) ==
    /\ \/ call[t][c] = "sent" /\ (bearer[t][c] \notin expired \/ held[t] = None)
       \/ call[t][c] = "again"
    /\ Become(t, c, "idle")
    /\ bearer' = [bearer EXCEPT ![t][c] = None]
    /\ UNCHANGED <<server, expired, stored, tab, flight, mishaps>>

\* 401: join the refresh in progress, or start one.
Refused(t, c) ==
    /\ call[t][c] = "sent" /\ bearer[t][c] \in expired /\ held[t] # None
    /\ Become(t, c, "waiting")
    /\ IF refreshing[t] = "no"
       THEN /\ refreshing' = [refreshing EXCEPT ![t] = "asked"]
            /\ refresh' = [refresh EXCEPT ![t] = held[t]]
       ELSE UNCHANGED flight
    /\ UNCHANGED <<server, expired, stored, tab, bearer, mishaps>>

\* Nothing handles the 401 of the refresh endpoint.
Serve_NoDenial(t) ==
    /\ refreshing[t] = "asked" /\ status[refresh[t]] = "live"
    /\ \E p \in Unused : Server!Exchange(refresh[t], p) /\ refresh' = [refresh EXCEPT ![t] = p]
    /\ refreshing' = [refreshing EXCEPT ![t] = "granted"]
    /\ UNCHANGED <<expired, stored, tab, fetches, mishaps>>

\* The server serves the refresh.  A revoked token is answered 401.
Serve(t) ==
    /\ refreshing[t] = "asked"
    /\ IF status[refresh[t]] = "live"
       THEN \E p \in Unused :
              /\ Server!Exchange(refresh[t], p)
              /\ refresh' = [refresh EXCEPT ![t] = p]
              /\ refreshing' = [refreshing EXCEPT ![t] = "granted"]
       ELSE /\ refreshing' = [refreshing EXCEPT ![t] = "denied"]
            /\ UNCHANGED <<server, refresh>>
    /\ UNCHANGED <<expired, stored, tab, fetches, mishaps>>

\* The request or its reply is lost: _doRefresh catches the exception.
Lose(t) ==
    /\ lost' = TRUE
    /\ refreshing[t] \in {"asked", "granted"}
    /\ refreshing' = [refreshing EXCEPT ![t] = "denied"]
    /\ UNCHANGED <<server, expired, stored, tab, fetches, refresh, cut>>

\* A refresh that fails leaves the tokens where they are.
SettleDenied_Keeps(t) ==
    /\ refreshing[t] = "denied"
    /\ call' = [call EXCEPT ![t] = [c \in Calls |-> IF @[c] = "waiting" THEN "idle" ELSE @[c]]]
    /\ refreshing' = [refreshing EXCEPT ![t] = "no"]
    /\ UNCHANGED <<server, expired, stored, tab, bearer, refresh, mishaps>>

\* The calls that wait give up, and the user is logged out.
SettleDenied(t) ==
    /\ refreshing[t] = "denied"
    /\ Clear(t)
    /\ call' = [call EXCEPT ![t] = [c \in Calls |-> IF @[c] = "waiting" THEN "idle" ELSE @[c]]]
    /\ refreshing' = [refreshing EXCEPT ![t] = "no"]
    /\ UNCHANGED <<server, expired, bearer, refresh, mishaps>>

\* Only one of the calls that wait goes on.
SettleGranted_One(t) ==
    /\ refreshing[t] = "granted"
    /\ Save(t, refresh[t])
    /\ \E d \in Calls : call[t][d] = "waiting" /\ Become(t, d, "again")
    /\ refreshing' = [refreshing EXCEPT ![t] = "no"]
    /\ UNCHANGED <<server, expired, screen, bearer, refresh, mishaps>>

\* The new tokens are saved and the calls that wait are sent once more.
SettleGranted(t) ==
    /\ refreshing[t] = "granted"
    /\ Save(t, refresh[t])
    /\ call' = [call EXCEPT ![t] = [c \in Calls |-> IF @[c] = "waiting" THEN "again" ELSE @[c]]]
    /\ refreshing' = [refreshing EXCEPT ![t] = "no"]
    /\ UNCHANGED <<server, expired, screen, bearer, refresh, mishaps>>

-----------------------------------------------------------------------------

Progress(t) ==
    \/ Serve(t) \/ SettleDenied(t) \/ SettleGranted(t)
    \/ \E c \in Calls : Return(t, c) \/ Refused(t, c)

Next ==
    \/ \E t \in Tabs : Login(t) \/ Load(t) \/ Lose(t) \/ Progress(t)
                         \/ \E c \in Calls : Send(t, c)
    \/ \E p \in Pairs : Expire(p)

Spec == Init /\ [][Next]_vars

\* The server answers, and the event loop runs what is ready.
FairSpec ==
    /\ Spec
    /\ \A t \in Tabs :
         /\ WF_vars(Serve(t)) /\ WF_vars(SettleDenied(t)) /\ WF_vars(SettleGranted(t))
         /\ \A c \in Calls : WF_vars(Return(t, c) \/ Refused(t, c))

-----------------------------------------------------------------------------
(* Properties *)

\* auth_service.py:5 assumes theft when a token is presented twice: a browser of one
\* tab never does so, however many of its calls are answered 401 at once and
\* whatever the network loses, unless the page was loaded again while a refresh was
\* on its way.
NeverPresentedTwice ==
    ~cut => \A t \in Tabs : refreshing[t] = "asked" => status[refresh[t]] = "live"

\* The invariant of a browser session.
ClientInv == TypeOK /\ NeverPresentedTwice

\* A browser of one tab forgets a session the server would still refresh only when
\* the network has failed a refresh: a reload, a late 401 or a refused retry do not
\* take it.
ForgottenForCause ==
    [][~lost /\ stored # None /\ stored' = None => status[stored] # "live"]_vars

\* A call ends: none is left waiting for a refresh that is over.
CallsEnd ==
    \A t \in Tabs : \A c \in Calls : call[t][c] # "idle" ~> call[t][c] = "idle"
===============================================================================
