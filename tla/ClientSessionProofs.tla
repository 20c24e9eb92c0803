------------------------- MODULE ClientSessionProofs --------------------------
(***************************************************************************)
(* A browser of one tab presents no refresh token twice and forgets a      *)
(* session only for cause, whatever calls and tokens there are.  With two  *)
(* tabs neither is true: each keeps the tokens in its own memory, which is *)
(* what SingleTab excludes and TabInv turns on.  That the server keeps its *)
(* promise to the browser needs no such assumption.                        *)
(***************************************************************************)
EXTENDS ClientSession, TLAPS

SingleTab == \A t, u \in Tabs : t = u

-----------------------------------------------------------------------------
(* Types, and the server, for any number of tabs.                          *)

\* What a refresh carries is a token pair.
CarriesPair == \A t \in Tabs : refreshing[t] # "no" => refresh[t] \in Pairs

Typed == TypeOK /\ CarriesPair

LEMMA NoCalls ==
    /\ Idle \in [Calls -> {"idle", "sent", "waiting", "again"}]
    /\ NoBearer \in [Calls -> Pairs \cup {None}]
    /\ \A c \in Calls : Idle[c] = "idle"
BY DEF Idle, NoBearer

LEMMA TypedInit == Init => Typed
<1> SUFFICES ASSUME Init PROVE Typed
  OBVIOUS
<1>1. Server!TypeOK
  BY DEF Init, Server!Init, Server!TypeOK
<1> QED BY <1>1, NoCalls DEF Init, Typed, TypeOK, CarriesPair

LEMMA ServerTyped ==
    ASSUME Typed, NEW p \in Pairs,
           Server!Grant(p) \/ \E old \in Pairs : Server!Exchange(old, p)
    PROVE  Server!TypeOK'
BY DEF Typed, TypeOK, Server!TypeOK, Server!Grant, Server!Exchange

LEMMA TypedNext ==
    ASSUME Typed, [Next]_vars
    PROVE  Typed'
<1> USE DEF Typed, TypeOK, CarriesPair, server, tab, fetches, flight, mishaps
<1>1. ASSUME NEW t \in Tabs, Login(t)
      PROVE  Typed'
  <2>1. PICK p \in Unused : Server!Grant(p) /\ Save(t, p)
    BY <1>1 DEF Login
  <2>2. p \in Pairs
    BY DEF Unused
  <2>3. Server!TypeOK'
    BY <2>1, <2>2, ServerTyped
  <2>4. /\ held' = [held EXCEPT ![t] = p] /\ stored' = p
        /\ screen' = [screen EXCEPT ![t] = "app"]
        /\ UNCHANGED <<expired, call, bearer, refreshing, refresh, lost, cut>>
    BY <1>1, <2>1 DEF Login, Save
  <2> QED BY <2>2, <2>3, <2>4
<1>2. ASSUME NEW t \in Tabs, Load(t)
      PROVE  Typed'
  <2>1. Server!TypeOK'
    BY <1>2 DEF Load, Server!TypeOK
  <2> QED BY <1>2, <2>1, NoCalls DEF Load
<1>3. ASSUME NEW t \in Tabs, Lose(t)
      PROVE  Typed'
  <2>1. Server!TypeOK'
    BY <1>3 DEF Lose, Server!TypeOK
  <2> QED BY <1>3, <2>1 DEF Lose
<1>4. ASSUME NEW t \in Tabs, Serve(t)
      PROVE  Typed'
  <2>1. CASE status[refresh[t]] = "live"
    <3>1. PICK p \in Unused :
              Server!Exchange(refresh[t], p) /\ refresh' = [refresh EXCEPT ![t] = p]
      BY <1>4, <2>1 DEF Serve
    <3>2. p \in Pairs /\ refresh[t] \in Pairs
      BY <1>4 DEF Unused, Serve
    <3>3. Server!TypeOK'
      BY <3>1, <3>2, ServerTyped
    <3>4. /\ refreshing' = [refreshing EXCEPT ![t] = "granted"]
          /\ UNCHANGED <<expired, stored, held, screen, call, bearer, lost, cut>>
      BY <1>4, <2>1 DEF Serve
    <3> QED BY <3>1, <3>2, <3>3, <3>4
  <2>2. CASE status[refresh[t]] # "live"
    <3>1. Server!TypeOK'
      BY <1>4, <2>2 DEF Serve, Server!TypeOK
    <3> QED BY <1>4, <2>2, <3>1 DEF Serve
  <2> QED BY <2>1, <2>2
<1>5. ASSUME NEW t \in Tabs, SettleDenied(t) \/ SettleGranted(t)
      PROVE  Typed'
  <2>1. Server!TypeOK'
    BY <1>5 DEF SettleDenied, SettleGranted, Server!TypeOK
  <2>2. CASE SettleDenied(t)
    BY <2>1, <2>2 DEF SettleDenied, Clear
  <2>3. CASE SettleGranted(t)
    BY <2>1, <2>3 DEF SettleGranted, Save
  <2> QED BY <1>5, <2>2, <2>3
<1>6. ASSUME NEW t \in Tabs, NEW c \in Calls, Send(t, c) \/ Return(t, c) \/ Refused(t, c)
      PROVE  Typed'
  <2>1. Server!TypeOK'
    BY <1>6 DEF Send, Return, Refused, Server!TypeOK
  <2>2. CASE Send(t, c)
    BY <2>1, <2>2 DEF Send, Become
  <2>3. CASE Return(t, c)
    BY <2>1, <2>3 DEF Return, Become
  <2>4. CASE Refused(t, c)
    BY <2>1, <2>4 DEF Refused, Become
  <2> QED BY <1>6, <2>2, <2>3, <2>4
<1>7. ASSUME NEW p \in Pairs, Expire(p)
      PROVE  Typed'
  <2>1. Server!TypeOK'
    BY <1>7 DEF Expire, Server!TypeOK
  <2> QED BY <1>7, <2>1 DEF Expire
<1>8. CASE UNCHANGED vars
  BY <1>8 DEF vars, Server!TypeOK
<1> QED BY <1>1, <1>2, <1>3, <1>4, <1>5, <1>6, <1>7, <1>8 DEF Next, Progress

LEMMA TypedAlways == Spec => []Typed
BY TypedInit, TypedNext, PTL DEF Spec

LEMMA StepsOfTheServer ==
    ASSUME Typed, Next
    PROVE  Server!Next \/ UNCHANGED server
<1>1. ASSUME NEW t \in Tabs, Login(t)
      PROVE  Server!Next
  BY <1>1 DEF Login, Unused, Server!Next
<1>2. ASSUME NEW t \in Tabs, Load(t) \/ Lose(t) \/ SettleDenied(t) \/ SettleGranted(t)
      PROVE  UNCHANGED server
  BY <1>2 DEF Load, Lose, SettleDenied, SettleGranted, server
<1>3. ASSUME NEW t \in Tabs, Serve(t)
      PROVE  Server!Next \/ UNCHANGED server
  <2>1. CASE status[refresh[t]] # "live"
    BY <1>3, <2>1 DEF Serve, server
  <2>2. CASE status[refresh[t]] = "live"
    <3>1. PICK p \in Unused : Server!Exchange(refresh[t], p)
      BY <1>3, <2>2 DEF Serve
    <3>2. refresh[t] \in Pairs
      BY <1>3 DEF Serve, Typed, CarriesPair
    <3> QED BY <3>1, <3>2 DEF Unused, Server!Next
  <2> QED BY <2>1, <2>2
<1>4. ASSUME NEW t \in Tabs, NEW c \in Calls, Send(t, c) \/ Return(t, c) \/ Refused(t, c)
      PROVE  UNCHANGED server
  BY <1>4 DEF Send, Return, Refused, server
<1>5. ASSUME NEW p \in Pairs, Expire(p)
      PROVE  UNCHANGED server
  BY <1>5 DEF Expire, server
<1> QED BY <1>1, <1>2, <1>3, <1>4, <1>5 DEF Next, Progress

\* However many tabs there are, and whatever they do to each other, what reaches
\* the server is a sequence of grants and exchanges of the abstract session table
\* (RefreshTokens, single use): a browser has no other way to a token.
THEOREM BrowserUsesTheServer == Spec => Server!Spec
<1>1. Init => Server!Init
  BY DEF Init
<1>2. ASSUME Typed, [Next]_vars
      PROVE  [Server!Next]_(Server!vars)
  BY <1>2, StepsOfTheServer DEF vars, server, Server!vars
<1> QED BY <1>1, <1>2, TypedAlways, PTL DEF Spec, Server!Spec

\* A pair that was never issued has no past; an exchanged one is revoked, so that it
\* is not exchanged again.
ServerInv ==
    /\ Server!TypeOK /\ Server!ExchangedIsRevoked /\ Server!ExchangedOnce
    /\ \A p \in Pairs : status[p] = "unused" => parent[p] = None

\* So no two token pairs were ever issued for the same one, however many tabs present
\* it (auth_service.py:4, "Refresh tokens are single-use").
THEOREM ServerExchangesOnce == Spec => []Server!ExchangedOnce
<1> USE DEF ServerInv, Server!TypeOK, Server!ExchangedIsRevoked, Server!ExchangedOnce
<1>1. Server!Init => ServerInv
  BY DEF Server!Init
<1>2. ServerInv /\ [Server!Next]_(Server!vars) => ServerInv'
  <2> SUFFICES ASSUME ServerInv, [Server!Next]_(Server!vars) PROVE ServerInv'
    OBVIOUS
  <2>1. CASE \E p \in Pairs : Server!Grant(p) \/ Server!Revoke(p)
    BY <2>1 DEF Server!Grant, Server!Revoke
  <2>2. CASE \E old, p \in Pairs : Server!Exchange(old, p)
    BY <2>2 DEF Server!Exchange
  <2>3. CASE UNCHANGED Server!vars
    BY <2>3 DEF Server!vars
  <2> QED BY <2>1, <2>2, <2>3 DEF Server!Next
<1>3. ServerInv => Server!ExchangedOnce
  OBVIOUS
<1> QED BY <1>1, <1>2, <1>3, BrowserUsesTheServer, PTL DEF Server!Spec

-----------------------------------------------------------------------------
(* One tab.                                                                *)

\* The tokens in memory are those in localStorage, and the screen tells whether
\* there are any.
MemoryOK ==
    \A t \in Tabs : held[t] = stored /\ (screen[t] = "auth") = (held[t] = None)

\* A refresh is asked with the tokens in memory, which stay until it is settled.
RefreshOK ==
    \A t \in Tabs :
        /\ refreshing[t] # "no" => held[t] # None
        /\ refreshing[t] = "asked" => refresh[t] = held[t]

\* The server would exchange the tokens in memory, but for those it has just
\* exchanged; what it gave for them it would exchange in turn; and it denies a
\* refresh of no others, unless the network failed it.
LiveOK ==
    \A t \in Tabs :
        /\ ~cut /\ refreshing[t] \in {"no", "asked"} /\ held[t] # None
              => status[held[t]] = "live"
        /\ refreshing[t] = "granted" => status[refresh[t]] = "live"
        /\ ~lost /\ refreshing[t] = "denied" => status[held[t]] # "live"

TabInv == Typed /\ MemoryOK /\ RefreshOK /\ LiveOK

LEMMA TabInit == Init => TabInv
BY TypedInit DEF Init, TabInv, MemoryOK, RefreshOK, LiveOK

LEMMA TabNext ==
    ASSUME SingleTab, TabInv, [Next]_vars
    PROVE  TabInv'
<1> USE DEF TabInv, MemoryOK, RefreshOK, LiveOK, SingleTab
<1>0. Typed /\ Typed'
  BY TypedNext
<1>1. ASSUME NEW t \in Tabs, Login(t)
      PROVE  TabInv'
  <2>1. PICK p \in Unused : Server!Grant(p) /\ Save(t, p)
    BY <1>1 DEF Login
  <2>2. /\ held' = [held EXCEPT ![t] = p] /\ stored' = p
        /\ screen[t] = "auth" /\ screen' = [screen EXCEPT ![t] = "app"]
        /\ UNCHANGED <<refreshing, refresh, lost, cut>>
    BY <1>1, <2>1 DEF Login, Save, flight, mishaps
  <2>3. p \in Pairs /\ p # None /\ status'[p] = "live"
    BY <1>0, <2>1, ClientAssumption
       DEF Unused, Server!Grant, Typed, TypeOK, Server!TypeOK
  <2>4. held[t] = None /\ refreshing[t] = "no"
    BY <1>0, <2>2 DEF Typed, TypeOK
  <2> QED BY <1>0, <2>2, <2>3, <2>4 DEF Typed, TypeOK
<1>2. ASSUME NEW t \in Tabs, Load(t)
      PROVE  TabInv'
  <2>1. /\ cut' = (cut \/ refreshing[t] # "no")
        /\ held' = [held EXCEPT ![t] = stored]
        /\ screen' = [screen EXCEPT ![t] = IF stored = None THEN "auth" ELSE "app"]
        /\ refreshing' = [refreshing EXCEPT ![t] = "no"]
        /\ UNCHANGED <<status, stored, lost>>
    BY <1>2 DEF Load, server
  <2>2. /\ refreshing'[t] = "no" /\ held'[t] = stored'
        /\ (screen'[t] = "auth") = (held'[t] = None)
    BY <1>0, <2>1 DEF Typed, TypeOK
  <2>3. ~cut' /\ held'[t] # None => status'[held'[t]] = "live"
    BY <1>0, <2>1, <2>2 DEF Typed, TypeOK
  <2> QED BY <1>0, <2>2, <2>3
<1>3. ASSUME NEW t \in Tabs, Lose(t)
      PROVE  TabInv'
  <2>1. /\ lost' = TRUE /\ refreshing[t] # "no"
        /\ refreshing' = [refreshing EXCEPT ![t] = "denied"]
        /\ UNCHANGED <<status, stored, held, screen, refresh, cut>>
    BY <1>3 DEF Lose, server, tab
  <2> QED BY <1>0, <2>1 DEF Typed, TypeOK
<1>4. ASSUME NEW t \in Tabs, Serve(t)
      PROVE  TabInv'
  <2>1. refreshing[t] = "asked" /\ UNCHANGED <<stored, held, screen, lost, cut>>
    BY <1>4 DEF Serve, tab, mishaps
  <2>2. CASE status[refresh[t]] = "live"
    <3>1. PICK p \in Unused :
              Server!Exchange(refresh[t], p) /\ refresh' = [refresh EXCEPT ![t] = p]
      BY <1>4, <2>2 DEF Serve
    <3>2. refreshing' = [refreshing EXCEPT ![t] = "granted"]
      BY <1>4, <2>2 DEF Serve
    <3>3. p \in Pairs /\ status'[p] = "live"
      BY <1>0, <3>1 DEF Unused, Server!Exchange, Typed, TypeOK, Server!TypeOK
    <3> QED BY <1>0, <2>1, <3>1, <3>2, <3>3 DEF Typed, TypeOK
  <2>3. CASE status[refresh[t]] # "live"
    <3>1. refreshing' = [refreshing EXCEPT ![t] = "denied"]
          /\ UNCHANGED <<status, refresh>>
      BY <1>4, <2>3 DEF Serve, server
    <3> QED BY <1>0, <2>1, <2>3, <3>1 DEF Typed, TypeOK
  <2> QED BY <2>2, <2>3
<1>5. ASSUME NEW t \in Tabs, SettleDenied(t)
      PROVE  TabInv'
  <2>1. /\ held' = [held EXCEPT ![t] = None] /\ stored' = None
        /\ screen' = [screen EXCEPT ![t] = "auth"]
        /\ refreshing' = [refreshing EXCEPT ![t] = "no"]
        /\ UNCHANGED <<status, refresh, lost, cut>>
    BY <1>5 DEF SettleDenied, Clear, server, mishaps
  <2> QED BY <1>0, <2>1 DEF Typed, TypeOK
<1>6. ASSUME NEW t \in Tabs, SettleGranted(t)
      PROVE  TabInv'
  <2>1. /\ refreshing[t] = "granted"
        /\ held' = [held EXCEPT ![t] = refresh[t]] /\ stored' = refresh[t]
        /\ refreshing' = [refreshing EXCEPT ![t] = "no"]
        /\ UNCHANGED <<status, screen, refresh, lost, cut>>
    BY <1>6 DEF SettleGranted, Save, server, mishaps
  <2>2. refresh[t] # None
    BY <1>0, <2>1, ClientAssumption DEF Typed, CarriesPair
  <2> QED BY <1>0, <2>1, <2>2 DEF Typed, TypeOK
<1>7. ASSUME NEW t \in Tabs, NEW c \in Calls, Refused(t, c)
      PROVE  TabInv'
  <2>1. held[t] # None /\ UNCHANGED <<status, stored, held, screen, lost, cut>>
    BY <1>7 DEF Refused, server, tab, mishaps
  <2>2. CASE refreshing[t] = "no"
    <3>1. /\ refreshing' = [refreshing EXCEPT ![t] = "asked"]
          /\ refresh' = [refresh EXCEPT ![t] = held[t]]
      BY <1>7, <2>2 DEF Refused
    <3> QED BY <1>0, <2>1, <2>2, <3>1 DEF Typed, TypeOK
  <2>3. CASE refreshing[t] # "no"
    <3>1. UNCHANGED <<refreshing, refresh>>
      BY <1>7, <2>3 DEF Refused, flight
    <3> QED BY <1>0, <2>1, <3>1
  <2> QED BY <2>2, <2>3
<1>8. ASSUME \/ \E t \in Tabs, c \in Calls : Send(t, c) \/ Return(t, c)
             \/ \E p \in Pairs : Expire(p)
             \/ UNCHANGED vars
      PROVE  TabInv'
  <2>1. UNCHANGED <<status, stored, held, screen, refreshing, refresh, lost, cut>>
    BY <1>8 DEF Send, Return, Expire, vars, server, tab, flight, mishaps
  <2> QED BY <1>0, <2>1
<1> QED BY <1>1, <1>2, <1>3, <1>4, <1>5, <1>6, <1>7, <1>8 DEF Next, Progress

LEMMA TabAlways == ASSUME SingleTab PROVE Spec => []TabInv
BY TabInit, TabNext, PTL DEF Spec

\* A browser of one tab never presents a refresh token twice, unless its page was
\* loaded again in the middle of a refresh: the 401s of all its calls join one
\* refresh, and that refresh carries the tokens nothing else has exchanged.
THEOREM PresentedOnce == ASSUME SingleTab PROVE Spec => []ClientInv
<1>1. TabInv => ClientInv
  BY DEF TabInv, Typed, RefreshOK, LiveOK, ClientInv, NeverPresentedTwice
<1> QED BY <1>1, TabAlways, PTL

\* A browser of one tab forgets a session the server would still refresh only when
\* the network has failed a refresh: what SettleDenied clears was denied by the
\* server, and nothing else clears.
THEOREM KeptUnlessRefused == ASSUME SingleTab PROVE Spec => ForgottenForCause
<1>1. ASSUME SingleTab, TabInv, [Next]_vars
      PROVE  [~lost /\ stored # None /\ stored' = None => status[stored] # "live"]_vars
  <2> SUFFICES ASSUME ~lost, stored # None, stored' = None
               PROVE  status[stored] # "live"
    OBVIOUS
  <2>1. CASE \E t \in Tabs : SettleDenied(t)
    BY <1>1, <2>1 DEF SettleDenied, TabInv, MemoryOK, LiveOK
  <2>2. CASE \E t \in Tabs : SettleGranted(t)
    BY <1>1, <2>2, ClientAssumption DEF SettleGranted, Save, TabInv, Typed, CarriesPair
  <2>3. CASE \E t \in Tabs : Login(t)
    BY <2>3, ClientAssumption DEF Login, Save, Unused
  <2>4. CASE \/ \E t \in Tabs : Load(t) \/ Lose(t) \/ Serve(t)
             \/ \E t \in Tabs, c \in Calls : Send(t, c) \/ Return(t, c) \/ Refused(t, c)
             \/ \E p \in Pairs : Expire(p)
             \/ UNCHANGED vars
    BY <2>4 DEF Load, Lose, Serve, Send, Return, Refused, Expire, vars
  <2> QED BY <1>1, <2>1, <2>2, <2>3, <2>4 DEF Next, Progress
<1> QED BY <1>1, TabAlways, PTL DEF Spec, ForgottenForCause

===============================================================================
