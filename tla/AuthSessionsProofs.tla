------------------------- MODULE AuthSessionsProofs --------------------------
(***************************************************************************)
(* Proofs about AuthSessions, for any users, tokens and requests, and for  *)
(* both values of ReplyFirst unless a theorem assumes one: its types, the  *)
(* safety its locks, its commit order and its unique index give, and that  *)
(* it implements RefreshTokens.                                            *)
(*                                                                         *)
(* All of them rest on IInv, which says who holds which uncommitted row.   *)
(***************************************************************************)
EXTENDS AuthSessions, FiniteSetTheorems, TLAPS

Granting  == {"issue", "return", "late"}
Untouched == {"idle", "lookup", "create", "touch", "account", "nuke", "void",
              "rotate", "revoke", "reply"}

\* Which input an operation has, and where it can be.
CallsOK ==
    \A r \in Requests :
        /\ call[r].op \in {"register", "login"} => call[r].user \in Users
        /\ call[r].op = "logout" =>
               pc[r] \in {"idle", "lookup", "revoke", "return", "late", "reply"}
        /\ pc[r] \in {"account", "nuke", "void", "rotate"} => call[r].op = "refresh"
        /\ pc[r] = "idle" => call[r] = NoCall

\* A session that was not committed has no history.
RowsOK == \A t \in Tokens : owner[t] = None => parent[t] = None /\ t \notin revoked

\* An uncommitted session is new, and belongs to one request about to end.
MintedOK ==
    \A r \in Requests :
        /\ minted[r] # None => pc[r] \in {"return", "late", "reply"}
        /\ minted[r] # None => \A q \in Requests : minted[q] = minted[r] => q = r
        /\ minted[r] # None /\ pc[r] # "reply" => owner[minted[r]] = None
        /\ pc[r] \in {"return", "late"} => (call[r].op = "logout" <=> minted[r] = None)

\* An uncommitted revocation holds a committed, unrevoked row, exclusively.
LocksOK ==
    \A r \in Requests :
        /\ \A t \in revoking[r] : owner[t] # None /\ t \notin revoked
        /\ \A q \in Requests : q # r => revoking[q] \cap revoking[r] = {}
        /\ pc[r] \in Untouched => revoking[r] = {}
        /\ call[r].op \in {"register", "login"} => revoking[r] = {}

\* refresh and logout work on a committed session; past its UPDATE, refresh has
\* that session revoked, by itself or by an earlier commit.
PresentedOK ==
    \A r \in Requests :
        /\ pc[r] \in {"account", "nuke", "void", "rotate", "revoke"} => Stored(call[r].tok)
        /\ call[r].op = "refresh" /\ pc[r] \in Granting =>
               /\ Stored(call[r].tok)
               /\ call[r].tok \in revoked \cup revoking[r]
        /\ pc[r] \in Granting => revoking[r] \subseteq {call[r].tok}

IInv ==
    /\ TypeOK
    /\ CallsOK
    /\ RowsOK
    /\ MintedOK
    /\ LocksOK
    /\ PresentedOK
    /\ ExchangedIsRevoked
    /\ EmailTakenOnce

\* A request that arrives changes nothing but its own place.
LEMMA StartKeeps ==
  ASSUME IInv, NEW r \in Requests, NEW c \in Inputs, Start(r, c)
  PROVE  IInv'
  <1>1. TypeOK'
    BY DEF IInv, Start, Goto, db, outside, writes, TypeOK, Statements, Calls, Ops,
           Inputs
  <1>2. CallsOK'
    BY DEF IInv, Start, Goto, db, outside, writes, CallsOK, TypeOK, Inputs
  <1>3. RowsOK'
    BY DEF IInv, Start, Goto, db, RowsOK, TypeOK, CallsOK
  <1>4. MintedOK'
    BY DEF IInv, Start, Goto, db, writes, MintedOK
  <1>5. LocksOK'
    BY DEF IInv, Start, Goto, db, writes, LocksOK, Untouched, MintedOK
  <1>6. PresentedOK'
    BY DEF IInv, Start, Goto, Stored, db, writes, PresentedOK, LocksOK, Granting,
           Untouched
  <1>7. ExchangedIsRevoked'
    BY DEF IInv, Start, Goto, Stored, db, writes, ExchangedIsRevoked, PresentedOK,
           Granting
  <1>8. EmailTakenOnce'
    BY DEF IInv, Start, Goto, db, EmailTakenOnce, HoldsAccount
  <1>. QED BY <1>1, <1>2, <1>3, <1>4, <1>5, <1>6, <1>7, <1>8 DEF IInv

\* The SELECTs of the four handlers only choose the next statement.
LEMMA LookupKeeps ==
  ASSUME IInv, NEW r \in Requests,
         RegisterLookup(r) \/ LoginLookup(r) \/ RefreshLookup(r) \/ RefreshAccount(r)
           \/ LogoutLookup(r)
  PROVE  IInv'
  <1>1. TypeOK'
    BY DEF IInv, RegisterLookup, LoginLookup, RefreshLookup, RefreshAccount,
           LogoutLookup, Goto, db, outside, writes, TypeOK, Statements
  <1>2. CallsOK'
    BY DEF IInv, RegisterLookup, LoginLookup, RefreshLookup, RefreshAccount,
           LogoutLookup, At, Goto, db, outside, writes, CallsOK, TypeOK
  <1>3. RowsOK'
    BY DEF IInv, RegisterLookup, LoginLookup, RefreshLookup, RefreshAccount,
           LogoutLookup, At, Goto, db, RowsOK, TypeOK, CallsOK
  <1>4. MintedOK'
    BY DEF IInv, RegisterLookup, LoginLookup, RefreshLookup, RefreshAccount,
           LogoutLookup, At, Goto, db, writes, MintedOK, TypeOK
  <1>5. LocksOK'
    BY DEF IInv, RegisterLookup, LoginLookup, RefreshLookup, RefreshAccount,
           LogoutLookup, At, Goto, db, writes, LocksOK, TypeOK, Untouched,
           MintedOK
  <1>6. PresentedOK'
    BY DEF IInv, RegisterLookup, LoginLookup, RefreshLookup, RefreshAccount,
           LogoutLookup, At, Goto, Stored, db, writes, PresentedOK, TypeOK,
           LocksOK, Granting, Untouched
  <1>7. ExchangedIsRevoked'
    BY DEF IInv, RegisterLookup, LoginLookup, RefreshLookup, RefreshAccount,
           LogoutLookup, At, Goto, Stored, db, writes, ExchangedIsRevoked, TypeOK,
           PresentedOK, Granting
  <1>8. EmailTakenOnce'
    BY DEF IInv, RegisterLookup, LoginLookup, RefreshLookup, RefreshAccount,
           LogoutLookup, At, Goto, db, EmailTakenOnce, TypeOK, HoldsAccount
  <1>. QED BY <1>1, <1>2, <1>3, <1>4, <1>5, <1>6, <1>7, <1>8 DEF IInv

\* The INSERT of register and the UPDATE of login take the row of the user.
LEMMA AcquireKeeps ==
  ASSUME IInv, NEW r \in Requests, RegisterCreate(r) \/ LoginTouch(r)
  PROVE  IInv'
  <1>1. TypeOK'
    BY DEF IInv, RegisterCreate, LoginTouch, Goto, db, outside, writes, TypeOK,
           Statements
  <1>2. CallsOK'
    BY DEF IInv, RegisterCreate, LoginTouch, At, Goto, db, outside, writes,
           CallsOK, TypeOK
  <1>3. RowsOK'
    BY DEF IInv, RegisterCreate, LoginTouch, At, Goto, db, RowsOK, TypeOK, CallsOK
  <1>4. MintedOK'
    BY DEF IInv, RegisterCreate, LoginTouch, At, Goto, db, writes, MintedOK, TypeOK
  <1>5. LocksOK'
    BY DEF IInv, RegisterCreate, LoginTouch, At, Goto, db, writes, LocksOK,
           TypeOK, MintedOK
  <1>6. PresentedOK'
    BY DEF IInv, RegisterCreate, LoginTouch, At, Goto, Stored, db, writes,
           PresentedOK, TypeOK, LocksOK
  <1>7. ExchangedIsRevoked'
    BY DEF IInv, RegisterCreate, LoginTouch, At, Goto, Stored, db, writes,
           ExchangedIsRevoked, TypeOK, PresentedOK
  <1>8. EmailTakenOnce'
    BY DEF IInv, RegisterCreate, LoginTouch, At, Goto, db, EmailTakenOnce, TypeOK,
           HoldsAccount, AccountLocked
  <1>. QED BY <1>1, <1>2, <1>3, <1>4, <1>5, <1>6, <1>7, <1>8 DEF IInv

\* The UPDATEs of revoked_at take rows nobody else holds.
LEMMA RevokeKeeps ==
  ASSUME IInv, NEW r \in Requests,
         RefreshNuke(r) \/ RefreshVoid(r) \/ RefreshRotate(r) \/ LogoutRevoke(r)
  PROVE  IInv'
  <1>1. TypeOK'
    <2>1. revoking' \in [Requests -> SUBSET Tokens]
      BY DEF IInv, TypeOK, PresentedOK, Stored, RevokeRows, RefreshNuke,
             RefreshVoid, RefreshRotate, LogoutRevoke, At
    <2>2. pc' \in [Requests -> Statements]
      BY DEF IInv, TypeOK, Statements, Goto, RefreshNuke, RefreshVoid,
             RefreshRotate, LogoutRevoke
    <2>3. UNCHANGED <<account, owner, revoked, expired, known, call, minted, parent>>
      BY DEF RevokeRows, db, outside, RefreshNuke, RefreshVoid, RefreshRotate,
             LogoutRevoke
    <2>. QED BY <2>1, <2>2, <2>3 DEF IInv, TypeOK
  <1>2. CallsOK'
    BY DEF IInv, RefreshNuke, RefreshVoid, RefreshRotate, LogoutRevoke, At, Goto,
           RevokeRows, CallsOK, TypeOK
  <1>3. RowsOK'
    BY DEF IInv, RefreshNuke, RefreshVoid, RefreshRotate, LogoutRevoke, At, Goto,
           RevokeRows, db, RowsOK, TypeOK, CallsOK
  <1>4. MintedOK'
    BY DEF IInv, RefreshNuke, RefreshVoid, RefreshRotate, LogoutRevoke, At, Goto,
           RevokeRows, db, MintedOK, TypeOK
  <1>5. LocksOK'
    BY DEF IInv, RefreshNuke, RefreshVoid, RefreshRotate, LogoutRevoke, At, Goto,
           RevokeRows, SessionsLocked, Stored, db, LocksOK, TypeOK, Untouched,
           MintedOK, PresentedOK
  <1>6. PresentedOK'
    BY DEF IInv, RefreshNuke, RefreshVoid, RefreshRotate, LogoutRevoke, At, Goto,
           RevokeRows, SessionsLocked, Stored, db, PresentedOK, TypeOK, LocksOK,
           Granting, Untouched
  <1>7. ExchangedIsRevoked'
    BY DEF IInv, RefreshNuke, RefreshVoid, RefreshRotate, LogoutRevoke, At, Goto,
           RevokeRows, Stored, db, ExchangedIsRevoked, TypeOK, PresentedOK,
           Granting
  <1>8. EmailTakenOnce'
    BY DEF IInv, RefreshNuke, RefreshVoid, RefreshRotate, LogoutRevoke, At, Goto,
           RevokeRows, db, EmailTakenOnce, TypeOK, HoldsAccount
  <1>. QED BY <1>1, <1>2, <1>3, <1>4, <1>5, <1>6, <1>7, <1>8 DEF IInv

\* The INSERT of _issue_tokens has a token nobody else has.
LEMMA IssueKeeps ==
  ASSUME IInv, NEW r \in Requests, IssueTokens(r)
  PROVE  IInv'
  <1>1. TypeOK'
    BY DEF IInv, IssueTokens, Goto, db, outside, TypeOK, Statements, Fresh
  <1>2. CallsOK'
    BY DEF IInv, IssueTokens, Goto, db, outside, CallsOK, TypeOK
  <1>3. RowsOK'
    BY DEF IInv, IssueTokens, Goto, db, RowsOK, CallsOK
  <1>4. MintedOK'
    BY DEF IInv, IssueTokens, Goto, db, MintedOK, TypeOK, CallsOK, Fresh
  <1>5. LocksOK'
    BY DEF IInv, IssueTokens, Goto, db, LocksOK, TypeOK, Untouched, MintedOK,
           CallsOK
  <1>6. PresentedOK'
    BY DEF IInv, IssueTokens, Goto, Stored, db, PresentedOK, LocksOK, Granting,
           Untouched
  <1>7. ExchangedIsRevoked'
    BY DEF IInv, IssueTokens, Goto, Stored, db, ExchangedIsRevoked, PresentedOK,
           Granting
  <1>8. EmailTakenOnce'
    BY DEF IInv, IssueTokens, Goto, db, EmailTakenOnce, HoldsAccount
  <1>. QED BY <1>1, <1>2, <1>3, <1>4, <1>5, <1>6, <1>7, <1>8 DEF IInv

\* The commit of get_session publishes what a request has written.
LEMMA CommitKeeps ==
  ASSUME IInv, NEW r \in Requests, Commit(r)
  PROVE  IInv'
  <1>1. TypeOK'
    <2>1. account' \in [Users -> {"absent", "active", "disabled"}]
      BY DEF IInv, TypeOK, Commit
    <2>2. owner' \in [Tokens -> Users \cup {None}]
      BY DEF IInv, TypeOK, Commit, Account, Calls, Ops, MintedOK, PresentedOK,
             Granting
    <2>3. pc' \in [Requests -> Statements] /\ call' \in [Requests -> Calls]
      BY DEF IInv, TypeOK, Commit, Pass, Goto, Statements, Calls, Ops, NoCall
    <2>4. revoked' \subseteq Tokens /\ revoking' \in [Requests -> SUBSET Tokens]
      BY DEF IInv, TypeOK, Commit
    <2>5. parent' \in [Tokens -> Tokens \cup {None}]
      BY DEF IInv, TypeOK, Commit, Calls
    <2>6. minted' \in [Requests -> Tokens \cup {None}]
      BY DEF IInv, TypeOK, Commit
    <2>7. UNCHANGED <<expired, known>>
      BY DEF Commit, outside
    <2>. QED BY <2>1, <2>2, <2>3, <2>4, <2>5, <2>6, <2>7 DEF IInv, TypeOK
  <1>2. CallsOK'
    BY DEF IInv, Commit, Goto, Pass, CallsOK, TypeOK, NoCall
  <1>3. RowsOK'
    BY AuthAssumption DEF IInv, Commit, Goto, Pass, RowsOK, TypeOK, MintedOK,
           PresentedOK, CallsOK, LocksOK, Account, Granting
  <1>4. MintedOK'
    BY AuthAssumption DEF IInv, Commit, Goto, Pass, MintedOK, TypeOK, Account
  <1>5. LocksOK'
    BY AuthAssumption DEF IInv, Commit, Goto, Pass, LocksOK, TypeOK, MintedOK
  <1>6. PresentedOK'
    BY AuthAssumption DEF IInv, Commit, Goto, Pass, Stored, PresentedOK, TypeOK,
           LocksOK, MintedOK, Granting
  <1>7. ExchangedIsRevoked'
    BY AuthAssumption DEF IInv, Commit, Goto, Pass, Stored, ExchangedIsRevoked,
           TypeOK, PresentedOK, MintedOK, Granting
  <1>8. EmailTakenOnce'
    BY DEF IInv, Commit, Goto, Pass, EmailTakenOnce, TypeOK, HoldsAccount, CallsOK
  <1>. QED BY <1>1, <1>2, <1>3, <1>4, <1>5, <1>6, <1>7, <1>8 DEF IInv

\* Replies, rollbacks and aborted requests.
LEMMA EndKeeps ==
  ASSUME IInv, NEW r \in Requests, Reply(r) \/ Rollback(r) \/ Abort(r)
  PROVE  IInv'
  <1>1. TypeOK'
    <2>1. known' \subseteq Tokens
      BY DEF IInv, TypeOK, Reply, Rollback, Abort, outside
    <2>2. pc' \in [Requests -> Statements]
      BY DEF IInv, TypeOK, Reply, Rollback, Abort, Pass, Goto, Statements
    <2>3. call' \in [Requests -> Calls]
      BY DEF IInv, TypeOK, Reply, Rollback, Abort, Pass, Calls, Ops, NoCall
    <2>4. revoking' \in [Requests -> SUBSET Tokens]
      BY DEF IInv, TypeOK, Reply, Rollback, Abort, ForgetWrites
    <2>5. minted' \in [Requests -> Tokens \cup {None}]
      BY DEF IInv, TypeOK, Reply, Rollback, Abort, ForgetWrites
    <2>6. UNCHANGED <<account, owner, revoked, expired, parent>>
      BY DEF Reply, Rollback, Abort, db, outside
    <2>. QED BY <2>1, <2>2, <2>3, <2>4, <2>5, <2>6 DEF IInv, TypeOK
  <1>2. CallsOK'
    BY DEF IInv, Reply, Rollback, Abort, Goto, Pass, CallsOK, TypeOK, NoCall
  <1>3. RowsOK'
    BY DEF IInv, Reply, Rollback, Abort, Goto, Pass, db, RowsOK, TypeOK, CallsOK
  <1>4. MintedOK'
    BY DEF IInv, Reply, Rollback, Abort, Goto, Pass, ForgetWrites, db, MintedOK,
           TypeOK
  <1>5. LocksOK'
    BY DEF IInv, Reply, Rollback, Abort, Goto, Pass, ForgetWrites, db, LocksOK,
           TypeOK, Untouched, MintedOK
  <1>6. PresentedOK'
    BY DEF IInv, Reply, Rollback, Abort, Goto, Pass, ForgetWrites, Stored, db,
           PresentedOK, TypeOK, LocksOK, Granting, Untouched
  <1>7. ExchangedIsRevoked'
    BY DEF IInv, Reply, Rollback, Abort, Goto, Pass, ForgetWrites, Stored, db,
           ExchangedIsRevoked, TypeOK, PresentedOK, Granting
  <1>8. EmailTakenOnce'
    BY DEF IInv, Reply, Rollback, Abort, Goto, Pass, db, EmailTakenOnce, TypeOK,
           HoldsAccount
  <1>. QED BY <1>1, <1>2, <1>3, <1>4, <1>5, <1>6, <1>7, <1>8 DEF IInv

\* Time, and the operator who disables an account.
LEMMA ElapseKeeps ==
  ASSUME IInv, (\E t \in Tokens : Expire(t)) \/ (\E u \in Users : Disable(u))
  PROVE  IInv'
  <1>1. CASE \E t \in Tokens : Expire(t)
    BY <1>1 DEF Expire, IInv, TypeOK, CallsOK, RowsOK, MintedOK, LocksOK,
           PresentedOK, ExchangedIsRevoked, EmailTakenOnce, HoldsAccount, Stored,
           db, writes
  <1>2. CASE \E u \in Users : Disable(u)
    BY <1>2 DEF Disable, IInv, TypeOK, CallsOK, RowsOK, MintedOK, LocksOK,
           PresentedOK, ExchangedIsRevoked, EmailTakenOnce, HoldsAccount, Stored,
           outside, writes
  <1>. QED BY <1>1, <1>2

\* Steps of others.
LEMMA StutterKeeps ==
  ASSUME IInv, UNCHANGED vars
  PROVE  IInv'
  BY DEF vars, IInv, TypeOK, CallsOK, RowsOK, MintedOK, LocksOK, PresentedOK,
         ExchangedIsRevoked, EmailTakenOnce, HoldsAccount, Stored

\* An empty database with no request in progress.
LEMMA InitHolds == Init => IInv
  BY DEF Init, NoCall, IInv, TypeOK, Statements, Calls, Ops, CallsOK, RowsOK,
         MintedOK, LocksOK, PresentedOK, ExchangedIsRevoked, EmailTakenOnce

\* Every step of the service keeps the invariant.
LEMMA NextKeeps == IInv /\ [Next]_vars => IInv'
  <1> SUFFICES ASSUME IInv, [Next]_vars PROVE IInv'
    OBVIOUS
  <1>1. CASE \E r \in Requests : \E c \in Inputs : Start(r, c)
    BY <1>1, StartKeeps
  <1>2. CASE \E r \in Requests : Serve(r) \/ Abort(r)
    BY <1>2, LookupKeeps, AcquireKeeps, RevokeKeeps, IssueKeeps, CommitKeeps, EndKeeps DEF
           Serve
  <1>. QED
    BY <1>1, <1>2, ElapseKeeps, StutterKeeps DEF Next

\* The inductive invariant, whatever requests overlap.
LEMMA Invariance == Spec => []IInv
  BY InitHolds, NextKeeps, PTL DEF Spec

\* Every variable keeps its type, whatever requests overlap.
THEOREM TypeCorrect == Spec => []TypeOK
  <1>1. IInv => TypeOK
    BY DEF IInv
  <1>. QED BY <1>1, Invariance, PTL

\* A token that refresh exchanged is revoked, whatever requests overlapped the
\* exchange and in whichever order the commit and the reply of get_session are.
THEOREM Exchanges == Spec => []ExchangedIsRevoked
  <1>1. IInv => ExchangedIsRevoked
    BY DEF IInv
  <1>. QED BY <1>1, Invariance, PTL

\* Registrations that overlap create at most one account for an e-mail: the unique
\* index on users.email decides what the check of register left open.
THEOREM Emails == Spec => []EmailTakenOnce
  <1>1. IInv => EmailTakenOnce
    BY DEF IInv
  <1>. QED BY <1>1, Invariance, PTL

-----------------------------------------------------------------------------
(* The session table implements RefreshTokens *)

\* A commit grants a token, exchanges one, revokes one, or changes none.
LEMMA CommitImplements ==
  ASSUME IInv, NEW r \in Requests, Commit(r)
  PROVE  [Weak!Next]_Weak!vars
  <1>. DEFINE m == minted[r]
              old == call[r].tok
  <1>1. CASE m = None
    <2>1. call[r].op = "logout" /\ revoking[r] \subseteq {old}
      BY <1>1 DEF IInv, MintedOK, PresentedOK, Commit, Granting
    <2>2. parent' = parent /\ owner' = owner /\ revoked' = revoked \cup revoking[r]
      BY <1>1, AuthAssumption DEF Commit, IInv, TypeOK
    <2>3. CASE revoking[r] = {}
      BY <2>2, <2>3 DEF Weak!vars, TokenStatus, Stored
    <2>4. CASE revoking[r] = {old}
      <3>1. old \in Tokens /\ owner[old] # None /\ old \notin revoked
        BY <2>4 DEF IInv, LocksOK, TypeOK
      <3>2. Weak!Revoke(old)
        BY <2>2, <2>4, <3>1 DEF Weak!Revoke, TokenStatus, Stored
      <3>. QED BY <3>1, <3>2 DEF Weak!Next
    <2>. QED BY <2>1, <2>3, <2>4
  <1>2. CASE m # None
    <2>1. m \in Tokens /\ owner[m] = None /\ m \notin revoked /\ parent[m] = None
      BY <1>2 DEF IInv, TypeOK, MintedOK, RowsOK, Commit
    <2>2. Account(r) # None
      BY <1>2, AuthAssumption DEF IInv, TypeOK, MintedOK, CallsOK, PresentedOK,
             Stored, Commit, Account, Calls, Ops, Granting
    <2>3. CASE call[r].op \in {"register", "login"}
      <3>1. revoking[r] = {}
        BY <2>3 DEF IInv, LocksOK
      <3>2. parent' = parent /\ revoked' = revoked
        BY <2>3, <3>1 DEF Commit, IInv, TypeOK
      <3>3. Weak!Grant(m)
        BY <2>1, <2>2, <3>2 DEF Weak!Grant, TokenStatus, Stored, Commit
      <3>. QED BY <2>1, <3>3 DEF Weak!Next
    <2>4. CASE call[r].op = "refresh"
      <3>1. /\ old \in Tokens /\ owner[old] # None
            /\ old \in revoked \cup revoking[r] /\ revoking[r] \subseteq {old}
        BY <2>4 DEF IInv, PresentedOK, Stored, Commit, Granting
      <3>2. Weak!Exchange(old, m)
        BY <2>1, <2>2, <2>4, <3>1 DEF Weak!Exchange, TokenStatus, Stored, Commit,
               IInv, TypeOK
      <3>. QED BY <2>1, <3>1, <3>2 DEF Weak!Next
    <2>. QED BY <1>2, <2>3, <2>4 DEF IInv, TypeOK, MintedOK, Calls, Ops, Commit
  <1>. QED BY <1>1, <1>2

\* Before its commit a request changes nothing that RefreshTokens sees.
LEMMA OthersStutter ==
  ASSUME Next, ~\E r \in Requests : Commit(r)
  PROVE  UNCHANGED Weak!vars
  <1>1. UNCHANGED <<owner, revoked, parent>>
    BY DEF Next, Serve, Start, RegisterLookup, RegisterCreate, LoginLookup,
           LoginTouch, RefreshLookup, RefreshAccount, RefreshNuke, RefreshVoid,
           RefreshRotate, RevokeRows, IssueTokens, LogoutLookup, LogoutRevoke,
           Reply, Rollback, Abort, Expire, Disable, db
  <1>. QED BY <1>1 DEF Weak!vars, TokenStatus, Stored

\* The session table implements RefreshTokens without single use: whatever requests
\* overlap, abort or lose their reply, each committed transaction of auth_service.py
\* is a grant, an exchange that leaves the old token revoked, or a revocation.
THEOREM Implements == Spec => ImplementsTokens
  <1>1. Init => Weak!Init
    BY DEF Init, Weak!Init, TokenStatus, Stored
  <1>2. IInv /\ [Next]_vars => [Weak!Next]_Weak!vars
    <2>1. CASE UNCHANGED vars
      BY <2>1 DEF vars, Weak!vars, TokenStatus, Stored
    <2>. QED BY <2>1, CommitImplements, OthersStutter
  <1>. QED BY <1>1, <1>2, Invariance, PTL DEF Spec, ImplementsTokens, Weak!Spec

-----------------------------------------------------------------------------
(* Sessions and their accounts *)

\* A login that passed its lookup names an account that exists.
LoginsOK ==
    \A r \in Requests : call[r].op = "login" /\ pc[r] \in {"touch", "issue", "return", "late"}
        => account[call[r].user] # "absent"

ChainInv == LoginsOK /\ ChainKeepsAccount

\* Init has no session.
LEMMA ChainInit == Init => ChainInv
  BY DEF Init, ChainInv, LoginsOK, ChainKeepsAccount, Stored

\* A session begins with the account of the request that issues it.
LEMMA ChainNext ==
  ASSUME IInv, ChainInv, [Next]_vars
  PROVE  ChainInv'
  <1>1. LoginsOK'
    <2>1. CASE \E r \in Requests, c \in Inputs : Start(r, c)
      BY <2>1 DEF Start, Goto, db, ChainInv, LoginsOK, IInv, TypeOK
    <2>2. CASE \E r \in Requests : Serve(r) /\ ~Commit(r)
      BY <2>2 DEF Serve, RegisterLookup, RegisterCreate, LoginLookup, LoginTouch,
             RefreshLookup, RefreshAccount, RefreshNuke, RefreshVoid,
             RefreshRotate, RevokeRows, IssueTokens, LogoutLookup, LogoutRevoke,
             Reply, Rollback, At, Goto, Pass, NoCall, db, ChainInv, LoginsOK,
             IInv, TypeOK
    <2>3. CASE \E r \in Requests : Commit(r) \/ Abort(r)
      BY <2>3 DEF Commit, Abort, Goto, Pass, NoCall, db, ChainInv, LoginsOK, IInv,
             TypeOK, CallsOK
    <2>4. CASE (\E t \in Tokens : Expire(t)) \/ UNCHANGED vars
      BY <2>4 DEF Expire, db, vars, ChainInv, LoginsOK
    <2>5. CASE \E u \in Users : Disable(u)
      BY <2>5 DEF Disable, ChainInv, LoginsOK, IInv, TypeOK, CallsOK
    <2>. QED BY <2>1, <2>2, <2>3, <2>4, <2>5 DEF Next
  <1>2. ChainKeepsAccount'
    <2>1. CASE \E r \in Requests : Commit(r)
      <3> PICK r \in Requests : Commit(r)
        BY <2>1
      <3> DEFINE m == minted[r]
      <3>1. CASE m = None
        <4>1. owner' = owner /\ parent' = parent
          BY <3>1, AuthAssumption DEF Commit, IInv, TypeOK
        <4>2. \A u \in Users : account[u] # "absent" => account'[u] # "absent"
          BY DEF Commit, IInv, TypeOK
        <4>. QED BY <4>1, <4>2, AuthAssumption DEF ChainInv, ChainKeepsAccount,
                        Stored, IInv, TypeOK
      <3>2. CASE m # None
        <4>1. m \in Tokens /\ owner[m] = None /\ call[r].op # "logout"
          BY <3>2 DEF IInv, TypeOK, MintedOK, Commit
        <4>2. \A t \in Tokens : parent[t] # m
          BY <4>1, AuthAssumption DEF IInv, ExchangedIsRevoked, RowsOK
        <4>3. Account(r) \in Users /\ account'[Account(r)] # "absent"
          <5>1. call[r] \in Calls /\ call[r].op \in {"register", "login", "refresh"}
            BY <4>1 DEF IInv, TypeOK, Calls, Ops
          <5>2. CASE call[r].op = "register"
            BY <5>2 DEF Commit, Account, IInv, TypeOK, CallsOK
          <5>3. CASE call[r].op = "login"
            BY <5>3 DEF Commit, Account, IInv, TypeOK, CallsOK, ChainInv, LoginsOK
          <5>4. CASE call[r].op = "refresh"
            BY <5>4 DEF Commit, Account, IInv, TypeOK, PresentedOK, Stored,
                   Granting, ChainInv, ChainKeepsAccount
          <5>. QED BY <5>1, <5>2, <5>3, <5>4
        <4>4. call[r].op = "refresh" =>
                  call[r].tok \in Tokens /\ owner[call[r].tok] = Account(r) /\ call[r].tok # m
          BY <4>1 DEF Commit, Account, IInv, PresentedOK, Stored, Granting
        <4>5. \A u \in Users : account[u] # "absent" => account'[u] # "absent"
          BY DEF Commit, IInv, TypeOK
        <4>6. owner' = [owner EXCEPT ![m] = Account(r)] /\ m \in DOMAIN owner
          BY <4>1 DEF Commit, IInv, TypeOK
        <4>7. \A t \in Tokens : Stored(t)' => account'[owner'[t]] # "absent"
          BY <4>1, <4>3, <4>5, <4>6, AuthAssumption DEF ChainInv,
                 ChainKeepsAccount, Stored, IInv, TypeOK
        <4>8. \A t \in Tokens :
                  parent'[t] # None => owner'[t] # None /\ owner'[t] = owner'[parent'[t]]
          <5> TAKE t \in Tokens
          <5>1. CASE t = m
            BY <5>1, <4>1, <4>3, <4>4, <4>6, AuthAssumption DEF Commit, IInv,
                   TypeOK, RowsOK
          <5>2. CASE t # m
            BY <5>2, <4>2, <4>6 DEF Commit, ChainInv, ChainKeepsAccount, IInv,
                   TypeOK
          <5>. QED BY <5>1, <5>2
        <4>. QED BY <4>7, <4>8 DEF ChainKeepsAccount
      <3>. QED BY <3>1, <3>2
    <2>2. CASE \E u \in Users : Disable(u)
      BY <2>2 DEF Disable, ChainInv, ChainKeepsAccount, Stored, IInv, TypeOK
    <2>3. CASE ~(\E r \in Requests : Commit(r)) /\ ~(\E u \in Users : Disable(u))
      <3>1. UNCHANGED <<account, owner, parent>>
        BY <2>3 DEF Next, Serve, Start, RegisterLookup, RegisterCreate,
               LoginLookup, LoginTouch, RefreshLookup, RefreshAccount,
               RefreshNuke, RefreshVoid, RefreshRotate, RevokeRows, IssueTokens,
               LogoutLookup, LogoutRevoke, Reply, Rollback, Abort, Expire, db,
               vars
      <3>. QED BY <3>1 DEF ChainInv, ChainKeepsAccount, Stored
    <2>. QED BY <2>1, <2>2, <2>3
  <1>. QED BY <1>1, <1>2 DEF ChainInv

\* Sessions and chains of exchanges stay with an account that exists: refresh issues
\* to the user of the row it was shown, register and login to the row they hold.
THEOREM Chains == Spec => []ChainKeepsAccount
  <1>1. ChainInv => ChainKeepsAccount
    BY DEF ChainInv
  <1>2. IInv /\ ChainInv /\ [Next]_vars => ChainInv'
    BY ChainNext
  <1>. QED BY <1>1, <1>2, ChainInit, Invariance, PTL DEF Spec

\* Accounts, e-mails and sessions belong together, for any number of them.
THEOREM Accounts == Spec => []AccountsKept
  <1>1. ChainKeepsAccount /\ EmailTakenOnce => AccountsKept
    BY DEF AccountsKept
  <1>. QED BY <1>1, Chains, Emails, PTL

-----------------------------------------------------------------------------
(* What clients were told, when replies leave after the commit *)

\* While replies leave after the commit: a reply carries a committed session, a
\* request presents nothing or a committed session, and a logout that is about to
\* commit has its session revoked.
ReplyInv ==
    /\ KnownIsStored
    /\ LogoutIsFinal
    /\ \A r \in Requests :
         /\ pc[r] # "late"
         /\ call[r].tok \in known \cup {None}
         /\ pc[r] = "reply" /\ minted[r] # None => Stored(minted[r])
         /\ At(r, "logout", "return") =>
                call[r].tok \in revoked \cup revoking[r] \cup {None}

\* Init has no request in progress.
LEMMA ReplyInit == Init => ReplyInv
  BY DEF Init, NoCall, ReplyInv, KnownIsStored, LogoutIsFinal, At

\* Every step keeps ReplyInv, if get_session commits before the reply leaves.
LEMMA ReplyNext ==
  ASSUME ReplyFirst = FALSE, IInv, ReplyInv, [Next]_vars
  PROVE  ReplyInv'
  <1>1. CASE \E r \in Requests, c \in Inputs : Start(r, c)
    BY <1>1 DEF Start, Inputs, Goto, At, Stored, db, outside, writes, ReplyInv,
           KnownIsStored, LogoutIsFinal, IInv, TypeOK
  <1>2. CASE \E r \in Requests : \/ RegisterLookup(r) \/ RegisterCreate(r) \/ LoginLookup(r)
                                 \/ LoginTouch(r) \/ RefreshLookup(r) \/ RefreshAccount(r)
    BY <1>2 DEF RegisterLookup, RegisterCreate, LoginLookup, LoginTouch,
           RefreshLookup, RefreshAccount, Goto, At, Stored, db, outside, writes,
           ReplyInv, KnownIsStored, LogoutIsFinal, IInv, TypeOK
  <1>3. CASE \E r \in Requests : \/ RefreshNuke(r) \/ RefreshVoid(r) \/ RefreshRotate(r)
                                 \/ LogoutRevoke(r)
    BY <1>3 DEF RefreshNuke, RefreshVoid, RefreshRotate, LogoutRevoke, RevokeRows,
           Goto, At, Stored, db, outside, ReplyInv, KnownIsStored, LogoutIsFinal,
           IInv, TypeOK
  <1>4. CASE \E r \in Requests : IssueTokens(r) \/ LogoutLookup(r)
    BY <1>4 DEF IssueTokens, LogoutLookup, Goto, At, Stored, db, outside, writes,
           ReplyInv, KnownIsStored, LogoutIsFinal, IInv, TypeOK, CallsOK
  <1>5. CASE \E r \in Requests : Commit(r)
    <2>1. PICK r \in Requests : Commit(r)
      BY <1>5
    <2>2. \A t \in Tokens : owner[t] # None => owner'[t] = owner[t]
      BY <2>1, AuthAssumption DEF Commit, IInv, TypeOK, MintedOK
    <2>3. minted[r] # None => Stored(minted[r])'
      BY <2>1, AuthAssumption DEF Commit, Account, Stored, IInv, TypeOK, MintedOK,
             CallsOK, PresentedOK, Granting, Calls, Ops
    <2>4. KnownIsStored'
      BY <2>1, <2>2 DEF Commit, outside, ReplyInv, KnownIsStored, Stored
    <2>5. \A q \in Requests : At(q, "logout", "reply")' => (call[q].tok \in revoked \/ ~Stored(call[q].tok))'
      BY <2>1, <2>2, AuthAssumption DEF Commit, Pass, Goto, At, Stored, outside,
             ReplyInv, KnownIsStored, LogoutIsFinal, IInv, TypeOK
    <2>6. \A q \in Requests : /\ pc'[q] # "late" /\ call'[q].tok \in known' \cup {None}
                              /\ At(q, "logout", "return")' => (call[q].tok \in revoked \cup revoking[q] \cup {None})'
      BY <2>1 DEF Commit, Pass, Goto, At, outside, ReplyInv, IInv, TypeOK
    <2>7. \A q \in Requests : pc'[q] = "reply" /\ minted'[q] # None => Stored(minted[q])'
      <3>1. minted' = minted /\ \A q \in Requests : q # r => pc'[q] = pc[q]
        BY <2>1 DEF Commit, Pass, Goto, IInv, TypeOK
      <3>2. \A t \in Tokens : Stored(t) => owner'[t] # None
        BY <2>2 DEF Stored
      <3>. QED BY <2>3, <3>1, <3>2 DEF ReplyInv, Stored
    <2>. QED BY <2>4, <2>5, <2>6, <2>7 DEF ReplyInv, LogoutIsFinal
  <1>6. CASE \E r \in Requests : Reply(r) \/ Rollback(r) \/ Abort(r)
    BY <1>6 DEF Reply, Rollback, Abort, ForgetWrites, Pass, Goto, NoCall, At,
           Stored, db, outside, ReplyInv, KnownIsStored, LogoutIsFinal, IInv,
           TypeOK
  <1>7. CASE (\E t \in Tokens : Expire(t)) \/ (\E u \in Users : Disable(u)) \/ UNCHANGED vars
    BY <1>7 DEF Expire, Disable, vars, At, Stored, db, outside, writes, ReplyInv,
           KnownIsStored, LogoutIsFinal
  <1>. QED BY <1>1, <1>2, <1>3, <1>4, <1>5, <1>6, <1>7 DEF Next, Serve

\* ReplyInv holds throughout, if get_session commits before the reply leaves.
LEMMA ReplyInvariance ==
  ASSUME ReplyFirst = FALSE
  PROVE  Spec => []ReplyInv
  <1>1. IInv /\ ReplyInv /\ [Next]_vars => ReplyInv'
    BY ReplyNext
  <1>. QED BY <1>1, ReplyInit, Invariance, PTL DEF Spec

\* With FastAPI up to 0.117, where get_session commits before the reply leaves, a
\* client never holds a token the server has not stored.
THEOREM Known ==
  ASSUME ReplyFirst = FALSE
  PROVE  Spec => []KnownIsStored
  <1>1. ReplyInv => KnownIsStored
    BY DEF ReplyInv
  <1>. QED BY <1>1, ReplyInvariance, PTL

\* With the same order, a logout that is answered has revoked its token, whatever
\* refresh or logout overlapped it.
THEOREM Logouts ==
  ASSUME ReplyFirst = FALSE
  PROVE  Spec => []LogoutIsFinal
  <1>1. ReplyInv => LogoutIsFinal
    BY DEF ReplyInv
  <1>. QED BY <1>1, ReplyInvariance, PTL

\* When the commit precedes the reply, what a client was told is committed.
THEOREM Clients ==
  ASSUME ReplyFirst = FALSE
  PROVE  Spec => []ClientsServed
  <1>1. Spec => []KnownIsStored
    BY Known
  <1>2. Spec => []LogoutIsFinal
    BY Logouts
  <1>3. KnownIsStored /\ LogoutIsFinal => ClientsServed
    BY DEF ClientsServed
  <1>. QED BY <1>1, <1>2, <1>3, PTL

-----------------------------------------------------------------------------
(* Requests that do not overlap *)

\* One request at a time: a refresh that goes on found its session unrevoked, and
\* revokes it itself.
SequentialInv ==
    \A r \in Requests : call[r].op = "refresh" =>
        /\ pc[r] \in {"account", "rotate"} => call[r].tok \notin revoked
        /\ pc[r] \in Granting => call[r].tok \in revoking[r]

\* Init has no request in progress.
LEMMA SequentialInit == Init => SequentialInv
  BY DEF Init, NoCall, SequentialInv

\* Every step keeps SequentialInv, if requests do not overlap.
LEMMA SequentialNext ==
  ASSUME \A r, q \in Requests : r = q, IInv, SequentialInv, [Next]_vars
  PROVE  SequentialInv'
  <1>1. CASE \E r \in Requests, c \in Inputs : Start(r, c)
    BY <1>1 DEF Start, Goto, Granting, db, SequentialInv, IInv, TypeOK
  <1>2. CASE \E r \in Requests : \/ RegisterLookup(r) \/ RegisterCreate(r) \/ LoginLookup(r)
                                 \/ LoginTouch(r) \/ RefreshLookup(r) \/ RefreshAccount(r)
    BY <1>2 DEF RegisterLookup, RegisterCreate, LoginLookup, LoginTouch,
           RefreshLookup, RefreshAccount, Goto, At, Granting, db, writes,
           SequentialInv, IInv, TypeOK
  <1>3. CASE \E r \in Requests : \/ RefreshNuke(r) \/ RefreshVoid(r) \/ RefreshRotate(r)
                                 \/ LogoutRevoke(r)
    BY <1>3 DEF RefreshNuke, RefreshVoid, RefreshRotate, LogoutRevoke, RevokeRows,
           Goto, At, Granting, db, SequentialInv, IInv, TypeOK
  <1>4. CASE \E r \in Requests : IssueTokens(r) \/ LogoutLookup(r)
    BY <1>4 DEF IssueTokens, LogoutLookup, Goto, At, Granting, db, SequentialInv,
           IInv, TypeOK
  <1>5. CASE \E r \in Requests : Commit(r) \/ Reply(r) \/ Rollback(r) \/ Abort(r)
    BY <1>5, AuthAssumption DEF Commit, Reply, Rollback, Abort, ForgetWrites,
           Pass, Goto, NoCall, Granting, db, SequentialInv, IInv, TypeOK
  <1>6. CASE (\E t \in Tokens : Expire(t)) \/ (\E u \in Users : Disable(u)) \/ UNCHANGED vars
    BY <1>6 DEF Expire, Disable, vars, db, writes, SequentialInv
  <1>. QED BY <1>1, <1>2, <1>3, <1>4, <1>5, <1>6 DEF Next, Serve

\* Then the token a commit exchanges was live until that commit.
LEMMA CommitExchanges ==
  ASSUME IInv, SequentialInv, NEW r \in Requests, Commit(r)
  PROVE  [Strong!Next]_Strong!vars
  <1>1. CASE [Weak!Next]_Weak!vars /\ ~\E old, t \in Tokens : Weak!Exchange(old, t)
    BY <1>1 DEF Weak!Next, Weak!vars, Weak!Grant, Weak!Revoke, Strong!Next,
           Strong!vars, Strong!Grant, Strong!Revoke
  <1>2. CASE \E old, t \in Tokens : Weak!Exchange(old, t)
    <2>1. PICK old \in Tokens, t \in Tokens : Weak!Exchange(old, t)
      BY <1>2
    <2>2. parent[t] = None /\ parent'[t] = old /\ old # None
      BY <2>1, AuthAssumption DEF Weak!Exchange, TokenStatus, Stored, IInv,
             RowsOK, TypeOK
    <2>3. call[r].op = "refresh" /\ call[r].tok = old
      BY <2>2 DEF Commit, IInv, TypeOK
    <2>4. old \in revoking[r]
      BY <2>3 DEF SequentialInv, Commit, Granting
    <2>5. TokenStatus[old] = "live"
      BY <2>4 DEF TokenStatus, Stored, IInv, LocksOK
    <2>6. Strong!Exchange(old, t)
      BY <2>1, <2>5 DEF Weak!Exchange, Strong!Exchange
    <2>. QED BY <2>6 DEF Strong!Next
  <1>. QED BY <1>1, <1>2, CommitImplements

\* Requests served one after the other keep the promise of auth_service.py:4, "Refresh
\* tokens are single-use": every exchange is of a live token.
THEOREM SequentialImplements ==
  ASSUME \A r, q \in Requests : r = q
  PROVE  Spec => ImplementsSingleUse
  <1>1. Init => Strong!Init
    BY DEF Init, Strong!Init, TokenStatus, Stored
  <1>2. IInv /\ SequentialInv /\ [Next]_vars => [Strong!Next]_Strong!vars
    <2>1. CASE UNCHANGED vars
      BY <2>1 DEF vars, Strong!vars, TokenStatus, Stored
    <2>2. UNCHANGED Weak!vars => UNCHANGED Strong!vars
      BY DEF Weak!vars, Strong!vars
    <2>. QED BY <2>1, <2>2, CommitExchanges, OthersStutter
  <1>3. IInv /\ SequentialInv /\ [Next]_vars => SequentialInv'
    BY SequentialNext
  <1>. QED BY <1>1, <1>2, <1>3, SequentialInit, Invariance, PTL DEF Spec,
                  ImplementsSingleUse, Strong!Spec

\* What a token that was never issued has no part in: an exchange gives a fresh token to
\* one that, if live, had given none.
StrongInv ==
    /\ Strong!TypeOK /\ Strong!ExchangedIsRevoked /\ Strong!ExchangedOnce
    /\ \A t \in Tokens : TokenStatus[t] = "unused" => parent[t] = None

\* RefreshTokens with single use keeps StrongInv, whatever its status is made of.
LEMMA StrongNext ==
  ASSUME StrongInv, [Strong!Next]_Strong!vars
  PROVE  StrongInv'
  <1>. DEFINE status == TokenStatus
  <1>1. /\ status \in [Tokens -> {"unused", "live", "revoked"}]
        /\ parent \in [Tokens -> Tokens \cup {None}]
        /\ \A t \in Tokens : parent[t] # None => status[parent[t]] = "revoked"
        /\ \A t, s \in Tokens : parent[t] # None /\ parent[t] = parent[s] => t = s
        /\ \A t \in Tokens : status[t] = "unused" => parent[t] = None
    BY DEF StrongInv, Strong!TypeOK, Strong!ExchangedIsRevoked, Strong!ExchangedOnce
  <1>2. \/ \E t \in Tokens :
              /\ status[t] = "unused" /\ status' = [status EXCEPT ![t] = "live"]
              /\ parent' = parent
        \/ \E t \in Tokens :
              /\ status[t] = "live" /\ status' = [status EXCEPT ![t] = "revoked"]
              /\ parent' = parent
        \/ \E old, t \in Tokens :
              /\ status[old] = "live" /\ status[t] = "unused"
              /\ status' = [status EXCEPT ![old] = "revoked", ![t] = "live"]
              /\ parent' = [parent EXCEPT ![t] = old]
        \/ status' = status /\ parent' = parent
    BY DEF Strong!Next, Strong!vars, Strong!Grant, Strong!Revoke, Strong!Exchange
  <1>. HIDE DEF status
  <1>3. /\ status' \in [Tokens -> {"unused", "live", "revoked"}]
        /\ parent' \in [Tokens -> Tokens \cup {None}]
    BY <1>1, <1>2
  <1>4. \A t \in Tokens : parent'[t] # None => status'[parent'[t]] = "revoked"
    BY <1>1, <1>2
  <1>5. \A t, s \in Tokens : parent'[t] # None /\ parent'[t] = parent'[s] => t = s
    BY <1>1, <1>2
  <1>6. \A t \in Tokens : status'[t] = "unused" => parent'[t] = None
    BY <1>1, <1>2
  <1>. QED BY <1>3, <1>4, <1>5, <1>6
           DEF StrongInv, Strong!TypeOK, Strong!ExchangedIsRevoked, Strong!ExchangedOnce, status

\* So, one request at a time, no two tokens were ever issued for the same one
\* (auth_service.py:4).
THEOREM UsedOnce ==
  ASSUME \A r, q \in Requests : r = q
  PROVE  Spec => []Strong!ExchangedOnce
  <1>1. Strong!Init => StrongInv
    BY DEF Strong!Init, StrongInv, Strong!TypeOK, Strong!ExchangedIsRevoked,
           Strong!ExchangedOnce
  <1>2. StrongInv /\ [Strong!Next]_Strong!vars => StrongInv'
    BY StrongNext
  <1>3. StrongInv => Strong!ExchangedOnce
    BY DEF StrongInv
  <1>4. Spec => Strong!Spec
    BY SequentialImplements DEF ImplementsSingleUse
  <1>. QED BY <1>1, <1>2, <1>3, <1>4, PTL DEF Strong!Spec

-----------------------------------------------------------------------------
(* How far single use can slip *)

\* The tokens issued for p, and the requests that may still issue one: they found p
\* unrevoked, and have not committed.
Successors(p) == {t \in Tokens : parent[t] = p}
Exchanging(p) ==
    {r \in Requests : /\ call[r].op = "refresh" /\ call[r].tok = p
                      /\ pc[r] \in {"account", "rotate"} \cup Granting}

\* An exchange that commits makes a successor of a request.
FanInv ==
    \A p \in Tokens :
        /\ IsFiniteSet(Successors(p))
        /\ Cardinality(Successors(p)) + Cardinality(Exchanging(p)) <= Cardinality(Requests)

\* Some requests are at most all of them.
LEMMA SomeRequests ==
  ASSUME NEW S \in SUBSET Requests
  PROVE  /\ IsFiniteSet(S) /\ Cardinality(S) \in Nat /\ Cardinality(Requests) \in Nat
         /\ Cardinality(S) <= Cardinality(Requests)
  BY FS_Subset, FS_CardinalityType, AuthAssumption

\* Before its first exchange commits a token has no successor, so that nothing need be
\* counted when a request looks it up; afterwards none finds it unrevoked.
LEMMA FanServe ==
  ASSUME IInv, FanInv, UNCHANGED <<parent, revoked>>,
         \A r \in Requests, p \in revoked : r \in Exchanging(p)' => r \in Exchanging(p)
  PROVE  FanInv'
  <1>. SUFFICES ASSUME NEW p \in Tokens
                PROVE  /\ IsFiniteSet(Successors(p))'
                       /\ (Cardinality(Successors(p)) + Cardinality(Exchanging(p))
                             <= Cardinality(Requests))'
    BY DEF FanInv
  <1>1. Successors(p)' = Successors(p)
    BY DEF Successors
  <1>2. Exchanging(p) \in SUBSET Requests /\ Exchanging(p)' \in SUBSET Requests
    BY DEF Exchanging
  <1>3. /\ Cardinality(Exchanging(p)) \in Nat /\ Cardinality(Exchanging(p)') \in Nat
        /\ Cardinality(Requests) \in Nat
        /\ Cardinality(Exchanging(p)') <= Cardinality(Requests) /\ IsFiniteSet(Exchanging(p))
    BY <1>2, SomeRequests
  <1>4. IsFiniteSet(Successors(p)) /\ Cardinality(Successors(p)) \in Nat
    BY FS_CardinalityType DEF FanInv
  <1>5. CASE p \in revoked
    <2>1. Exchanging(p)' \subseteq Exchanging(p)
      BY <1>2, <1>5
    <2>2. Cardinality(Exchanging(p)') <= Cardinality(Exchanging(p))
      BY <1>3, <2>1, FS_Subset
    <2>3. Cardinality(Successors(p)) + Cardinality(Exchanging(p)) <= Cardinality(Requests)
      BY DEF FanInv
    <2>. QED BY <1>1, <1>3, <1>4, <2>2, <2>3
  <1>6. CASE p \notin revoked
    <2>1. Successors(p) = {}
      BY <1>6, AuthAssumption DEF IInv, ExchangedIsRevoked, Successors
    <2>2. Cardinality(Successors(p)) = 0
      BY <2>1, FS_EmptySet
    <2>. QED BY <1>1, <1>3, <1>4, <2>2
  <1>. QED BY <1>5, <1>6

\* A commit makes at most one successor, of the token its request was exchanging.
LEMMA FanCommit ==
  ASSUME IInv, FanInv, NEW r \in Requests, Commit(r)
  PROVE  FanInv'
  <1>. SUFFICES ASSUME NEW p \in Tokens
                PROVE  /\ IsFiniteSet(Successors(p))'
                       /\ (Cardinality(Successors(p)) + Cardinality(Exchanging(p))
                             <= Cardinality(Requests))'
    BY DEF FanInv
  <1>1. /\ pc[r] \in {"return", "late"} /\ pc'[r] \in {"idle", "reply"}
        /\ \A q \in Requests \ {r} : pc'[q] = pc[q] /\ call'[q] = call[q]
        /\ parent' = [t \in Tokens |-> IF t = minted[r] /\ call[r].op = "refresh"
                                       THEN call[r].tok ELSE parent[t]]
    BY DEF Commit, Pass, Goto, IInv, TypeOK
  <1>2. Exchanging(p) \in SUBSET Requests /\ Exchanging(p)' \in SUBSET (Exchanging(p) \ {r})
    BY <1>1 DEF Exchanging, Granting
  <1>3. /\ IsFiniteSet(Exchanging(p)) /\ Cardinality(Exchanging(p)) \in Nat
        /\ Cardinality(Exchanging(p)') \in Nat /\ Cardinality(Requests) \in Nat
    BY <1>2, SomeRequests
  <1>4. IsFiniteSet(Successors(p)) /\ Cardinality(Successors(p)) \in Nat
    BY FS_CardinalityType DEF FanInv
  <1>5. Cardinality(Successors(p)) + Cardinality(Exchanging(p)) <= Cardinality(Requests)
    BY DEF FanInv
  <1>6. CASE call[r].op = "refresh" /\ call[r].tok = p
    <2>1. r \in Exchanging(p)
      BY <1>1, <1>6 DEF Exchanging, Granting
    <2>2. /\ Cardinality(Exchanging(p) \ {r}) = Cardinality(Exchanging(p)) - 1
          /\ IsFiniteSet(Exchanging(p) \ {r})
      BY <1>3, <2>1, FS_RemoveElement
    <2>3. Cardinality(Exchanging(p)') <= Cardinality(Exchanging(p) \ {r})
      BY <1>2, <2>2, FS_Subset
    <2>4. Successors(p)' \in SUBSET (Successors(p) \cup {minted[r]})
      BY <1>1 DEF Successors
    <2>5. /\ IsFiniteSet(Successors(p) \cup {minted[r]})
          /\ Cardinality(Successors(p) \cup {minted[r]})
               \in {Cardinality(Successors(p)), Cardinality(Successors(p)) + 1}
      BY <1>4, FS_AddElement
    <2>6. /\ IsFiniteSet(Successors(p)')
          /\ Cardinality(Successors(p)') <= Cardinality(Successors(p) \cup {minted[r]})
          /\ Cardinality(Successors(p)') \in Nat
      BY <2>4, <2>5, FS_Subset, FS_CardinalityType
    <2>. QED BY <1>3, <1>4, <1>5, <2>2, <2>3, <2>5, <2>6
  <1>7. CASE ~(call[r].op = "refresh" /\ call[r].tok = p)
    <2>1. Successors(p)' = Successors(p)
      <3>1. \A t \in Tokens : t = minted[r] => parent[t] = None
        BY <1>1, AuthAssumption DEF IInv, MintedOK, RowsOK
      <3>2. p # None
        BY AuthAssumption
      <3>. QED BY <1>1, <1>7, <3>1, <3>2 DEF Successors
    <2>2. Cardinality(Exchanging(p)') <= Cardinality(Exchanging(p))
      BY <1>2, <1>3, FS_Subset
    <2>. QED BY <1>3, <1>4, <1>5, <2>1, <2>2
  <1>. QED BY <1>6, <1>7

\* Every step keeps FanInv.
LEMMA FanNext == ASSUME IInv, FanInv, [Next]_vars PROVE FanInv'
  <1>1. CASE \E r \in Requests : Commit(r)
    BY <1>1, FanCommit
  <1>2. CASE ~\E r \in Requests : Commit(r)
    <2>1. UNCHANGED <<parent, revoked>>
      BY <1>2 DEF Next, Serve, Start, RegisterLookup, RegisterCreate, LoginLookup, LoginTouch,
         RefreshLookup, RefreshAccount, RefreshNuke, RefreshVoid, RefreshRotate, RevokeRows,
         IssueTokens, LogoutLookup, LogoutRevoke, Reply, Rollback, Abort, Expire, Disable,
         db, vars
    <2>2. ASSUME NEW q \in Requests, NEW p \in revoked, q \in Exchanging(p)'
          PROVE  q \in Exchanging(p)
      <3>. USE <2>2 DEF Exchanging, Granting, IInv, TypeOK, Goto, At
      <3>1. CASE UNCHANGED <<pc, call>>
        BY <3>1
      <3>2. CASE \E r \in Requests, c \in Inputs : Start(r, c)
        BY <3>2 DEF Start
      <3>3. CASE \E r \in Requests : \/ RegisterLookup(r) \/ RegisterCreate(r) \/ LoginLookup(r)
                                     \/ LoginTouch(r) \/ LogoutLookup(r) \/ LogoutRevoke(r)
        BY <3>3 DEF RegisterLookup, RegisterCreate, LoginLookup, LoginTouch, LogoutLookup,
           LogoutRevoke, RevokeRows
      <3>4. CASE \E r \in Requests : RefreshLookup(r) \/ RefreshAccount(r) \/ RefreshRotate(r)
        BY <3>4 DEF RefreshLookup, RefreshAccount, RefreshRotate, RevokeRows
      <3>5. CASE \E r \in Requests : RefreshNuke(r) \/ RefreshVoid(r) \/ IssueTokens(r)
        BY <3>5 DEF RefreshNuke, RefreshVoid, RevokeRows, IssueTokens
      <3>6. CASE \E r \in Requests : Reply(r) \/ Rollback(r) \/ Abort(r)
        BY <3>6, AuthAssumption DEF Reply, Rollback, Abort, Pass, NoCall
      <3>. QED BY <1>2, <3>1, <3>2, <3>3, <3>4, <3>5, <3>6 DEF Next, Serve, Expire, Disable, vars
    <2>. QED BY <2>1, <2>2, FanServe
  <1>. QED BY <1>1, <1>2

\* auth_service.py:4, "Refresh tokens are single-use": at READ COMMITTED a token may be
\* exchanged more than once, but never more often than requests overlap.
THEOREM FanOut == Spec => []FanOutBounded
  <1>1. Init => FanInv
    <2>. SUFFICES ASSUME Init, NEW p \in Tokens
                  PROVE  /\ IsFiniteSet(Successors(p))
                         /\ Cardinality(Successors(p)) + Cardinality(Exchanging(p))
                              <= Cardinality(Requests)
      BY DEF FanInv
    <2>1. Successors(p) = {} /\ Exchanging(p) = {}
      BY AuthAssumption DEF Init, Successors, Exchanging, NoCall
    <2>2. Cardinality(Requests) \in Nat
      BY AuthAssumption, FS_CardinalityType
    <2>. QED BY <2>1, <2>2, FS_EmptySet
  <1>2. FanInv => FanOutBounded
    <2>. SUFFICES ASSUME FanInv, NEW p \in Tokens
                  PROVE  Cardinality(Successors(p)) <= Cardinality(Requests)
      BY DEF FanOutBounded, Successors
    <2>1. /\ Cardinality(Exchanging(p)) \in Nat /\ Cardinality(Requests) \in Nat
          /\ Cardinality(Successors(p)) \in Nat
      BY SomeRequests, FS_CardinalityType DEF Exchanging, FanInv
    <2>. QED BY <2>1 DEF FanInv
  <1>. QED BY <1>1, <1>2, FanNext, Invariance, PTL DEF Spec
==============================================================================
