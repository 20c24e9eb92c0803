---------------------------- MODULE AuthSessions -----------------------------
(***************************************************************************)
(* Register, login, refresh and logout (app/services/auth_service.py) as   *)
(* requests that run concurrently against PostgreSQL.  A request is one    *)
(* transaction (app/deps.py, get_session): it commits when the handler     *)
(* returns and rolls back when the handler raises.  Every await on the     *)
(* database is a point where other requests run, so each action below goes *)
(* from one statement of the handler to the next one.  Isolation is READ   *)
(* COMMITTED: a SELECT reads committed rows, an UPDATE or a clashing       *)
(* INSERT waits for the transaction that holds the row, then decides on    *)
(* the committed value.                                                    *)
(*                                                                         *)
(* A refresh token and its row of `sessions` are one element of Tokens.    *)
(* A wrong password and every other rejected input lead to the same raise. *)
(***************************************************************************)
EXTENDS FiniteSets, Naturals

CONSTANTS Users,       \* e-mail addresses, and the accounts they name
          Tokens,      \* bound: the refresh tokens that may be generated
          Requests,    \* bound: the requests served at the same time
          None,        \* no user, no token, or a token nobody was given
          ReplyFirst   \* does the response leave before get_session commits?

\* FastAPI >= 0.115 (pyproject.toml) admits both orders: up to 0.117 the exit
\* code of a dependency runs before the response is sent, from 0.118 after it.
ASSUME AuthAssumption ==
    /\ None \notin Users
    /\ None \notin Tokens
    /\ IsFiniteSet(Requests)
    /\ ReplyFirst \in BOOLEAN

VARIABLES
    \* committed rows
    account,   \* account[u]: "absent", "active" or "disabled"
    owner,     \* owner[t]: the user of the session, None while there is no row
    revoked,   \* the sessions whose revoked_at is set
    \* the clock, and what clients were given
    expired,   \* the sessions whose expires_at has passed
    known,     \* the tokens some client has received
    \* the requests
    pc,        \* pc[r]: the statement request r is about to execute
    call,      \* call[r]: the operation of r and its input
    revoking,  \* revoking[r]: rows whose revoked_at r has set, not committed
    minted,    \* minted[r]: the session r has inserted, not committed
    \* history
    parent     \* parent[t]: the token a refresh exchanged for t, or None

db      == <<account, owner, revoked, parent>>
outside == <<expired, known>>
writes  == <<revoking, minted>>
vars    == <<account, owner, revoked, expired, known, pc, call, revoking,
             minted, parent>>

Ops == {"register", "login", "refresh", "logout"}

Statements == {"idle", "lookup", "create", "touch", "account", "nuke", "void",
               "rotate", "issue", "revoke", "return", "late", "raise", "reply"}

Calls == [op : Ops, user : Users \cup {None}, tok : Tokens \cup {None}]

TypeOK ==
    /\ account \in [Users -> {"absent", "active", "disabled"}]
    /\ owner \in [Tokens -> Users \cup {None}]
    /\ revoked \subseteq Tokens
    /\ expired \subseteq Tokens
    /\ known \subseteq Tokens
    /\ pc \in [Requests -> Statements]
    /\ call \in [Requests -> Calls]
    /\ revoking \in [Requests -> SUBSET Tokens]
    /\ minted \in [Requests -> Tokens \cup {None}]
    /\ parent \in [Tokens -> Tokens \cup {None}]

NoCall == [op |-> "logout", user |-> None, tok |-> None]

Init ==
    /\ account = [u \in Users |-> "absent"]
    /\ owner = [t \in Tokens |-> None]
    /\ revoked = {}
    /\ expired = {}
    /\ known = {}
    /\ pc = [r \in Requests |-> "idle"]
    /\ call = [r \in Requests |-> NoCall]
    /\ revoking = [r \in Requests |-> {}]
    /\ minted = [r \in Requests |-> None]
    /\ parent = [t \in Tokens |-> None]

-----------------------------------------------------------------------------
(* Rows and locks *)

Stored(t) == t \in Tokens /\ owner[t] # None

\* Variants named <definition>_<what is wrong> are slips this code could make.
\* No action uses one: the mutant runs put one in place of its definition.
Fresh_Reused == {t \in Tokens \ known : owner[t] = None}

Fresh == {t \in Tokens \ known : owner[t] = None /\ \A q \in Requests : minted[q] # t}

InFlight == {q \in Requests : pc[q] # "idle"}

\* Request r holds the row of its user: its INSERT into users, or the UPDATE
\* of last_login_at, is not committed.
HoldsAccount(r) ==
    /\ call[r].op \in {"register", "login"}
    /\ pc[r] \in {"issue", "return", "late"}

AccountLocked(u) == \E q \in Requests : HoldsAccount(q) /\ call[q].user = u

SessionsLocked(r, S) == \E q \in Requests \ {r} : revoking[q] \cap S # {}

\* The account request r issues a token to.
Account(r) == IF call[r].op \in {"register", "login"} THEN call[r].user
                                                      ELSE owner[call[r].tok]

At(r, op, here) == call[r].op = op /\ pc[r] = here

Goto(r, there) == pc' = [pc EXCEPT ![r] = there]

-----------------------------------------------------------------------------
(* A request arrives.  Those that may generate a token need one in reserve *)
(* for every request in flight: the bound on Tokens is applied here only.  *)

Start(r, c) ==
    /\ pc[r] = "idle"
    /\ c.op # "logout" => Cardinality(Fresh) > Cardinality(InFlight)
    /\ call' = [call EXCEPT ![r] = c]
    /\ Goto(r, "lookup")
    /\ UNCHANGED <<db, outside, writes>>

Inputs ==
    [op : {"register", "login"}, user : Users, tok : {None}]
      \cup [op : {"refresh", "logout"}, user : {None}, tok : known \cup {None}]

\* register: the e-mail must be free ...
RegisterLookup(r) ==
    /\ At(r, "register", "lookup")
    /\ Goto(r, IF account[call[r].user] = "absent" THEN "create" ELSE "raise")
    /\ UNCHANGED <<db, outside, call, writes>>

RegisterCreate_NoUniqueIndex(r) ==
    /\ At(r, "register", "create")
    /\ Goto(r, "issue")
    /\ UNCHANGED <<db, outside, call, writes>>

\* ... and the unique index on users.email decides, once whoever inserted the
\* same e-mail has committed or rolled back.
RegisterCreate(r) ==
    /\ At(r, "register", "create")
    /\ ~AccountLocked(call[r].user)
    /\ Goto(r, IF account[call[r].user] = "absent" THEN "issue" ELSE "raise")
    /\ UNCHANGED <<db, outside, call, writes>>

LoginLookup(r) ==
    /\ At(r, "login", "lookup")
    /\ \/ Goto(r, "raise")
       \/ account[call[r].user] = "active" /\ Goto(r, "touch")
    /\ UNCHANGED <<db, outside, call, writes>>

\* login: update_password_hash and touch_last_login lock the user's row.
LoginTouch(r) ==
    /\ At(r, "login", "touch")
    /\ ~AccountLocked(call[r].user)
    /\ Goto(r, "issue")
    /\ UNCHANGED <<db, outside, call, writes>>

RefreshLookup_NoReuseCheck(r) ==
    /\ At(r, "refresh", "lookup")
    /\ Goto(r, IF Stored(call[r].tok) THEN "account" ELSE "raise")
    /\ UNCHANGED <<db, outside, call, writes>>

\* refresh: read the row, and branch on what was read.
RefreshLookup(r) ==
    /\ At(r, "refresh", "lookup")
    /\ LET t == call[r].tok
       IN  \/ ~Stored(t) /\ Goto(r, "raise")
           \/ Stored(t) /\ t \in revoked /\ Goto(r, "nuke")
           \/ Stored(t) /\ t \in expired \ revoked /\ Goto(r, "void")
           \/ Stored(t) /\ t \notin expired \cup revoked /\ Goto(r, "account")
    /\ UNCHANGED <<db, outside, call, writes>>

\* refresh: the user must still be active.
RefreshAccount(r) ==
    /\ At(r, "refresh", "account")
    /\ Goto(r, IF account[owner[call[r].tok]] = "active" THEN "rotate" ELSE "void")
    /\ UNCHANGED <<db, outside, call, writes>>

RevokeRows_SkipLocked(r, S) ==
    /\ revoking' = [revoking EXCEPT ![r] =
                      @ \cup {t \in S \ revoked : ~SessionsLocked(r, {t})}]
    /\ UNCHANGED <<db, outside, call, minted>>

\* SessionRepo.revoke and revoke_all_for_user: UPDATE ... WHERE revoked_at IS
\* NULL on the rows S, which waits for their holders.  Rows that are revoked by
\* then are not updated, and nobody looks at the number of rows that were.
RevokeRows(r, S) ==
    /\ ~SessionsLocked(r, S)
    /\ revoking' = [revoking EXCEPT ![r] = @ \cup (S \ revoked)]
    /\ UNCHANGED <<db, outside, call, minted>>

\* refresh with a revoked token: revoke all sessions of its user, then raise.
RefreshNuke(r) ==
    /\ At(r, "refresh", "nuke")
    /\ RevokeRows(r, {t \in Tokens : owner[t] = owner[call[r].tok]})
    /\ Goto(r, "raise")

\* refresh of an expired session, or for a user who is not active: revoke, raise.
RefreshVoid(r) ==
    /\ At(r, "refresh", "void")
    /\ RevokeRows(r, {call[r].tok})
    /\ Goto(r, "raise")

RefreshRotate_NoRevoke(r) ==
    /\ At(r, "refresh", "rotate")
    /\ Goto(r, "issue")
    /\ UNCHANGED <<db, outside, call, writes>>

\* refresh: revoke the presented token, go on to issue another.
RefreshRotate(r) ==
    /\ At(r, "refresh", "rotate")
    /\ RevokeRows(r, {call[r].tok})
    /\ Goto(r, "issue")

\* _issue_tokens: insert a session with a new token.
IssueTokens(r) ==
    /\ pc[r] = "issue"
    /\ \E t \in Fresh : minted' = [minted EXCEPT ![r] = t]
    /\ Goto(r, "return")
    /\ UNCHANGED <<db, outside, call, revoking>>

LogoutLookup(r) ==
    /\ At(r, "logout", "lookup")
    /\ LET t == call[r].tok
       IN  Goto(r, IF Stored(t) /\ t \notin revoked THEN "revoke" ELSE "return")
    /\ UNCHANGED <<db, outside, call, writes>>

LogoutRevoke(r) ==
    /\ At(r, "logout", "revoke")
    /\ RevokeRows(r, {call[r].tok})
    /\ Goto(r, "return")

-----------------------------------------------------------------------------
(* The end of a request *)

Pass(r, there) ==
    /\ Goto(r, there)
    /\ call' = IF there = "idle" THEN [call EXCEPT ![r] = NoCall] ELSE call

ForgetWrites(r) ==
    /\ revoking' = [revoking EXCEPT ![r] = {}]
    /\ minted' = [minted EXCEPT ![r] = None]

\* get_session commits after the handler has returned.  The reply still has to
\* carry the minted token, so minted is forgotten when the reply has left.
Commit(r) ==
    /\ pc[r] = IF ReplyFirst THEN "late" ELSE "return"
    /\ account' = [u \in Users |->
                     IF call[r].op = "register" /\ call[r].user = u
                     THEN "active" ELSE account[u]]
    /\ owner' = [t \in Tokens |-> IF t = minted[r] THEN Account(r) ELSE owner[t]]
    /\ revoked' = revoked \cup revoking[r]
    /\ parent' = [t \in Tokens |-> IF t = minted[r] /\ call[r].op = "refresh"
                                   THEN call[r].tok ELSE parent[t]]
    /\ revoking' = [revoking EXCEPT ![r] = {}]
    /\ minted' = IF ReplyFirst THEN [minted EXCEPT ![r] = None] ELSE minted
    /\ Pass(r, IF ReplyFirst THEN "idle" ELSE "reply")
    /\ UNCHANGED outside

Reply_Early(r) ==
    /\ pc[r] \in {"return", "reply"}
    /\ known' \in {known, known \cup ({minted[r]} \ {None})}
    /\ ForgetWrites(r)
    /\ Pass(r, "idle")
    /\ UNCHANGED <<db, expired>>

Reply_NoToken(r) ==
    /\ pc[r] = "reply"
    /\ known' = known \cup {minted[r]}
    /\ ForgetWrites(r)
    /\ Pass(r, "idle")
    /\ UNCHANGED <<db, expired>>

\* The response leaves; it may be lost on the way to the client.
Reply(r) ==
    /\ pc[r] = IF ReplyFirst THEN "return" ELSE "reply"
    /\ known' \in {known, known \cup ({minted[r]} \ {None})}
    /\ minted' = IF ReplyFirst THEN minted ELSE [minted EXCEPT ![r] = None]
    /\ Pass(r, IF ReplyFirst THEN "late" ELSE "idle")
    /\ UNCHANGED <<db, expired, revoking>>

Rollback_Forgotten(r) ==
    /\ pc[r] = "raise"
    /\ Pass(r, "idle")
    /\ UNCHANGED <<db, outside, writes>>

\* The handler raised: get_session rolls back, and the client gets an error.
Rollback(r) ==
    /\ pc[r] = "raise"
    /\ ForgetWrites(r)
    /\ Pass(r, "idle")
    /\ UNCHANGED <<db, outside>>

\* The process dies or the connection to the database is lost: the transaction
\* is rolled back, or was committed and its reply never leaves.
Abort(r) ==
    /\ pc[r] \notin {"idle", "raise"}
    /\ ForgetWrites(r)
    /\ Pass(r, "idle")
    /\ UNCHANGED <<db, outside>>

-----------------------------------------------------------------------------
(* Time passes, and an operator disables an account in the database *)

Expire(t) ==
    /\ Stored(t)
    /\ expired' = expired \cup {t}
    /\ UNCHANGED <<db, known, pc, call, writes>>

Disable(u) ==
    /\ account[u] = "active"
    /\ ~AccountLocked(u)
    /\ account' = [account EXCEPT ![u] = "disabled"]
    /\ UNCHANGED <<owner, revoked, parent, outside, pc, call, writes>>

-----------------------------------------------------------------------------

\* The steps the event loop and the database owe to a request in flight.
Serve(r) ==
    \/ RegisterLookup(r) \/ RegisterCreate(r)
    \/ LoginLookup(r) \/ LoginTouch(r)
    \/ RefreshLookup(r) \/ RefreshAccount(r)
    \/ RefreshNuke(r) \/ RefreshVoid(r) \/ RefreshRotate(r)
    \/ IssueTokens(r)
    \/ LogoutLookup(r) \/ LogoutRevoke(r)
    \/ Commit(r) \/ Reply(r) \/ Rollback(r)

Next ==
    \/ \E r \in Requests :
         \/ \E c \in Inputs : Start(r, c)
         \/ Serve(r)
         \/ Abort(r)
    \/ \E t \in Tokens : Expire(t)
    \/ \E u \in Users : Disable(u)

Spec == Init /\ [][Next]_vars

\* The event loop serves every request, and PostgreSQL queues those that wait
\* for a row, so a waiter is not passed over for ever: strong fairness.
FairSpec == Spec /\ \A r \in Requests : SF_vars(Serve(r))

-----------------------------------------------------------------------------
(* Properties *)

\* A token that was exchanged is revoked, whatever requests overlapped the
\* exchange, and whether or not the UPDATE of refresh changed a row (revoke,
\* then _issue_tokens, in one transaction).
ExchangedIsRevoked ==
    \A t \in Tokens : parent[t] # None => parent[t] \in revoked

\* A chain of exchanges stays with the account it began with, and the account
\* exists: no session outlives or precedes its user.
ChainKeepsAccount ==
    \A t \in Tokens :
        /\ Stored(t) => account[owner[t]] # "absent"
        /\ parent[t] # None => owner[t] # None /\ owner[t] = owner[parent[t]]

\* Two requests that both found an e-mail free cannot both create its account
\* (register checks first; the unique index on users.email decides).
EmailTakenOnce ==
    \A r \in Requests : call[r].op = "register" /\ HoldsAccount(r) =>
        /\ account[call[r].user] = "absent"
        /\ \A q \in Requests : HoldsAccount(q) /\ call[q].user = call[r].user => q = r

\* An account and its sessions belong together: no account without its own e-mail, no
\* session without its own account, whatever registrations and refreshes overlap.
AccountsKept == ChainKeepsAccount /\ EmailTakenOnce

\* How far "single-use" can slip: the tokens issued for one token are at most as
\* many as the requests served at the same time, since a request that looks the
\* token up after an exchange has committed finds it revoked.
FanOutBounded ==
    \A p \in Tokens : Cardinality({t \in Tokens : parent[t] = p}) <= Cardinality(Requests)

\* A client never holds a token whose session the server has not committed
\* (holds when get_session commits before the response leaves).
KnownIsStored == \A t \in known : Stored(t)

\* A logout that was answered 204 has revoked the token, or the token was never
\* issued, whatever refresh or logout overlapped it.
LogoutIsFinal ==
    \A r \in Requests : At(r, "logout", "reply") =>
        call[r].tok \in revoked \/ ~Stored(call[r].tok)

\* What a client was told is committed: the tokens it was given, the logout it asked for.
ClientsServed == KnownIsStored /\ LogoutIsFinal

\* No request waits for ever: row locks are always released, and no two
\* requests wait for each other.
RequestsEnd == \A r \in Requests : pc[r] # "idle" ~> pc[r] = "idle"

\* The abstract state of a token.
TokenStatus ==
    [t \in Tokens |-> IF ~Stored(t) THEN "unused"
                      ELSE IF t \in revoked THEN "revoked" ELSE "live"]

Weak   == INSTANCE RefreshTokens WITH status <- TokenStatus, SingleUse <- FALSE
Strong == INSTANCE RefreshTokens WITH status <- TokenStatus, SingleUse <- TRUE

\* The session table behaves like RefreshTokens, without single use, however
\* requests overlap, and with single use if they do not.
ImplementsTokens == Weak!Spec
ImplementsSingleUse == Strong!Spec

\* auth_service.py:5 "Reusing a revoked refresh token -> we assume theft and
\* revoke ALL sessions for that user": when the 401 leaves, the sessions that
\* revoke_all_for_user updated are revoked.
ReuseRevokesAll ==
    [][\A r \in Requests :
          At(r, "refresh", "raise") /\ call[r].tok \in revoked /\ pc'[r] = "idle"
            => revoking[r] \subseteq revoked']_vars
==============================================================================
