---------------------------- MODULE RefreshTokens ----------------------------
(***************************************************************************)
(* What the session table promises to the holders of refresh tokens,       *)
(* without requests, transactions or locks.  A token is granted by a       *)
(* registration or a login, exchanged for another one by a refresh, and    *)
(* revoked by a logout.  Every step is one committed transaction.          *)
(*                                                                         *)
(* SingleUse chooses the strength of the promise.  TRUE is what the        *)
(* docstrings of app/services/auth_service.py and app/models/user.py say:  *)
(* an exchange needs a live token, so a token has at most one successor.   *)
(* FALSE is what the code keeps when requests overlap: an exchange needs a *)
(* token that was granted, and leaves it revoked.                          *)
(***************************************************************************)
CONSTANTS Tokens, None, SingleUse

VARIABLES status,   \* status[t]: "unused", "live" or "revoked"
          parent    \* parent[t]: the token t was exchanged for, or None

vars == <<status, parent>>

TypeOK ==
    /\ status \in [Tokens -> {"unused", "live", "revoked"}]
    /\ parent \in [Tokens -> Tokens \cup {None}]

Init ==
    /\ status = [t \in Tokens |-> "unused"]
    /\ parent = [t \in Tokens |-> None]

Grant(t) ==
    /\ status[t] = "unused"
    /\ status' = [status EXCEPT ![t] = "live"]
    /\ UNCHANGED parent

Exchange(old, t) ==
    /\ status[old] # "unused"
    /\ SingleUse => status[old] = "live"
    /\ status[t] = "unused"
    /\ status' = [status EXCEPT ![old] = "revoked", ![t] = "live"]
    /\ parent' = [parent EXCEPT ![t] = old]

Revoke(t) ==
    /\ status[t] = "live"
    /\ status' = [status EXCEPT ![t] = "revoked"]
    /\ UNCHANGED parent

Next ==
    \/ \E t \in Tokens : Grant(t) \/ Revoke(t)
    \/ \E old, t \in Tokens : Exchange(old, t)

Spec == Init /\ [][Next]_vars

\* A token that was exchanged is revoked: presenting it again can only be
\* answered 401 (auth_service.py, refresh: rotate, then issue).
ExchangedIsRevoked ==
    \A t \in Tokens : parent[t] # None => status[parent[t]] = "revoked"

\* No two tokens were issued for the same one (auth_service.py, docstring:
\* "Refresh tokens are single-use").
ExchangedOnce ==
    \A t, s \in Tokens : parent[t] # None /\ parent[t] = parent[s] => t = s
==============================================================================
