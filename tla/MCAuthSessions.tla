--------------------------- MODULE MCAuthSessions ----------------------------
(* Small instances of AuthSessions. *)
EXTENDS AuthSessions, TLC

CONSTANTS u1, u2, t1, t2, t3, t4, r1, r2

OneUser == {u1}
TwoUsers == {u1, u2}
ThreeTokens == {t1, t2, t3}
FourTokens == {t1, t2, t3, t4}
OneRequest == {r1}
TwoRequests == {r1, r2}

\* Tokens, users and requests are only ever compared.
Symmetric == Permutations(Users) \cup Permutations(Tokens) \cup Permutations(Requests)
==============================================================================
