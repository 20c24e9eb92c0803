---------------------------- MODULE MCClientSession ----------------------------
(* Small instances of ClientSession: one tab, two calls, four token pairs. *)
EXTENDS ClientSession

CONSTANTS left, c1, c2, p1, p2, p3, p4

OneTab == {left}
TwoCalls == {c1, c2}
FourPairs == {p1, p2, p3, p4}
================================================================================
