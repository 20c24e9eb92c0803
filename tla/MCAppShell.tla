------------------------------ MODULE MCAppShell ------------------------------
(* A small instance of AppShell: one topic, two articles, one of which the reader marks. *)
EXTENDS AppShell, TLC

CONSTANTS a1, a2, t1, login, register, s1, s2

TwoArticles == {a1, a2}
OneMarked == {a1}
OneTopic == {t1}
BothForms == {login, register}
TwoSubmits == {s1, s2}

Symmetric == Permutations(Submits) \cup Permutations(Forms)
===============================================================================
