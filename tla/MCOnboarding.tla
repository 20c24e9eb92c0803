----------------------------- MODULE MCOnboarding -----------------------------
(* A small instance of Onboarding: two slugs, one source, two requests. *)
EXTENDS Onboarding

CONSTANTS t1, t2, s1, r1, r2

TwoSlugs == {t1, t2}
OneSlug == {t1}
OneSource == {s1}
TwoRequests == {r1, r2}
Middling == {5}
FewAndMany == {1, 5}
===============================================================================
