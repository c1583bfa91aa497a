---------------------------- MODULE MCRateLimit ----------------------------
(* Instances of RateLimit for TLC. *)
EXTENDS RateLimit, TLC

CONSTANTS r1, r2, r3, r4, ana, bia

ThreeRequests == {r1, r2, r3}
FourRequests == {r1, r2, r3, r4}
OneKey == {ana}
TwoKeys == {ana, bia}

\* Requests and keys differ in nothing but their name.
Symmetric == Permutations(FourRequests) \cup Permutations(TwoKeys)

\* The swipe limiter: a bucket of 60, refilled in a minute.
Minute == Burst * Period

\* docs/openapi.yaml and the comment in New say 60 swipes a minute, and
\* nothing of a burst.
SwipesWithinRate == WithinRate(Minute)
=============================================================================
