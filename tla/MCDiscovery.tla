---------------------------- MODULE MCDiscovery ----------------------------
(* Instances of Discovery for TLC: one viewer, and others to be shown. *)
EXTENDS Discovery, TLC

CONSTANTS ana, bia, caio, g1, g2

People == {ana, bia, caio}
\* A complete profile of an age, and one emptied of course, campus and age.
TwoSaves == {[complete |-> TRUE, age |-> 20], [complete |-> FALSE, age |-> None]}
OlderOnly == {[min |-> 30, max |-> 99]}
TwoGets == {g1, g2}
OnlyAna == {ana}
Others == {bia, caio}
FirstAndSecond == {0, 1}

\* The others differ in nothing but their name, and so do the requests.
Symmetric == Permutations({bia, caio}) \cup Permutations(TwoGets)
=============================================================================
