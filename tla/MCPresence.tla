----------------------------- MODULE MCPresence -----------------------------
(* Instances of Presence for TLC.  One unit of time is five seconds. *)
EXTENDS Presence, TLC

CONSTANTS tab, phone

BothConns == {tab, phone}

FortyFiveSeconds == 9
TwentySeconds == 4
ThirtySeconds == 6
SixtySeconds == 12

\* Connections differ in nothing but their name.
Symmetric == Permutations({tab, phone})
=============================================================================
