---------------------------- MODULE SwipeLedger ----------------------------
(***************************************************************************)
(* What the swipe endpoint promises, without transactions, failures or     *)
(* processes.  A user decides about another user once and for all.  A      *)
(* decision may open a room for the two users, and only when it is a like  *)
(* that answers a like.  Room and membership appear in the same step as    *)
(* the decision, and a user may be told of a room only once it is there.   *)
(*                                                                         *)
(* It says "may open" where the API documentation says "opens": the code   *)
(* can lose a match (see Swipes, MutualLikesMatch), so a specification it  *)
(* implements cannot oblige the second like to open the room.              *)
(***************************************************************************)
CONSTANT Users

VARIABLES
    decisions,  \* decisions taken, as records [actor, target, action]
    rooms,      \* open rooms, as records [pair, members]
    told        \* who was told of which pair's room, as pairs <<user, pair>>

vars == <<decisions, rooms, told>>

Init ==
    /\ decisions = {}
    /\ rooms = {}
    /\ told = {}

Undecided(a, t) == \A s \in decisions : s.actor # a \/ s.target # t

Decide(a, t, d) ==
    /\ a # t
    /\ Undecided(a, t)
    /\ decisions' = decisions \cup {[actor |-> a, target |-> t, action |-> d]}
    /\ UNCHANGED <<rooms, told>>

DecideAndOpen(a, t) ==
    /\ a # t
    /\ Undecided(a, t)
    /\ [actor |-> t, target |-> a, action |-> "like"] \in decisions
    /\ decisions' = decisions \cup {[actor |-> a, target |-> t, action |-> "like"]}
    /\ rooms' = rooms \cup {[pair |-> {a, t}, members |-> {a, t}]}
    /\ UNCHANGED told

Tell(u, p) ==
    /\ \E room \in rooms : room.pair = p /\ u \in room.members
    /\ told' = told \cup {<<u, p>>}
    /\ UNCHANGED <<decisions, rooms>>

Next ==
    \/ \E a, t \in Users, d \in {"like", "pass"} : Decide(a, t, d)
    \/ \E a, t \in Users : DecideAndOpen(a, t)
    \/ \E u \in Users : \E room \in rooms : Tell(u, room.pair)

Spec == Init /\ [][Next]_vars
=============================================================================
