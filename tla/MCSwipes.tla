------------------------------ MODULE MCSwipes ------------------------------
(* Instances of Swipes for TLC. *)
EXTENDS Swipes

TwoUsers == 1 .. 2
ThreeUsers == 1 .. 3
\* A well-formed uuid that no user has.
Stranger == 9
ThreeUsersAndAStranger == ThreeUsers \cup {Stranger}

TwoRequests == 1 .. 2
ThreeRequests == 1 .. 3

(* Requests and users differ in nothing but their name: normalizePair orders *)
(* two users, but only to give a pair one key.  So it is enough to look at    *)
(* one naming of them.  (SYMMETRY would not be sound for liveness.)           *)

\* Requests are numbered in the order they come in.
InTurn == \A q, r \in Requests : q < r /\ pc'[r] # "idle" => pc'[q] # "idle"

\* The first one that begins a transaction is a swipe of user 1 on user 2.
OneOnTwo ==
    \A r \in Requests :
        (req'[r] # Nil /\ \A q \in 1 .. r - 1 : req'[q] = Nil) =>
            req'[r].actor = 1 /\ req'[r].target \in {2, Stranger}

\* Bound: only the last request may be about nobody.
StrangerLast ==
    \A r \in Requests : req'[r] # Nil /\ req'[r].target = Stranger => r + 1 \notin Requests

NamedSpec == Init /\ [][Next /\ InTurn /\ OneOnTwo /\ StrangerLast]_vars /\ Fairness
=============================================================================
