------------------------------- MODULE MCChat -------------------------------
(* Small instances of Chat for TLC: one or two rooms of two, an outsider.   *)
EXTENDS Chat, TLC

CONSTANTS ana, bia, caio, room, a1, b1

People == {ana, bia, caio}
Pair == [k \in Conversations |-> {ana, bia}]
SocketOwners == [s \in Sockets |-> IF s = a1 THEN ana ELSE bia]
Symmetric == Permutations(Posts) \cup Permutations(Gets)
\* Without sockets nothing tells the two members apart.
SymmetricMembers == Symmetric \cup Permutations({ana, bia})
=============================================================================
