------------------------------ MODULE ChatLog ------------------------------
(***************************************************************************)
(* What chat promises, without requests, calls or failures: a log that     *)
(* members write, events that show a logged message to some sockets of a   *)
(* member, once, signals of one member to the others, which are never      *)
(* logged, and marks that only the other member sets.                      *)
(***************************************************************************)
EXTENDS Sequences

CONSTANTS Users, Conversations, Members, Sockets, Owner, Messages, Signals

VARIABLES
    log,    \* the messages, with their conversation and sender
    read,   \* ids of the messages the other member has read
    shown   \* shown[s]: the messages and signals shown on s, in order

Init ==
    /\ log = {}
    /\ read = {}
    /\ shown = [s \in Sockets |-> <<>>]

Store(m, k, u) ==
    /\ \A e \in log : e.id # m
    /\ u \in Members[k]
    /\ log' = log \cup {[id |-> m, conv |-> k, sender |-> u]}
    /\ UNCHANGED <<read, shown>>

\* On sockets of u, and on none of them twice.
ShowOnce(id, u) ==
    /\ \E reached \in SUBSET {s \in Sockets : Owner[s] = u} :
          /\ \A s \in reached : \A i \in DOMAIN shown[s] : shown[s][i] # id
          /\ shown' = [s \in Sockets |->
                          IF s \in reached THEN Append(shown[s], id) ELSE shown[s]]
    /\ UNCHANGED <<log, read>>

Show(e, u) == u \in Members[e.conv] /\ ShowOnce(e.id, u)

Signal(t, k, u) ==
    /\ u \in Members[k]
    /\ \E v \in Members[k] \ {u} : ShowOnce(t, v)

Read(k, u) ==
    /\ u \in Members[k]
    /\ read' = read \cup {e.id : e \in {f \in log : f.conv = k /\ f.sender # u}}
    /\ UNCHANGED <<log, shown>>

Next ==
    \/ \E m \in Messages, k \in Conversations, u \in Users : Store(m, k, u)
    \/ \E e \in log, u \in Users : Show(e, u)
    \/ \E t \in Signals, k \in Conversations, u \in Users : Signal(t, k, u)
    \/ \E k \in Conversations, u \in Users : Read(k, u)

Spec == Init /\ [][Next]_<<log, read, shown>>
=============================================================================
