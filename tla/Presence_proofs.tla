-------------------------- MODULE Presence_proofs --------------------------
(***************************************************************************)
(* Theorems about Presence, for any number of connections, any periods     *)
(* that satisfy PeriodsAssumption and any number of lost renewals they     *)
(* allow.                                                                  *)
(***************************************************************************)
EXTENDS Presence, TLAPS

\* Timers and the time lost renewals have used up, for one connection.
Elapsed(c) == lost * RenewEvery + (RenewEvery - renewIn[c])

\* The goroutine of a connection runs only while its handler does, and only
\* a handler can have set the key.
GoroutineInv == \A c \in ticking \cup kept : handler[c] # "none"

\* The key has lived no longer than the renewals that failed to renew it.
KeptInv ==
    \A c \in ticking \cap kept : presence >= TTL - Elapsed(c)

\* A key is missing no longer than the renewals that failed to restore it.
AbsentInv ==
    \A c \in Conns : IF c \in ticking THEN absent[c] <= Elapsed(c) ELSE absent[c] = 0

\* Each connection's deadline measures the silence from above, and key and
\* silence together never exceed what GhostFades allows.
SilenceInv ==
    /\ Served # {} => silent = 0
    /\ \A c \in Conns : handler[c] = "reading" => readIn[c] + silent <= PongWait
    /\ \A c \in Conns : handler[c] # "none" => silent <= PongWait
    /\ presence + silent <= Forgotten

IInv ==
    /\ TypeOK
    /\ GoroutineInv
    /\ KeptInv
    /\ AbsentInv
    /\ SilenceInv

-----------------------------------------------------------------------------
\* The constants of the source in units of five seconds, and what they add up to.
LEMMA Periods ==
    /\ TTL \in Nat \ {0} /\ RenewEvery \in Nat \ {0} /\ PingEvery \in Nat \ {0}
    /\ PongWait \in Nat \ {0} /\ MaxLost \in Nat
    /\ (MaxLost + 1) * RenewEvery < TTL
    /\ Forgotten \in Nat /\ Forgotten = PongWait + TTL
BY PeriodsAssumption DEF Forgotten

\* Less is the predecessor, at 0 too.
LEMMA LessIsLess ==
    \A n \in Nat : Less(n) \in Nat /\ Less(n) <= n /\ (n > 0 => Less(n) = n - 1)
BY DEF Less

\* One more lost SET uses up one more period.
LEMMA OneMoreLost ==
    ASSUME NEW n \in Nat
    PROVE  n * RenewEvery \in Nat /\ (n + 1) * RenewEvery = n * RenewEvery + RenewEvery
BY Periods

\* A product with a period grows with the number of lost calls.
LEMMA MonotoneLost ==
    ASSUME NEW n \in Nat, NEW m \in Nat, n <= m
    PROVE  n * RenewEvery <= m * RenewEvery
BY Periods

\* What the timers can have used up is less than the life of a key.
LEMMA ElapsedBound ==
    ASSUME TypeOK, NEW c \in Conns
    PROVE  Elapsed(c) \in Nat /\ Elapsed(c) <= (MaxLost + 1) * RenewEvery
<1>1. lost \in Nat /\ lost <= MaxLost /\ renewIn[c] \in 0 .. RenewEvery
    BY Periods DEF TypeOK
<1>2. lost * RenewEvery \in Nat /\ lost * RenewEvery <= MaxLost * RenewEvery
    BY <1>1, Periods, OneMoreLost, MonotoneLost
<1>3. (MaxLost + 1) * RenewEvery = MaxLost * RenewEvery + RenewEvery /\ MaxLost * RenewEvery \in Nat
    BY Periods, OneMoreLost
<1>4. QED
    BY <1>1, <1>2, <1>3, Periods DEF Elapsed

-----------------------------------------------------------------------------
(* The invariant is inductive.                                             *)

\* No step leaves the types.
LEMMA TypeOKNext == TypeOK /\ [Next]_vars => TypeOK'
<1> SUFFICES ASSUME TypeOK, [Next]_vars
             PROVE  TypeOK'
    OBVIOUS
<1> USE Periods, LessIsLess DEF TypeOK
<1>1. ASSUME NEW c \in Conns, Connect(c)
      PROVE  TypeOK'
    <2>1. CASE SetSucceeds(c)
        BY <1>1, <2>1 DEF Connect, SetSucceeds
    <2>2. CASE SetIsLost
        BY <1>1, <2>2 DEF Connect, SetIsLost
    <2>3. QED
        BY <1>1, <2>1, <2>2 DEF Connect, SetPresence
<1>2. ASSUME NEW c \in Conns, Renew(c)
      PROVE  TypeOK'
    <2>1. CASE SetSucceeds(c)
        BY <1>2, <2>1 DEF Renew, SetSucceeds
    <2>2. CASE SetIsLost
        BY <1>2, <2>2 DEF Renew, SetIsLost
    <2>3. QED
        BY <1>2, <2>1, <2>2 DEF Renew, SetPresence
<1>3. ASSUME NEW c \in Conns, Ping(c)
      PROVE  TypeOK'
    BY <1>3 DEF Ping, history
<1>4. ASSUME NEW c \in Conns, WriteFails(c)
      PROVE  TypeOK'
    BY <1>4 DEF WriteFails, timers
<1>5. ASSUME NEW c \in Conns, PeerVanishes(c)
      PROVE  TypeOK'
    BY <1>5 DEF PeerVanishes, timers, history
<1>6. ASSUME NEW c \in Conns, ReadFails(c)
      PROVE  TypeOK'
    BY <1>6 DEF ReadFails, timers, history
<1>7. ASSUME NEW c \in Conns, Del(c)
      PROVE  TypeOK'
    <2>1. CASE DelSucceeds
        BY <1>7, <2>1 DEF Del, DelSucceeds, timers
    <2>2. CASE UNCHANGED <<presence, kept>>
        BY <1>7, <2>2 DEF Del, timers
    <2>3. QED
        BY <1>7, <2>1, <2>2 DEF Del, DelPresence
<1>8. ASSUME NEW c \in Conns, Cancel(c)
      PROVE  TypeOK'
    BY <1>8 DEF Cancel, timers
<1>9. CASE Stop
    BY <1>9 DEF Stop, timers
<1>10. CASE Tick
    BY <1>10 DEF Tick, Due
<1>11. CASE UNCHANGED vars
    BY <1>11 DEF vars, timers, history
<1>12. QED
    BY <1>1, <1>2, <1>3, <1>4, <1>5, <1>6, <1>7, <1>8, <1>9, <1>10, <1>11 DEF
       Next, Handler

\* No step breaks GoroutineInv.
LEMMA GoroutineInvNext == TypeOK /\ GoroutineInv /\ [Next]_vars => GoroutineInv'
<1> SUFFICES ASSUME TypeOK, GoroutineInv, [Next]_vars
             PROVE  GoroutineInv'
    OBVIOUS
<1> USE DEF TypeOK, GoroutineInv
<1>1. ASSUME NEW c \in Conns, Connect(c)
      PROVE  GoroutineInv'
    <2>1. CASE SetSucceeds(c)
        BY <1>1, <2>1 DEF Connect, SetSucceeds
    <2>2. CASE SetIsLost
        BY <1>1, <2>2 DEF Connect, SetIsLost
    <2>3. QED
        BY <1>1, <2>1, <2>2 DEF Connect, SetPresence
<1>2. ASSUME NEW c \in Conns, Renew(c)
      PROVE  GoroutineInv'
    <2>1. CASE SetSucceeds(c)
        BY <1>2, <2>1 DEF Renew, SetSucceeds
    <2>2. CASE SetIsLost
        BY <1>2, <2>2 DEF Renew, SetIsLost
    <2>3. QED
        BY <1>2, <2>1, <2>2 DEF Renew, SetPresence
<1>3. ASSUME NEW c \in Conns, Ping(c)
      PROVE  GoroutineInv'
    BY <1>3 DEF Ping, history
<1>4. ASSUME NEW c \in Conns, WriteFails(c)
      PROVE  GoroutineInv'
    BY <1>4 DEF WriteFails
<1>5. ASSUME NEW c \in Conns, PeerVanishes(c)
      PROVE  GoroutineInv'
    BY <1>5 DEF PeerVanishes, history
<1>6. ASSUME NEW c \in Conns, ReadFails(c)
      PROVE  GoroutineInv'
    BY <1>6 DEF ReadFails, history
<1>7. ASSUME NEW c \in Conns, Del(c)
      PROVE  GoroutineInv'
    <2>1. CASE DelSucceeds
        BY <1>7, <2>1 DEF Del, DelSucceeds
    <2>2. CASE UNCHANGED <<presence, kept>>
        BY <1>7, <2>2 DEF Del
    <2>3. QED
        BY <1>7, <2>1, <2>2 DEF Del, DelPresence
<1>8. ASSUME NEW c \in Conns, Cancel(c)
      PROVE  GoroutineInv'
    BY <1>8 DEF Cancel
<1>9. CASE Stop
    BY <1>9 DEF Stop
<1>10. CASE Tick
    BY <1>10 DEF Tick, Due
<1>11. CASE UNCHANGED vars
    BY <1>11 DEF vars, history
<1>12. QED
    BY <1>1, <1>2, <1>3, <1>4, <1>5, <1>6, <1>7, <1>8, <1>9, <1>10, <1>11 DEF
       Next, Handler

\* No step breaks KeptInv.
LEMMA KeptInvNext ==
    TypeOK /\ TypeOK' /\ GoroutineInv /\ KeptInv /\ [Next]_vars => KeptInv'
<1> SUFFICES ASSUME TypeOK, TypeOK', GoroutineInv, KeptInv, [Next]_vars
             PROVE  KeptInv'
    OBVIOUS
<1>0. lost \in Nat /\ lost * RenewEvery \in Nat /\ 0 * RenewEvery = 0
      /\ (lost + 1) * RenewEvery = lost * RenewEvery + RenewEvery
    BY OneMoreLost, Periods DEF TypeOK
<1> USE <1>0, Periods, LessIsLess DEF TypeOK, GoroutineInv, KeptInv, Elapsed
<1>1. ASSUME NEW c \in Conns, Connect(c)
      PROVE  KeptInv'
    <2>1. CASE SetSucceeds(c)
        BY <1>1, <2>1 DEF Connect, SetSucceeds
    <2>2. CASE SetIsLost
        BY <1>1, <2>2 DEF Connect, SetIsLost
    <2>3. QED
        BY <1>1, <2>1, <2>2 DEF Connect, SetPresence
<1>2. ASSUME NEW c \in Conns, Renew(c)
      PROVE  KeptInv'
    <2>1. CASE SetSucceeds(c)
        BY <1>2, <2>1 DEF Renew, SetSucceeds
    <2>2. CASE SetIsLost
        BY <1>2, <2>2 DEF Renew, SetIsLost
    <2>3. QED
        BY <1>2, <2>1, <2>2 DEF Renew, SetPresence
<1>3. ASSUME NEW c \in Conns, Ping(c)
      PROVE  KeptInv'
    BY <1>3 DEF Ping, history
<1>4. ASSUME NEW c \in Conns, WriteFails(c)
      PROVE  KeptInv'
    BY <1>4 DEF WriteFails, timers
<1>5. ASSUME NEW c \in Conns, PeerVanishes(c)
      PROVE  KeptInv'
    BY <1>5 DEF PeerVanishes, timers, history
<1>6. ASSUME NEW c \in Conns, ReadFails(c)
      PROVE  KeptInv'
    BY <1>6 DEF ReadFails, timers, history
<1>7. ASSUME NEW c \in Conns, Del(c)
      PROVE  KeptInv'
    <2>1. CASE DelSucceeds
        BY <1>7, <2>1 DEF Del, DelSucceeds, timers
    <2>2. CASE UNCHANGED <<presence, kept>>
        BY <1>7, <2>2 DEF Del, timers
    <2>3. QED
        BY <1>7, <2>1, <2>2 DEF Del, DelPresence
<1>8. ASSUME NEW c \in Conns, Cancel(c)
      PROVE  KeptInv'
    BY <1>8 DEF Cancel, timers
<1>9. CASE Stop
    BY <1>9 DEF Stop, timers
<1>10. CASE Tick
    BY <1>10 DEF Tick, Due
<1>11. CASE UNCHANGED vars
    BY <1>11 DEF vars, timers, history
<1>12. QED
    BY <1>1, <1>2, <1>3, <1>4, <1>5, <1>6, <1>7, <1>8, <1>9, <1>10, <1>11 DEF
       Next, Handler

\* No step breaks AbsentInv.
LEMMA AbsentInvNext == TypeOK /\ TypeOK' /\ AbsentInv /\ [Next]_vars => AbsentInv'
<1> SUFFICES ASSUME TypeOK, TypeOK', AbsentInv, [Next]_vars
             PROVE  AbsentInv'
    OBVIOUS
<1>0. lost \in Nat /\ lost * RenewEvery \in Nat /\ 0 * RenewEvery = 0
      /\ (lost + 1) * RenewEvery = lost * RenewEvery + RenewEvery
    BY OneMoreLost, Periods DEF TypeOK
<1> USE <1>0, Periods, LessIsLess DEF TypeOK, AbsentInv, Elapsed
<1>1. ASSUME NEW c \in Conns, Connect(c)
      PROVE  AbsentInv'
    <2>1. CASE SetSucceeds(c)
        BY <1>1, <2>1 DEF Connect, SetSucceeds
    <2>2. CASE SetIsLost
        BY <1>1, <2>2 DEF Connect, SetIsLost
    <2>3. QED
        BY <1>1, <2>1, <2>2 DEF Connect, SetPresence
<1>2. ASSUME NEW c \in Conns, Renew(c)
      PROVE  AbsentInv'
    <2>1. CASE SetSucceeds(c)
        BY <1>2, <2>1 DEF Renew, SetSucceeds
    <2>2. CASE SetIsLost
        BY <1>2, <2>2 DEF Renew, SetIsLost
    <2>3. QED
        BY <1>2, <2>1, <2>2 DEF Renew, SetPresence
<1>3. ASSUME NEW c \in Conns, Ping(c)
      PROVE  AbsentInv'
    BY <1>3 DEF Ping, history
<1>4. ASSUME NEW c \in Conns, WriteFails(c)
      PROVE  AbsentInv'
    BY <1>4 DEF WriteFails, timers
<1>5. ASSUME NEW c \in Conns, PeerVanishes(c)
      PROVE  AbsentInv'
    BY <1>5 DEF PeerVanishes, timers, history
<1>6. ASSUME NEW c \in Conns, ReadFails(c)
      PROVE  AbsentInv'
    BY <1>6 DEF ReadFails, timers, history
<1>7. ASSUME NEW c \in Conns, Del(c)
      PROVE  AbsentInv'
    <2>1. CASE DelSucceeds
        BY <1>7, <2>1 DEF Del, DelSucceeds, timers
    <2>2. CASE UNCHANGED <<presence, kept>>
        BY <1>7, <2>2 DEF Del, timers
    <2>3. QED
        BY <1>7, <2>1, <2>2 DEF Del, DelPresence
<1>8. ASSUME NEW c \in Conns, Cancel(c)
      PROVE  AbsentInv'
    BY <1>8 DEF Cancel, timers
<1>9. CASE Stop
    BY <1>9 DEF Stop, timers
<1>10. CASE Tick
    BY <1>10 DEF Tick, Due
<1>11. CASE UNCHANGED vars
    BY <1>11 DEF vars, timers, history
<1>12. QED
    BY <1>1, <1>2, <1>3, <1>4, <1>5, <1>6, <1>7, <1>8, <1>9, <1>10, <1>11 DEF
       Next, Handler

\* No step breaks SilenceInv.
LEMMA SilenceInvNext ==
    TypeOK /\ TypeOK' /\ GoroutineInv /\ SilenceInv
    /\ [Next]_vars => SilenceInv'
<1> SUFFICES ASSUME TypeOK, TypeOK', GoroutineInv, SilenceInv, [Next]_vars
             PROVE  SilenceInv'
    OBVIOUS
<1> USE Periods, LessIsLess DEF TypeOK, GoroutineInv, SilenceInv, Served
<1>1. ASSUME NEW c \in Conns, Connect(c)
      PROVE  SilenceInv'
    <2>1. CASE SetSucceeds(c)
        BY <1>1, <2>1 DEF Connect, SetSucceeds
    <2>2. CASE SetIsLost
        BY <1>1, <2>2 DEF Connect, SetIsLost
    <2>3. QED
        BY <1>1, <2>1, <2>2 DEF Connect, SetPresence
<1>2. ASSUME NEW c \in Conns, Renew(c)
      PROVE  SilenceInv'
    <2>1. CASE SetSucceeds(c)
        BY <1>2, <2>1 DEF Renew, SetSucceeds
    <2>2. CASE SetIsLost
        BY <1>2, <2>2 DEF Renew, SetIsLost
    <2>3. QED
        BY <1>2, <2>1, <2>2 DEF Renew, SetPresence
<1>3. ASSUME NEW c \in Conns, Ping(c)
      PROVE  SilenceInv'
    BY <1>3 DEF Ping, history
<1>4. ASSUME NEW c \in Conns, WriteFails(c)
      PROVE  SilenceInv'
    BY <1>4 DEF WriteFails, timers
<1>5. ASSUME NEW c \in Conns, PeerVanishes(c)
      PROVE  SilenceInv'
    BY <1>5 DEF PeerVanishes, timers, history
<1>6. ASSUME NEW c \in Conns, ReadFails(c)
      PROVE  SilenceInv'
    BY <1>6 DEF ReadFails, timers, history
<1>7. ASSUME NEW c \in Conns, Del(c)
      PROVE  SilenceInv'
    <2>1. CASE DelSucceeds
        BY <1>7, <2>1 DEF Del, DelSucceeds, timers
    <2>2. CASE UNCHANGED <<presence, kept>>
        BY <1>7, <2>2 DEF Del, timers
    <2>3. QED
        BY <1>7, <2>1, <2>2 DEF Del, DelPresence
<1>8. ASSUME NEW c \in Conns, Cancel(c)
      PROVE  SilenceInv'
    BY <1>8 DEF Cancel, timers
<1>9. CASE Stop
    BY <1>9 DEF Stop, timers
<1>10. CASE Tick
    BY <1>10 DEF Tick, Due
<1>11. CASE UNCHANGED vars
    BY <1>11 DEF vars, timers, history
<1>12. QED
    BY <1>1, <1>2, <1>3, <1>4, <1>5, <1>6, <1>7, <1>8, <1>9, <1>10, <1>11 DEF
       Next, Handler

\* The invariant holds initially.
LEMMA IInvInit == Init => IInv
<1> SUFFICES ASSUME Init
             PROVE  IInv
    OBVIOUS
<1>1. TypeOK
    BY Periods DEF Init, TypeOK
<1>2. GoroutineInv /\ KeptInv /\ AbsentInv
    BY DEF Init, GoroutineInv, KeptInv, AbsentInv
<1>3. SilenceInv
    BY Periods DEF Init, SilenceInv, Served
<1>4. QED
    BY <1>1, <1>2, <1>3 DEF IInv

\* The inductive invariant holds in every state.
LEMMA Invariance == Spec => []IInv
<1>1. IInv /\ [Next]_vars => IInv'
    BY TypeOKNext, GoroutineInvNext, KeptInvNext, AbsentInvNext, SilenceInvNext
       DEF IInv
<1>2. QED
    BY <1>1, IInvInit, PTL DEF Spec

-----------------------------------------------------------------------------
(* The properties.                                                         *)

\* Presence is typed for any number of connections: every timer stays within
\* the period the code sets it to, and no more renewals are lost than MaxLost.
THEOREM TypeCorrect == Spec => []TypeOK
<1>1. IInv => TypeOK
    BY DEF IInv
<1>2. QED
    BY <1>1, Invariance, PTL

\* As long as fewer renewals are lost in a row than a key's life can bear, an
\* open connection keeps its user online until someone deletes the key.
THEOREM KeyOutlivesLostRenewals == Spec => []StaysOnline
<1>1. IInv => StaysOnline
    <2> SUFFICES ASSUME IInv, NEW c \in ticking \cap kept
                 PROVE  presence > 0
        BY DEF StaysOnline
    <2>1. c \in Conns /\ presence \in Nat /\ presence >= TTL - Elapsed(c)
        BY Periods DEF IInv, TypeOK, KeptInv
    <2>2. Elapsed(c) \in Nat /\ Elapsed(c) <= (MaxLost + 1) * RenewEvery
        BY <2>1, ElapsedBound DEF IInv
    <2>3. QED
        BY <2>1, <2>2, Periods
<1>2. QED
    BY <1>1, Invariance, PTL

\* A key deleted under an open connection comes back in bounded time.
THEOREM RenewalsHeal == Spec => []HealsByRenewal
<1>1. IInv => HealsByRenewal
    <2> SUFFICES ASSUME IInv, NEW c \in Conns
                 PROVE  absent[c] <= (MaxLost + 1) * RenewEvery
        BY DEF HealsByRenewal
    <2>1. absent[c] \in Nat /\ (absent[c] <= Elapsed(c) \/ absent[c] = 0)
        BY DEF IInv, TypeOK, AbsentInv
    <2>2. Elapsed(c) \in Nat /\ Elapsed(c) <= (MaxLost + 1) * RenewEvery
        BY ElapsedBound DEF IInv
    <2>3. (MaxLost + 1) * RenewEvery \in Nat
        BY Periods, OneMoreLost
    <2>4. QED
        BY <2>1, <2>2, <2>3
<1>2. QED
    BY <1>1, Invariance, PTL

\* A user nobody is connected for stops being online in bounded time, even
\* if the process crashed or the deletion of the key was lost or overtaken.
THEOREM GhostsFade == Spec => []GhostFades
<1>1. IInv => GhostFades
    BY Periods DEF IInv, TypeOK, SilenceInv, GhostFades
<1>2. QED
    BY <1>1, Invariance, PTL
-----------------------------------------------------------------------------
(* One connection at a time.                                               *)

\* No two handlers of the user overlap, deferred calls included, and no SET fails.
OneByOne == lost = 0 /\ \A c, d \in Running : c = d

TabInv == \A c \in ticking : handler[c] = "reading" => c \in kept

LEMMA TabInvNext ==
    TypeOK /\ GoroutineInv /\ TabInv /\ OneByOne /\ OneByOne' /\ [Next]_vars => TabInv'
<1> SUFFICES ASSUME TypeOK, GoroutineInv, TabInv, OneByOne, OneByOne', [Next]_vars
             PROVE  TabInv'
    OBVIOUS
<1> USE DEF TypeOK, TabInv
<1>1. ~ SetIsLost
    BY DEF SetIsLost, OneByOne
<1>2. ASSUME NEW c \in Conns, Connect(c)
      PROVE  TabInv'
    BY <1>1, <1>2 DEF Connect, SetPresence, SetSucceeds
<1>3. ASSUME NEW c \in Conns, Renew(c)
      PROVE  TabInv'
    BY <1>1, <1>3 DEF Renew, SetPresence, SetSucceeds
<1>4. ASSUME NEW c \in Conns, Ping(c)
      PROVE  TabInv'
    BY <1>4 DEF Ping, history
<1>5. ASSUME NEW c \in Conns, WriteFails(c) \/ PeerVanishes(c) \/ ReadFails(c)
      PROVE  TabInv'
    BY <1>5 DEF WriteFails, PeerVanishes, ReadFails, history
\* The key a handler deletes is its own: nobody else has one.
<1>6. ASSUME NEW c \in Conns, Del(c)
      PROVE  TabInv'
    <2>1. \A d \in ticking : d = c
        BY <1>6 DEF Del, OneByOne, Running, GoroutineInv
    <2>2. handler'[c] = "deleted" /\ ticking' = ticking
        BY <1>6 DEF Del
    <2>3. QED
        BY <2>1, <2>2
<1>7. ASSUME NEW c \in Conns, Cancel(c)
      PROVE  TabInv'
    BY <1>7 DEF Cancel
<1>8. CASE Stop \/ Tick \/ UNCHANGED vars
    BY <1>8 DEF Stop, Tick, vars, history
<1>9. QED
    BY <1>2, <1>3, <1>4, <1>5, <1>6, <1>7, <1>8 DEF Next, Handler

\* What the documentation says of `online` is true of a user whose connections
\* do not overlap, while Redis answers: two tabs, a reconnection faster than the
\* deferred calls of the old handler and lost SETs are all that refutes it.
THEOREM OnlineOneByOne == Spec /\ []OneByOne => []OnlineWhileConnected
<1>1. Init => TabInv
    BY DEF Init, TabInv
<1>2. IInv /\ TabInv /\ OneByOne /\ OneByOne' /\ [Next]_vars => TabInv'
    BY TabInvNext DEF IInv
<1>3. TabInv /\ StaysOnline => OnlineWhileConnected
    BY DEF TabInv, StaysOnline, OnlineWhileConnected, Served
<1>4. QED
    BY <1>1, <1>2, <1>3, Invariance, KeyOutlivesLostRenewals, PTL DEF Spec
=============================================================================
