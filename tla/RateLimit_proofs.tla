--------------------------- MODULE RateLimit_proofs ---------------------------
(***************************************************************************)
(* The bound of RateLimit and its converse, for every number of keys and   *)
(* requests, every burst and every period.                                 *)
(***************************************************************************)
EXTENDS RateLimit, FiniteSetTheorems, TLAPS

-----------------------------------------------------------------------------
(* The inductive invariant.                                                *)

\* One limiter per key and epoch: the map leads every request of the running
\* process to the same one, and a limiter serves the requests of its key only.
LookupInv ==
    /\ \A r \in Requests : pc[r] = "idle" => held[r] = None /\ verdict[r] = "none"
    /\ \A r \in Requests : pc[r] # "idle" =>
          /\ key[r] \in Keys /\ born[r] <= epoch
          /\ held[r] \in Requests /\ held[held[r]] = held[r]
          /\ key[held[r]] = key[r] /\ born[held[r]] = born[r]
    /\ \A r \in Requests : pc[r] \in {"now", "decide"} => born[r] = epoch /\ verdict[r] = "none"
    /\ \A r \in Requests : pc[r] # "idle" /\ born[r] = epoch => limiters[key[r]] = held[r]
    /\ \A k \in Keys : limiters[k] # None =>
          LET l == limiters[k] IN held[l] = l /\ key[l] = k /\ born[l] = epoch

\* A limiter nobody made yet is full.
FreshInv ==
    \A l \in Requests : pc[l] = "idle" => last[l] = 0 /\ tokens[l] = Full /\ rewound[l] = 0

\* What a window took and what the bucket still holds were there at its start
\* or came since.
DrainedInv ==
    \A l \in Requests : held[l] = l => \A t, u \in Time :
        Allowed(l, t, u) # {} =>
            Cardinality(Allowed(l, t, u)) * Period + tokens[l] + t <= Full + last[l] + rewound[l]

\* The bound, for each limiter.
BoundInv ==
    \A l \in Requests : held[l] = l => \A t, u \in Time :
        t <= u => Cardinality(Allowed(l, t, u)) * Period <= Full + (u - t) + rewound[l]

\* What the bucket lacks was taken since it was last full.
SpentInv ==
    \A l \in Requests : held[l] = l => \E t \in 0 .. last[l] :
        Cardinality(Allowed(l, t, MaxTime)) * Period + tokens[l] + t >= Full + last[l]

IInv ==
    /\ TypeOK /\ LookupInv /\ FreshInv
    /\ DrainedInv /\ BoundInv /\ SpentInv /\ RefusalsJustified

-----------------------------------------------------------------------------
(* Numbers and cardinalities.                                              *)

LEMMA TimesGrows == ASSUME NEW a \in Nat, NEW b \in Nat, NEW p \in Nat, a <= b
                     PROVE  a * p \in Nat /\ b * p \in Nat /\ a * p <= b * p
<1>1. b - a \in Nat /\ b = a + (b - a)
  OBVIOUS
<1>2. \A d \in Nat : (a + d) * p = a * p + d * p /\ a * p \in Nat /\ d * p \in Nat
  OBVIOUS
<1>3. b * p = a * p + (b - a) * p /\ a * p \in Nat /\ (b - a) * p \in Nat
  BY <1>1, <1>2
<1> HIDE <1>2
<1> QED BY <1>3

LEMMA FullIsNat == Full \in Nat /\ Full >= Period /\ Period \in Nat \ {0}
<1>1. Burst \in Nat /\ Burst >= 1 /\ Period \in Nat /\ Period >= 1
  BY BucketAssumption
<1>2. 1 * Period <= Burst * Period /\ Burst * Period \in Nat
  BY <1>1, TimesGrows
<1> QED BY <1>1, <1>2 DEF Full

LEMMA AllowedIsFinite ==
    ASSUME NEW r \in Requests, NEW t, NEW u
    PROVE  /\ Allowed(r, t, u) \subseteq Requests
           /\ IsFiniteSet(Allowed(r, t, u))
           /\ Cardinality(Allowed(r, t, u)) \in Nat
           /\ Cardinality(Allowed(r, t, u)) * Period \in Nat
<1>1. Allowed(r, t, u) \subseteq Requests
  BY DEF Allowed
<1>2. IsFiniteSet(Allowed(r, t, u)) /\ Cardinality(Allowed(r, t, u)) \in Nat
  BY <1>1, RequestsAssumption, FS_Subset, FS_CardinalityType
<1>3. Cardinality(Allowed(r, t, u)) * Period \in Nat
  BY <1>2, FullIsNat
<1> QED BY <1>1, <1>2, <1>3

\* Windows with an earlier start hold no fewer.
LEMMA MoreAllowed ==
    ASSUME NEW S, NEW T, IsFiniteSet(T), S \subseteq T
    PROVE  Cardinality(S) \in Nat /\ Cardinality(T) \in Nat
           /\ Cardinality(S) * Period <= Cardinality(T) * Period
<1>1. IsFiniteSet(S) /\ Cardinality(S) <= Cardinality(T)
  BY FS_Subset
<1>2. Cardinality(S) \in Nat /\ Cardinality(T) \in Nat
  BY <1>1, FS_CardinalityType
<1>3. Cardinality(S) * Period <= Cardinality(T) * Period
  BY <1>1, <1>2, FullIsNat, TimesGrows
<1> QED BY <1>2, <1>3

LEMMA OneMore ==
    ASSUME NEW S, NEW r, IsFiniteSet(S), r \notin S
    PROVE  /\ Cardinality(S) \in Nat /\ Cardinality(S) * Period \in Nat
           /\ Cardinality(S \cup {r}) = Cardinality(S) + 1
           /\ Cardinality(S \cup {r}) * Period = Cardinality(S) * Period + Period
<1>1. Cardinality(S) \in Nat /\ Cardinality(S \cup {r}) = Cardinality(S) + 1
  BY FS_AddElement, FS_CardinalityType
<1>2. (Cardinality(S) + 1) * Period = Cardinality(S) * Period + Period
      /\ Cardinality(S) * Period \in Nat
  BY <1>1, FullIsNat
<1> QED BY <1>1, <1>2

LEMMA NoneAllowed == Cardinality({}) = 0 /\ Cardinality({}) * Period = 0
<1>1. Cardinality({}) = 0
  BY FS_EmptySet
<1>2. 0 * Period = 0
  BY FullIsNat
<1> QED BY <1>1, <1>2

\* A step that allows nobody and leaves decided requests alone.
LEMMA SameAllowed ==
    ASSUME NEW r \in Requests, NEW t, NEW u,
           key'[r] = key[r], born'[r] = born[r],
           \A q \in Requests :
              /\ verdict'[q] = "allowed" <=> verdict[q] = "allowed"
              /\ verdict[q] = "allowed" =>
                    key'[q] = key[q] /\ born'[q] = born[q] /\ at'[q] = at[q]
    PROVE  Allowed(r, t, u)' = Allowed(r, t, u)
BY DEF Allowed

-----------------------------------------------------------------------------
(* The initial states.                                                     *)

LEMMA NobodyAllowed ==
    ASSUME NEW r, NEW t, NEW u, \A q \in Requests : verdict[q] = "none"
    PROVE  Allowed(r, t, u) = {}
BY DEF Allowed

LEMMA InitIInv == Init => IInv
<1> SUFFICES ASSUME Init PROVE IInv
  OBVIOUS
<1> USE NoneAssumption, FullIsNat
<1>1. TypeOK
  BY BoundAssumption DEF Init, TypeOK, Time
<1>2. LookupInv /\ FreshInv
  BY DEF Init, LookupInv, FreshInv
<1>3. \A l \in Requests : held[l] # l /\ verdict[l] = "none"
  BY DEF Init
<1>4. DrainedInv /\ BoundInv /\ SpentInv /\ RefusalsJustified
  BY <1>3 DEF DrainedInv, BoundInv, SpentInv, RefusalsJustified
<1> QED BY <1>1, <1>2, <1>4 DEF IInv

-----------------------------------------------------------------------------
(* Types and limiters.                                                     *)

LEMMA RefilledInRange ==
    ASSUME TypeOK, NEW l \in Requests, NEW t \in Time
    PROVE  /\ Refilled(l, t) \in 0 .. Full
           /\ t >= last[l] => Refilled(l, t) <= tokens[l] + (t - last[l])
           /\ t >= last[l] /\ Refilled(l, t) < Full => Refilled(l, t) = tokens[l] + (t - last[l])
           /\ t < last[l] => Refilled(l, t) = tokens[l]
BY FullIsNat, BoundAssumption DEF TypeOK, Time, Refilled

LEMMA TypeStep == TypeOK /\ LookupInv /\ [Next]_vars => TypeOK'
<1> SUFFICES ASSUME TypeOK, LookupInv, [Next]_vars PROVE TypeOK'
  OBVIOUS
<1> USE FullIsNat, NoneAssumption, BoundAssumption DEF TypeOK
<1>1. ASSUME NEW r \in Requests, NEW k \in Keys, Lookup(r, k) PROVE TypeOK'
  BY <1>1 DEF Lookup, Goto, buckets
<1>2. ASSUME NEW r \in Requests, ReadClock(r) PROVE TypeOK'
  BY <1>2 DEF ReadClock, Goto, asked, buckets
<1>3. ASSUME NEW r \in Requests, Allow(r) PROVE TypeOK'
  <2>1. held[r] \in Requests /\ at[r] \in Time /\ last[held[r]] \in Time
    BY <1>3 DEF Allow, LookupInv
  <2>2. Refilled(held[r], at[r]) - Period \in 0 .. Full
    BY <2>1, <1>3, RefilledInRange DEF Allow
  <2>3. tokens' \in [Requests -> 0 .. Full] /\ last' \in [Requests -> Time]
    BY <2>1, <2>2, <1>3 DEF Allow
  <2>4. rewound' \in [Requests -> Nat]
    <3>1. at[r] < last[held[r]] => last[held[r]] - at[r] \in Nat
      BY <2>1 DEF Time
    <3> QED BY <3>1, <2>1, <1>3 DEF Allow
  <2> QED BY <2>3, <2>4, <1>3 DEF Allow, Goto, asked
<1>4. ASSUME NEW r \in Requests, Refuse(r) PROVE TypeOK'
  BY <1>4 DEF Refuse, Goto, asked, buckets
<1>5. CASE Tick
  BY <1>5 DEF Tick, asked, buckets, Time
<1>6. CASE Restart
  BY <1>6 DEF Restart, asked, buckets
<1>7. CASE UNCHANGED vars
  BY <1>7 DEF vars, asked, buckets
<1> QED BY <1>1, <1>2, <1>3, <1>4, <1>5, <1>6, <1>7 DEF Next, Served

LEMMA LookupInvStep == TypeOK /\ LookupInv /\ [Next]_vars => LookupInv'
<1> SUFFICES ASSUME TypeOK, LookupInv, [Next]_vars PROVE LookupInv'
  OBVIOUS
<1> USE NoneAssumption DEF TypeOK
<1>1. ASSUME NEW r \in Requests, NEW k \in Keys, Lookup(r, k) PROVE LookupInv'
  <2> DEFINE l == IF limiters[k] = None THEN r ELSE limiters[k]
  <2>1. /\ pc[r] = "idle" /\ held' = [held EXCEPT ![r] = l]
        /\ limiters' = [limiters EXCEPT ![k] = l]
        /\ key' = [key EXCEPT ![r] = k] /\ born' = [born EXCEPT ![r] = epoch]
        /\ pc' = [pc EXCEPT ![r] = "now"] /\ epoch' = epoch /\ verdict' = verdict
    BY <1>1 DEF Lookup, Goto
  <2>2. l \in Requests
    BY DEF LookupInv
  <2>3. \A q \in Requests : held[q] = r => FALSE
    BY <2>1 DEF LookupInv
  <2>4. l # r => held[l] = l /\ key[l] = k /\ born[l] = epoch /\ limiters[k] = l
    BY <2>2 DEF LookupInv
  <2>5. held'[l] = l /\ key'[l] = k /\ born'[l] = epoch
    BY <2>1, <2>2, <2>4
  <2>6. \A q \in Requests \ {r} : pc[q] # "idle" =>
           held'[q] = held[q] /\ key'[q] = key[q] /\ born'[q] = born[q]
           /\ held[q] # r /\ held[q] \in Requests
    BY <2>1, <2>3 DEF LookupInv
  <2>7. \A q \in Requests : pc'[q] # "idle" =>
          /\ key'[q] \in Keys /\ born'[q] <= epoch'
          /\ held'[q] \in Requests /\ held'[held'[q]] = held'[q]
          /\ key'[held'[q]] = key'[q] /\ born'[held'[q]] = born'[q]
    <3>1. CASE limiters[k] = None
      BY <2>1, <2>5, <2>6, <3>1 DEF LookupInv
    <3>2. CASE limiters[k] # None
      BY <2>1, <2>2, <2>5, <2>6, <3>2 DEF LookupInv
    <3> QED BY <3>1, <3>2
  <2>8. \A q \in Requests : pc'[q] # "idle" /\ born'[q] = epoch' => limiters'[key'[q]] = held'[q]
    <3>1. ASSUME NEW q \in Requests \ {r}, pc[q] # "idle", born[q] = epoch, key[q] = k
          PROVE  limiters[k] # None /\ held[q] = l
      BY <3>1 DEF LookupInv
    <3> QED BY <3>1, <2>1, <2>6 DEF LookupInv
  <2>9. \A j \in Keys : limiters'[j] # None =>
          LET m == limiters'[j] IN held'[m] = m /\ key'[m] = j /\ born'[m] = epoch'
    <3>1. ASSUME NEW j \in Keys \ {k}, limiters[j] # None PROVE limiters[j] # r
      BY <3>1, <2>3 DEF LookupInv
    <3> QED BY <3>1, <2>1, <2>5 DEF LookupInv
  <2>10. \A q \in Requests :
           /\ pc'[q] = "idle" => held'[q] = None /\ verdict'[q] = "none"
           /\ pc'[q] \in {"now", "decide"} => born'[q] = epoch' /\ verdict'[q] = "none"
    BY <2>1 DEF LookupInv
  <2> QED BY <2>7, <2>8, <2>9, <2>10 DEF LookupInv
<1>2. ASSUME NEW r \in Requests, ReadClock(r) PROVE LookupInv'
  BY <1>2 DEF ReadClock, Goto, asked, LookupInv
<1>3. ASSUME NEW r \in Requests, Allow(r) PROVE LookupInv'
  BY <1>3 DEF Allow, Goto, asked, LookupInv
<1>4. ASSUME NEW r \in Requests, Refuse(r) PROVE LookupInv'
  BY <1>4 DEF Refuse, Goto, asked, LookupInv
<1>5. CASE Tick
  BY <1>5 DEF Tick, asked, LookupInv
<1>6. CASE Restart
  BY <1>6 DEF Restart, asked, LookupInv
<1>7. CASE UNCHANGED vars
  BY <1>7 DEF vars, asked, LookupInv
<1> QED BY <1>1, <1>2, <1>3, <1>4, <1>5, <1>6, <1>7 DEF Next, Served

-----------------------------------------------------------------------------
(* Steps that allow nobody.                                                *)

\* The limiters there are keep what was allowed, and a new one begins full.
Quiet ==
    /\ \A q \in Requests :
          /\ verdict'[q] = "allowed" <=> verdict[q] = "allowed"
          /\ pc[q] = "done" => /\ key'[q] = key[q] /\ born'[q] = born[q] /\ at'[q] = at[q]
                               /\ held'[q] = held[q] /\ verdict'[q] = verdict[q]
          /\ pc'[q] = "idle" => pc[q] = "idle"
          /\ pc[q] # "idle" => /\ key'[q] = key[q] /\ born'[q] = born[q] /\ held'[q] = held[q]
          /\ pc[q] = "idle" /\ held'[q] = q =>
                \A p \in Requests : verdict[p] = "allowed" =>
                    ~ (key'[p] = key'[q] /\ born'[p] = born'[q])
    /\ UNCHANGED buckets

LEMMA QuietStep ==
    ASSUME TypeOK, LookupInv, [Next]_vars, \A r \in Requests : ~ Allow(r)
    PROVE  Quiet
<1> USE NoneAssumption DEF TypeOK
<1>1. ASSUME NEW r \in Requests, NEW k \in Keys, Lookup(r, k) PROVE Quiet
  <2>1. /\ pc[r] = "idle" /\ verdict[r] = "none" /\ held[r] = None
        /\ born' = [born EXCEPT ![r] = epoch] /\ key' = [key EXCEPT ![r] = k]
        /\ held' = [held EXCEPT ![r] = IF limiters[k] = None THEN r ELSE limiters[k]]
        /\ pc' = [pc EXCEPT ![r] = "now"]
        /\ UNCHANGED <<at, buckets, verdict>>
    BY <1>1 DEF Lookup, Goto, LookupInv
  <2>2. held'[r] = r => limiters[k] = None
    BY <2>1 DEF LookupInv
  <2>3. ASSUME NEW p \in Requests, verdict[p] = "allowed", held'[r] = r,
               key'[p] = key'[r], born'[p] = born'[r]
        PROVE  FALSE
    <3>1. pc[p] # "idle" /\ key[p] = k /\ born[p] = epoch /\ held[p] \in Requests
      BY <2>1, <2>3 DEF LookupInv
    <3> QED BY <3>1, <2>2, <2>3 DEF LookupInv
  <2>4. \A q \in Requests : pc[q] = "idle" => q = r \/ held'[q] # q
    BY <2>1 DEF LookupInv
  <2> QED BY <2>1, <2>3, <2>4 DEF Quiet
<1>2. \A q \in Requests : pc[q] = "idle" => held[q] # q
  BY DEF LookupInv
<1>3. ASSUME NEW r \in Requests, ReadClock(r) PROVE Quiet
  BY <1>2, <1>3 DEF ReadClock, Goto, asked, Quiet
<1>4. ASSUME NEW r \in Requests, Refuse(r) PROVE Quiet
  BY <1>2, <1>4 DEF Refuse, Goto, asked, Quiet, LookupInv
<1>5. CASE Tick
  BY <1>2, <1>5 DEF Tick, asked, Quiet
<1>6. CASE Restart
  BY <1>2, <1>6 DEF Restart, asked, Quiet
<1>7. CASE UNCHANGED vars
  BY <1>2, <1>7 DEF vars, asked, Quiet
<1> QED BY <1>1, <1>3, <1>4, <1>5, <1>6, <1>7 DEF Next, Served

LEMMA QuietKeeps ==
    ASSUME IInv, Quiet, TypeOK', LookupInv'
    PROVE  FreshInv' /\ DrainedInv' /\ BoundInv' /\ SpentInv'
<1> USE NoneAssumption, BoundAssumption, FullIsNat DEF IInv, TypeOK
<1>1. FreshInv'
  BY DEF FreshInv, Quiet, buckets
<1>2. \A q \in Requests : verdict[q] = "allowed" => pc[q] = "done"
  BY DEF LookupInv
<1>3. ASSUME NEW l \in Requests, held'[l] = l, pc[l] # "idle", NEW t, NEW u
      PROVE  held[l] = l /\ Allowed(l, t, u)' = Allowed(l, t, u)
  BY <1>2, <1>3, SameAllowed DEF Quiet
<1>4. ASSUME NEW l \in Requests, held'[l] = l, pc[l] = "idle", NEW t, NEW u
      PROVE  /\ Allowed(l, t, u)' = {}
             /\ last'[l] = 0 /\ tokens'[l] = Full /\ rewound'[l] = 0
  <2>1. ASSUME NEW q \in Allowed(l, t, u)' PROVE FALSE
    BY <2>1, <1>4 DEF Allowed, Quiet
  <2>2. last'[l] = 0 /\ tokens'[l] = Full /\ rewound'[l] = 0
    BY <1>4 DEF FreshInv, Quiet, buckets
  <2> QED BY <2>1, <2>2
<1>5. DrainedInv'
  <2> SUFFICES ASSUME NEW l \in Requests, held'[l] = l, NEW t \in Time, NEW u \in Time,
                      Allowed(l, t, u)' # {}
               PROVE  Cardinality(Allowed(l, t, u)') * Period + tokens'[l] + t
                         <= Full + last'[l] + rewound'[l]
    BY DEF DrainedInv
  <2>1. pc[l] # "idle" /\ Allowed(l, t, u)' = Allowed(l, t, u) /\ held[l] = l
    BY <1>3, <1>4
  <2> QED BY <2>1 DEF DrainedInv, Quiet, buckets
<1>6. BoundInv'
  <2> SUFFICES ASSUME NEW l \in Requests, held'[l] = l, NEW t \in Time, NEW u \in Time, t <= u
               PROVE  Cardinality(Allowed(l, t, u)') * Period <= Full + (u - t) + rewound'[l]
    BY DEF BoundInv
  <2>1. CASE pc[l] = "idle"
    <3>1. Cardinality(Allowed(l, t, u)') * Period = 0 /\ rewound'[l] = 0
      BY <1>4, <2>1, NoneAllowed
    <3> QED BY <3>1 DEF Time
  <2>2. CASE pc[l] # "idle"
    <3>1. Allowed(l, t, u)' = Allowed(l, t, u) /\ held[l] = l
      BY <1>3, <2>2
    <3> QED BY <3>1 DEF BoundInv, Quiet, buckets
  <2> QED BY <2>1, <2>2
<1>7. SpentInv'
  <2> SUFFICES ASSUME NEW l \in Requests, held'[l] = l
               PROVE  \E t \in 0 .. last'[l] :
                         Cardinality(Allowed(l, t, MaxTime)') * Period + tokens'[l] + t
                            >= Full + last'[l]
    BY DEF SpentInv
  <2>1. CASE pc[l] = "idle"
    <3>1. Cardinality(Allowed(l, 0, MaxTime)') * Period = 0 /\ last'[l] = 0 /\ tokens'[l] = Full
      BY <1>4, <2>1, NoneAllowed
    <3> QED BY <3>1
  <2>2. CASE pc[l] # "idle"
    <3>1. held[l] = l /\ \A t : Allowed(l, t, MaxTime)' = Allowed(l, t, MaxTime)
      BY <1>3, <2>2
    <3>2. PICK t \in 0 .. last[l] :
             Cardinality(Allowed(l, t, MaxTime)) * Period + tokens[l] + t >= Full + last[l]
      BY <3>1 DEF SpentInv
    <3> QED BY <3>1, <3>2 DEF Quiet, buckets
  <2> QED BY <2>1, <2>2
<1> QED BY <1>1, <1>5, <1>6, <1>7

-----------------------------------------------------------------------------
(* Refusals.                                                               *)

\* What was allowed stays allowed, so that a refusal stays justified.
LEMMA AllowedGrows ==
    ASSUME TypeOK, TypeOK', NEW r \in Requests, key'[r] = key[r], born'[r] = born[r],
           \A q \in Requests : verdict[q] = "allowed" =>
              verdict'[q] = "allowed" /\ key'[q] = key[q] /\ born'[q] = born[q] /\ at'[q] = at[q],
           NEW t, NEW u
    PROVE  Cardinality(Allowed(r, t, u)') * Period >= Cardinality(Allowed(r, t, u)) * Period
           /\ Cardinality(Allowed(r, t, u)') \in Nat /\ Cardinality(Allowed(r, t, u)) \in Nat
<1>1. Allowed(r, t, u) \subseteq Allowed(r, t, u)' /\ Allowed(r, t, u)' \subseteq Requests
  BY DEF Allowed
<1>2. IsFiniteSet(Allowed(r, t, u)')
  BY <1>1, RequestsAssumption, FS_Subset
<1> HIDE DEF Allowed
<1> QED BY <1>1, <1>2, MoreAllowed

LEMMA SumOfOneMore ==
    ASSUME NEW n \in Nat PROVE (n + 1) * Period = n * Period + Period /\ n * Period \in Nat
BY FullIsNat

\* A bucket with less than a token was emptied since it was last full.
LEMMA RefuseStep ==
    ASSUME IInv, NEW r \in Requests, Refuse(r)
    PROVE  \E t \in 0 .. at[r] :
              (Cardinality(Allowed(r, t, MaxTime)) + 1) * Period > Full + (at[r] - t)
<1> USE BoundAssumption, FullIsNat DEF IInv
<1> DEFINE l == held[r]
           n(t) == Cardinality(Allowed(r, t, MaxTime))
<1>1. /\ l \in Requests /\ held[l] = l /\ key[l] = key[r] /\ born[l] = born[r]
      /\ Refilled(l, at[r]) < Period /\ at[r] \in Time
  BY DEF Refuse, LookupInv, TypeOK
<1>2. \A t : Allowed(l, t, MaxTime) = Allowed(r, t, MaxTime)
  BY <1>1 DEF Allowed
<1>3. last[l] \in Nat /\ tokens[l] \in Nat /\ at[r] \in Nat
  BY <1>1 DEF TypeOK, Time
<1>4. PICK t \in 0 .. last[l] : n(t) * Period + tokens[l] + t >= Full + last[l]
  <2>1. \E t \in 0 .. last[l] :
            Cardinality(Allowed(l, t, MaxTime)) * Period + tokens[l] + t >= Full + last[l]
    BY <1>1 DEF SpentInv
  <2> QED BY <2>1, <1>2
<1>5. \A s : n(s) \in Nat
  BY AllowedIsFinite
<1>6. \A s : (n(s) + 1) * Period = n(s) * Period + Period /\ n(s) * Period \in Nat
  BY <1>5, SumOfOneMore
<1> HIDE DEF n
<1>7. CASE at[r] >= last[l]
  <2>1. Refilled(l, at[r]) = tokens[l] + (at[r] - last[l])
    BY <1>1, <1>7, RefilledInRange
  <2>2. tokens[l] + (at[r] - last[l]) < Period
    BY <2>1, <1>1
  <2>3. n(t) * Period + Period > Full + (at[r] - t) /\ t \in 0 .. at[r]
    BY <2>2, <1>3, <1>4, <1>6, <1>7
  <2> QED BY <2>3, <1>6 DEF n
<1>8. CASE at[r] < last[l]
  <2>1. tokens[l] < Period
    BY <1>1, <1>8, RefilledInRange
  <2>2. n(t) * Period + Period + t > Full + last[l]
    BY <2>1, <1>3, <1>4, <1>6
  <2>3. CASE t <= at[r]
    <3>1. n(t) * Period + Period > Full + (at[r] - t) /\ t \in 0 .. at[r]
      BY <2>2, <2>3, <1>3, <1>6, <1>8
    <3> QED BY <3>1, <1>6 DEF n
  <2>4. CASE at[r] < t
    <3>1. Allowed(r, t, MaxTime) \subseteq Allowed(r, at[r], MaxTime)
      BY <2>4, <1>3 DEF Allowed, TypeOK, Time
    <3>2. n(t) * Period <= n(at[r]) * Period
      BY <3>1, AllowedIsFinite, MoreAllowed DEF n
    <3>3. n(at[r]) * Period + Period > Full + (at[r] - at[r]) /\ at[r] \in 0 .. at[r]
      BY <3>2, <2>2, <1>3, <1>4, <1>6
    <3> QED BY <3>3, <1>6 DEF n
  <2> QED BY <2>3, <2>4, <1>3
<1> QED BY <1>7, <1>8, <1>3

-----------------------------------------------------------------------------
(* Allow.                                                                  *)

\* Whom Allow counts: the request, where its time falls, and nobody else.
LEMMA OneMoreAllowed ==
    ASSUME IInv, NEW r \in Requests, Allow(r), NEW m \in Requests, held[m] = m,
           NEW t \in Time, NEW u \in Time
    PROVE  /\ m # held[r] => /\ Allowed(m, t, u)' = Allowed(m, t, u)
                             /\ tokens'[m] = tokens[m] /\ last'[m] = last[m]
                             /\ rewound'[m] = rewound[m]
           /\ m = held[r] =>
                 /\ r \notin Allowed(m, t, u)
                 /\ t <= at[r] /\ at[r] <= u => Allowed(m, t, u)' = Allowed(m, t, u) \cup {r}
                 /\ ~ (t <= at[r] /\ at[r] <= u) => Allowed(m, t, u)' = Allowed(m, t, u)
<1> DEFINE l == held[r]
<1>1. /\ held[l] = l /\ key[l] = key[r] /\ born[l] = born[r] /\ born[r] = epoch
      /\ verdict[r] = "none" /\ l \in Requests
  BY NoneAssumption DEF Allow, LookupInv, IInv, TypeOK
<1>2. /\ \A q \in Requests \ {l} :
            tokens'[q] = tokens[q] /\ last'[q] = last[q] /\ rewound'[q] = rewound[q]
      /\ verdict' = [verdict EXCEPT ![r] = "allowed"]
      /\ key' = key /\ held' = held /\ born' = born /\ at' = at
  BY <1>1 DEF Allow, asked, IInv, TypeOK
<1>3. m # l => ~ (key[r] = key[m] /\ born[r] = born[m])
  BY <1>1, NoneAssumption DEF LookupInv, IInv, TypeOK
<1> HIDE DEF l
<1>4. m # l => Allowed(m, t, u)' = Allowed(m, t, u)
  BY <1>2, <1>3 DEF Allowed, IInv, TypeOK
<1>5. m = l =>
         /\ r \notin Allowed(m, t, u)
         /\ t <= at[r] /\ at[r] <= u => Allowed(m, t, u)' = Allowed(m, t, u) \cup {r}
         /\ ~ (t <= at[r] /\ at[r] <= u) => Allowed(m, t, u)' = Allowed(m, t, u)
  BY <1>1, <1>2 DEF Allowed, IInv, TypeOK
<1> QED BY <1>2, <1>4, <1>5 DEF l

LEMMA AllowStep ==
    ASSUME IInv, NEW r \in Requests, Allow(r), TypeOK', LookupInv',
           NEW l \in Requests, l = held[r], NEW a \in Time, a = at[r]
    PROVE  FreshInv' /\ DrainedInv' /\ BoundInv' /\ SpentInv'
<1> USE BoundAssumption, FullIsNat
<1> DEFINE rest == Refilled(l, a) - Period
<1>1. /\ held[l] = l /\ key[l] = key[r] /\ born[l] = born[r] /\ born[r] = epoch
      /\ verdict[r] = "none" /\ pc[r] = "decide" /\ pc[l] # "idle"
  BY NoneAssumption DEF Allow, LookupInv, IInv, TypeOK
<1>2. /\ Refilled(l, a) >= Period
      /\ tokens' = [tokens EXCEPT ![l] = rest] /\ last' = [last EXCEPT ![l] = a]
      /\ rewound' = [rewound EXCEPT ![l] =
                        IF a < last[l] THEN @ + (last[l] - a) ELSE @]
      /\ verdict' = [verdict EXCEPT ![r] = "allowed"]
      /\ pc' = [pc EXCEPT ![r] = "done"]
      /\ key' = key /\ held' = held /\ born' = born /\ at' = at
  BY DEF Allow, Goto, asked
<1>3. /\ a \in Nat /\ last[l] \in Nat /\ tokens[l] \in Nat /\ tokens[l] <= Full
      /\ rewound[l] \in Nat /\ a <= MaxTime
  BY <1>1 DEF Time, IInv, TypeOK
<1>4. /\ Refilled(l, a) \in 0 .. Full
      /\ a >= last[l] => Refilled(l, a) <= tokens[l] + (a - last[l])
      /\ a >= last[l] /\ Refilled(l, a) < Full
            => Refilled(l, a) = tokens[l] + (a - last[l])
      /\ a < last[l] => Refilled(l, a) = tokens[l]
  BY <1>1, RefilledInRange DEF IInv
<1>5. rest \in Nat /\ rest + Period = Refilled(l, a)
  BY <1>2, <1>4
<1>6. tokens'[l] = rest /\ last'[l] = a
      /\ rewound'[l] = IF a < last[l] THEN rewound[l] + (last[l] - a) ELSE rewound[l]
  BY <1>1, <1>2 DEF IInv, TypeOK
<1>7. ASSUME NEW m \in Requests, held[m] = m, m # l, NEW t \in Time, NEW u \in Time
      PROVE  Allowed(m, t, u)' = Allowed(m, t, u)
             /\ tokens'[m] = tokens[m] /\ last'[m] = last[m] /\ rewound'[m] = rewound[m]
  BY <1>7, OneMoreAllowed
<1>8. ASSUME NEW t \in Time, NEW u \in Time
      PROVE  /\ r \notin Allowed(l, t, u)
             /\ t <= a /\ a <= u => Allowed(l, t, u)' = Allowed(l, t, u) \cup {r}
             /\ ~ (t <= a /\ a <= u) => Allowed(l, t, u)' = Allowed(l, t, u)
  BY <1>1, OneMoreAllowed
<1> DEFINE c(t, u) == Cardinality(Allowed(l, t, u)) * Period
           d(t, u) == Cardinality(Allowed(l, t, u)') * Period
<1>9. ASSUME NEW t \in Time, NEW u \in Time
      PROVE  /\ c(t, u) \in Nat
             /\ t <= a /\ a <= u => d(t, u) = c(t, u) + Period
             /\ ~ (t <= a /\ a <= u) => d(t, u) = c(t, u)
             /\ Allowed(l, t, u) = {} => c(t, u) = 0
  <2>1. IsFiniteSet(Allowed(l, t, u)) /\ c(t, u) \in Nat
    BY <1>1, AllowedIsFinite
  <2>2. t <= a /\ a <= u => d(t, u) = c(t, u) + Period
    BY <2>1, <1>8, OneMore
  <2>3. ~ (t <= a /\ a <= u) => d(t, u) = c(t, u)
    BY <1>8
  <2>4. Allowed(l, t, u) = {} => c(t, u) = 0
    BY NoneAllowed
  <2> QED BY <2>1, <2>2, <2>3, <2>4
<1>10. FreshInv'
  BY <1>1, <1>2 DEF FreshInv, IInv, TypeOK
<1>11. ASSUME NEW t \in Time, NEW u \in Time, Allowed(l, t, u) # {}
       PROVE  c(t, u) + tokens[l] + t <= Full + last[l] + rewound[l]
  BY <1>1, <1>11 DEF DrainedInv, IInv, TypeOK
<1>12. ASSUME NEW t \in Time, NEW u \in Time, t <= u
       PROVE  c(t, u) <= Full + (u - t) + rewound[l]
  BY <1>1, <1>12 DEF BoundInv, IInv, TypeOK
<1>13. PICK s \in 0 .. last[l] : c(s, MaxTime) + tokens[l] + s >= Full + last[l]
  BY <1>1 DEF SpentInv, IInv, TypeOK
<1> HIDE DEF c, d, rest
<1>14. ASSUME NEW t \in Time, NEW u \in Time, Allowed(l, t, u)' # {}
       PROVE  d(t, u) + rest + t <= Full + a + rewound'[l]
  <2>1. t \in Nat /\ u \in Nat
    BY DEF Time
  <2>2. CASE Allowed(l, t, u) # {}
    BY <2>1, <2>2, <1>3, <1>4, <1>5, <1>6, <1>9, <1>11
  <2>3. CASE Allowed(l, t, u) = {}
    <3>1. t <= a /\ a <= u /\ d(t, u) = Period
      BY <2>3, <1>8, <1>9, <1>14
    <3> QED BY <3>1, <2>1, <1>3, <1>4, <1>5, <1>6
  <2> QED BY <2>2, <2>3
<1>15. ASSUME NEW t \in Time, NEW u \in Time, t <= u
       PROVE  d(t, u) <= Full + (u - t) + rewound'[l]
  <2>1. t \in Nat /\ u \in Nat
    BY DEF Time
  <2>2. CASE t <= a /\ a <= u
    <3>1. d(t, u) + rest + t <= Full + a + rewound'[l] /\ d(t, u) \in Nat
      BY <2>2, <1>8, <1>9, <1>14
    <3> QED BY <3>1, <2>1, <2>2, <1>3, <1>5, <1>6
  <2>3. CASE ~ (t <= a /\ a <= u)
    BY <2>1, <2>3, <1>3, <1>6, <1>9, <1>12, <1>15
  <2> QED BY <2>2, <2>3
<1>20. a \in Nat /\ a <= MaxTime /\ MaxTime \in Time /\ last[l] <= MaxTime
  BY <1>1, <1>3 DEF Time, IInv, TypeOK
<1>16. \E t \in 0 .. a : d(t, MaxTime) + rest + t >= Full + a
  <2> USE <1>20 DEF Time
  <2>1. CASE a < last[l] /\ a < s
    <3>1. Allowed(l, s, MaxTime) \subseteq Allowed(l, a, MaxTime)
      BY <2>1, <1>3 DEF Allowed, IInv, TypeOK
    <3>2. c(s, MaxTime) <= c(a, MaxTime)
      BY <3>1, <1>1, AllowedIsFinite, MoreAllowed DEF c
    <3>3. d(a, MaxTime) = c(a, MaxTime) + Period /\ c(a, MaxTime) \in Nat
      BY <1>3, <1>9
    <3>4. d(a, MaxTime) + rest + a >= Full + a
      BY <2>1, <3>2, <3>3, <1>3, <1>4, <1>5, <1>9, <1>13
    <3> QED BY <3>4, <1>3
  <2>2. CASE a < last[l] /\ s <= a
    <3>1. d(s, MaxTime) = c(s, MaxTime) + Period /\ c(s, MaxTime) \in Nat
      BY <2>2, <1>3, <1>9
    <3> QED BY <3>1, <2>2, <1>3, <1>4, <1>5, <1>13
  <2>3. CASE a >= last[l] /\ Refilled(l, a) < Full
    <3>1. d(s, MaxTime) = c(s, MaxTime) + Period /\ c(s, MaxTime) \in Nat
      BY <2>3, <1>3, <1>9
    <3>2. d(s, MaxTime) + rest + s >= Full + a /\ s \in 0 .. a
      BY <3>1, <2>3, <1>3, <1>4, <1>5, <1>13
    <3> QED BY <3>2
  <2>4. CASE a >= last[l] /\ Refilled(l, a) = Full
    <3>1. d(a, MaxTime) = c(a, MaxTime) + Period /\ c(a, MaxTime) \in Nat
      BY <1>3, <1>9
    <3> QED BY <3>1, <2>4, <1>3, <1>5
  <2> QED BY <2>1, <2>2, <2>3, <2>4, <1>3, <1>4
<1>17. DrainedInv'
  <2> SUFFICES ASSUME NEW m \in Requests, held[m] = m, NEW t \in Time, NEW u \in Time,
                      Allowed(m, t, u)' # {}
               PROVE  Cardinality(Allowed(m, t, u)') * Period + tokens'[m] + t
                         <= Full + last'[m] + rewound'[m]
    BY <1>2 DEF DrainedInv, IInv, TypeOK
  <2>1. CASE m = l
    BY <2>1, <1>6, <1>14 DEF d
  <2>2. CASE m # l
    BY <2>2, <1>7 DEF DrainedInv, IInv, TypeOK
  <2> QED BY <2>1, <2>2
<1>18. BoundInv'
  <2> SUFFICES ASSUME NEW m \in Requests, held[m] = m, NEW t \in Time, NEW u \in Time, t <= u
               PROVE  Cardinality(Allowed(m, t, u)') * Period <= Full + (u - t) + rewound'[m]
    BY <1>2 DEF BoundInv, IInv, TypeOK
  <2>1. CASE m = l
    BY <2>1, <1>15 DEF d
  <2>2. CASE m # l
    BY <2>2, <1>7 DEF BoundInv, IInv, TypeOK
  <2> QED BY <2>1, <2>2
<1>19. SpentInv'
  <2> SUFFICES ASSUME NEW m \in Requests, held[m] = m
               PROVE  \E t \in 0 .. last'[m] :
                         Cardinality(Allowed(m, t, MaxTime)') * Period + tokens'[m] + t
                            >= Full + last'[m]
    BY <1>2 DEF SpentInv, IInv, TypeOK
  <2>1. CASE m = l
    BY <2>1, <1>6, <1>16 DEF d
  <2>2. CASE m # l
    <3>1. \A t \in Time : /\ Allowed(m, t, MaxTime)' = Allowed(m, t, MaxTime)
                          /\ tokens'[m] = tokens[m] /\ last'[m] = last[m]
      BY <2>2, <1>7, <1>20
    <3>2. PICK t \in 0 .. last[m] :
             Cardinality(Allowed(m, t, MaxTime)) * Period + tokens[m] + t >= Full + last[m]
      BY <2>2 DEF SpentInv, IInv
    <3>3. t \in Time
      BY <3>2 DEF IInv, TypeOK, Time
    <3> QED BY <3>1, <3>2, <3>3
  <2> QED BY <2>1, <2>2
<1> QED BY <1>10, <1>17, <1>18, <1>19

-----------------------------------------------------------------------------
(* All together.                                                           *)

LEMMA RefusalsStep ==
    ASSUME IInv, [Next]_vars, TypeOK', LookupInv'
    PROVE  RefusalsJustified'
<1> USE BoundAssumption, FullIsNat DEF IInv
<1>1. \A q \in Requests : verdict[q] # "none" =>
          /\ pc[q] = "done" /\ verdict'[q] = verdict[q]
          /\ key'[q] = key[q] /\ born'[q] = born[q] /\ at'[q] = at[q]
  <2>1. \A q \in Requests : verdict[q] # "none" => pc[q] = "done"
    BY DEF LookupInv, TypeOK
  <2> QED BY <2>1 DEF Next, vars, asked, buckets, Lookup, ReadClock, Allow, Refuse, Tick,
                      Restart, Served, Goto, TypeOK
<1> SUFFICES ASSUME NEW r \in Requests, verdict'[r] = "refused"
             PROVE  \E t \in 0 .. at'[r] :
                       (Cardinality(Allowed(r, t, MaxTime)') + 1) * Period > Full + (at'[r] - t)
  BY DEF RefusalsJustified
<1>2. /\ at'[r] = at[r] /\ key'[r] = key[r] /\ born'[r] = born[r] /\ at[r] \in Nat
      /\ \E t \in 0 .. at[r] :
            (Cardinality(Allowed(r, t, MaxTime)) + 1) * Period > Full + (at[r] - t)
  <2>1. at[r] \in Nat
    BY DEF TypeOK, Time
  <2>2. CASE verdict[r] # "none"
    BY <2>1, <2>2, <1>1 DEF RefusalsJustified
  <2>3. CASE verdict[r] = "none"
    <3>1. Refuse(r)
      BY <2>3 DEF Next, vars, Lookup, ReadClock, Allow, Refuse, Tick, Restart, Served, TypeOK
    <3> QED BY <3>1, <2>1, RefuseStep DEF Refuse, asked
  <2> QED BY <2>2, <2>3
<1>3. PICK t \in 0 .. at[r] :
          (Cardinality(Allowed(r, t, MaxTime)) + 1) * Period > Full + (at[r] - t)
  BY <1>2
<1>4. /\ Cardinality(Allowed(r, t, MaxTime)') * Period >= Cardinality(Allowed(r, t, MaxTime)) * Period
      /\ Cardinality(Allowed(r, t, MaxTime)') \in Nat /\ Cardinality(Allowed(r, t, MaxTime)) \in Nat
  BY <1>1, <1>2, AllowedGrows
<1>5. (Cardinality(Allowed(r, t, MaxTime)') + 1) * Period > Full + (at[r] - t)
  <2>1. /\ (Cardinality(Allowed(r, t, MaxTime)) + 1) * Period
               = Cardinality(Allowed(r, t, MaxTime)) * Period + Period
        /\ (Cardinality(Allowed(r, t, MaxTime)') + 1) * Period
               = Cardinality(Allowed(r, t, MaxTime)') * Period + Period
        /\ Cardinality(Allowed(r, t, MaxTime)) * Period \in Nat
        /\ Cardinality(Allowed(r, t, MaxTime)') * Period \in Nat
    BY <1>4, SumOfOneMore
  <2> QED BY <2>1, <1>2, <1>3, <1>4
<1> QED BY <1>2, <1>5

LEMMA Step == IInv /\ [Next]_vars => IInv'
<1> SUFFICES ASSUME IInv, [Next]_vars PROVE IInv'
  OBVIOUS
<1>1. TypeOK' /\ LookupInv'
  BY TypeStep, LookupInvStep DEF IInv
<1>2. RefusalsJustified'
  BY <1>1, RefusalsStep
<1>3. CASE \E r \in Requests : Allow(r)
  <2>1. PICK r \in Requests : Allow(r)
    BY <1>3
  <2>2. held[r] \in Requests /\ at[r] \in Time
    BY <2>1 DEF IInv, TypeOK, LookupInv, Allow
  <2> QED BY <1>1, <1>2, <2>1, <2>2, AllowStep DEF IInv
<1>4. CASE \A r \in Requests : ~ Allow(r)
  <2>1. Quiet
    BY <1>4, QuietStep DEF IInv
  <2> QED BY <2>1, <1>1, <1>2, QuietKeeps DEF IInv
<1> QED BY <1>3, <1>4

LEMMA Invariance == Spec => []IInv
BY InitIInv, Step, PTL DEF Spec

\* The types of RateLimit, for any keys, requests, burst and period.
THEOREM TypeCorrect == Spec => []TypeOK
<1>1. IInv => TypeOK
  BY DEF IInv
<1> QED BY <1>1, Invariance, PTL

\* In no window does a process allow a key more than a burst and the refill,
\* apart from what limiters were set back by.
THEOREM GrantsAreBounded == Spec => []GrantsBounded
<1>1. IInv => GrantsBounded
  <2> SUFFICES ASSUME IInv, NEW r \in Requests, NEW t \in Time, NEW u \in Time,
                      verdict[r] = "allowed", t <= u
               PROVE  Cardinality(Allowed(r, t, u)) * Period <= Full + (u - t) + rewound[held[r]]
    BY DEF GrantsBounded
  <2>1. /\ held[r] \in Requests /\ held[held[r]] = held[r]
        /\ key[held[r]] = key[r] /\ born[held[r]] = born[r]
    BY DEF IInv, LookupInv, TypeOK
  <2>2. Allowed(held[r], t, u) = Allowed(r, t, u)
    BY <2>1 DEF Allowed
  <2> QED BY <2>1, <2>2 DEF IInv, BoundInv
<1> QED BY <1>1, Invariance, PTL

\* A refused request would have made some window exceed the rate.
THEOREM RefusalsAreJustified == Spec => []RefusalsJustified
<1>1. IInv => RefusalsJustified
  BY DEF IInv
<1> QED BY <1>1, Invariance, PTL

-----------------------------------------------------------------------------
(* What a limiter is set back by.                                          *)

\* Between the time Allow reads and the decision on it no more than D passes.
DecidedWithin(D) == \A r \in Requests : pc[r] = "decide" => now <= at[r] + D

\* The requests allowed for r's key by the process that served it.
Grants(r) == Cardinality(Allowed(r, 0, MaxTime))

\* Each of them has set its limiter back by no more than D.
RewindsBounded(D) ==
    \A l \in Requests : held[l] = l => rewound[l] <= Grants(l) * D

\* A time in the requests or in the limiters was read from the clock.
ClockInv == \A r \in Requests : at[r] <= now /\ last[r] <= now

LEMMA InitClock == Init => ClockInv
BY DEF Init, ClockInv

LEMMA InitRewinds == ASSUME NEW D \in Nat PROVE Init => RewindsBounded(D)
BY NoneAssumption DEF Init, RewindsBounded

LEMMA ClockStep == IInv /\ ClockInv /\ [Next]_vars => ClockInv'
<1> SUFFICES ASSUME IInv, ClockInv, [Next]_vars PROVE ClockInv'
  OBVIOUS
<1> USE BoundAssumption DEF ClockInv
<1>1. /\ now \in Nat /\ at \in [Requests -> Time] /\ last \in [Requests -> Time]
      /\ \A q \in Requests : at[q] \in Nat /\ last[q] \in Nat
  BY DEF IInv, TypeOK, Time
<1>2. ASSUME NEW r \in Requests, NEW k \in Keys, Lookup(r, k) PROVE ClockInv'
  BY <1>1, <1>2 DEF Lookup, buckets
<1>3. ASSUME NEW r \in Requests, ReadClock(r) PROVE ClockInv'
  BY <1>1, <1>3 DEF ReadClock, buckets
<1>4. ASSUME NEW r \in Requests, Allow(r) PROVE ClockInv'
  BY <1>1, <1>4 DEF Allow
<1>5. ASSUME NEW r \in Requests, Refuse(r) PROVE ClockInv'
  BY <1>1, <1>5 DEF Refuse, buckets
<1>6. CASE Tick
  BY <1>1, <1>6 DEF Tick, buckets
<1>7. CASE Restart
  BY <1>1, <1>7 DEF Restart, buckets
<1>8. CASE UNCHANGED vars
  BY <1>1, <1>8 DEF vars, buckets
<1> QED BY <1>2, <1>3, <1>4, <1>5, <1>6, <1>7, <1>8 DEF Next, Served

\* A request decided late by d sets its limiter back by d at most, and counts as
\* one more.
LEMMA RewindsAllow ==
    ASSUME NEW D \in Nat, IInv, ClockInv, RewindsBounded(D), DecidedWithin(D),
           TypeOK', LookupInv', NEW r \in Requests, Allow(r),
           NEW l \in Requests, l = held[r]
    PROVE  RewindsBounded(D)'
<1>1. /\ held[l] = l
      /\ at[r] \in Time /\ at[r] \in Nat /\ last[l] \in Nat /\ now \in Nat
      /\ 0 \in Time /\ MaxTime \in Time /\ at[r] <= MaxTime
      /\ \A m \in Requests : rewound[m] \in Nat
  BY BoundAssumption DEF Allow, IInv, LookupInv, TypeOK, Time
<1>2. held' = held
  BY DEF Allow, asked
<1>3. at[r] < last[l] => last[l] - at[r] \in Nat /\ last[l] - at[r] <= D
  BY <1>1 DEF ClockInv, DecidedWithin, Allow
<1>4. ASSUME NEW m \in Requests, held[m] = m, m # l
      PROVE  Grants(m)' = Grants(m) /\ rewound'[m] = rewound[m]
  BY <1>1, <1>4, OneMoreAllowed DEF Grants
<1>5. Grants(l)' = Grants(l) + 1 /\ Grants(l) \in Nat
  <2>1. r \notin Allowed(l, 0, MaxTime)
        /\ Allowed(l, 0, MaxTime)' = Allowed(l, 0, MaxTime) \cup {r}
    BY <1>1, OneMoreAllowed
  <2>2. IsFiniteSet(Allowed(l, 0, MaxTime))
    BY <1>1, AllowedIsFinite
  <2> QED BY <2>1, <2>2, OneMore DEF Grants
<1>6. rewound'[l] <= rewound[l] + D
  BY <1>1, <1>3 DEF Allow, IInv, TypeOK
<1>7. rewound'[l] \in Nat /\ rewound[l] <= Grants(l) * D
  BY <1>1 DEF TypeOK, RewindsBounded
<1>8. (Grants(l) + 1) * D = Grants(l) * D + D /\ Grants(l) * D \in Nat
  <2>1. \A n \in Nat : (n + 1) * D = n * D + D /\ n * D \in Nat
    OBVIOUS
  <2> QED BY <2>1, <1>5
<1>9. rewound'[l] <= Grants(l)' * D
  BY <1>1, <1>5, <1>6, <1>7, <1>8
<1>10. \A m \in Requests : held[m] = m /\ m # l => rewound'[m] <= Grants(m)' * D
  BY <1>4 DEF RewindsBounded
<1>11. \A m \in Requests : held'[m] = m => rewound'[m] <= Grants(m)' * D
  BY <1>2, <1>9, <1>10
<1> QED BY <1>11 DEF RewindsBounded

LEMMA RewindsQuiet ==
    ASSUME NEW D \in Nat, IInv, RewindsBounded(D), Quiet, TypeOK', LookupInv'
    PROVE  RewindsBounded(D)'
<1> SUFFICES ASSUME NEW l \in Requests, held'[l] = l
             PROVE  rewound'[l] <= Grants(l)' * D
  BY DEF RewindsBounded
<1>1. rewound' = rewound /\ \A q \in Requests : verdict[q] = "allowed" => pc[q] = "done"
  BY DEF Quiet, buckets, IInv, LookupInv, TypeOK
<1>2. CASE pc[l] = "idle"
  <2>1. rewound'[l] = 0
    BY <1>1, <1>2 DEF IInv, FreshInv
  <2>2. Grants(l)' \in Nat
    <3>1. Allowed(l, 0, MaxTime)' \subseteq Requests
      BY DEF Allowed
    <3> QED BY <3>1, RequestsAssumption, FS_Subset, FS_CardinalityType DEF Grants
  <2>3. \A n \in Nat : 0 <= n * D
    OBVIOUS
  <2> QED BY <2>1, <2>2, <2>3
<1>3. CASE pc[l] # "idle"
  <2>1. held[l] = l /\ key'[l] = key[l] /\ born'[l] = born[l]
    BY <1>3 DEF Quiet
  <2>2. Allowed(l, 0, MaxTime)' = Allowed(l, 0, MaxTime)
    BY <1>1, <2>1, SameAllowed DEF Quiet
  <2> QED BY <1>1, <2>1, <2>2 DEF RewindsBounded, Grants
<1> QED BY <1>2, <1>3

LEMMA RewindsStep ==
    ASSUME NEW D \in Nat
    PROVE  IInv /\ ClockInv /\ RewindsBounded(D) /\ DecidedWithin(D) /\ [Next]_vars
              => RewindsBounded(D)'
<1> SUFFICES ASSUME IInv, ClockInv, RewindsBounded(D), DecidedWithin(D), [Next]_vars
             PROVE  RewindsBounded(D)'
  OBVIOUS
<1>1. TypeOK' /\ LookupInv'
  BY TypeStep, LookupInvStep DEF IInv
<1>2. CASE \E r \in Requests : Allow(r)
  <2>1. PICK r \in Requests : Allow(r)
    BY <1>2
  <2>2. held[r] \in Requests
    BY <2>1 DEF IInv, LookupInv, Allow
  <2> QED BY <1>1, <2>1, <2>2, RewindsAllow
<1>3. CASE \A r \in Requests : ~ Allow(r)
  BY <1>1, <1>3, QuietStep, RewindsQuiet DEF IInv
<1> QED BY <1>2, <1>3

\* If every request is decided within D of the time it brings, what a limiter
\* was set back by in all is at most D for each request it allowed.
THEOREM RewindsAreBounded ==
    ASSUME NEW D \in Nat
    PROVE  Spec /\ []DecidedWithin(D) => []RewindsBounded(D)
<1>1. Init => ClockInv /\ RewindsBounded(D)
  BY InitClock, InitRewinds
<1>2. IInv /\ ClockInv /\ [Next]_vars => ClockInv'
  BY ClockStep
<1>3. IInv /\ ClockInv /\ RewindsBounded(D) /\ DecidedWithin(D) /\ [Next]_vars
         => RewindsBounded(D)'
  BY RewindsStep
<1> QED BY <1>1, <1>2, <1>3, Invariance, PTL DEF Spec

\* A window sees a burst, the refill and D for each request its process allowed.
GrantsWithin(D) ==
    \A r \in Requests : \A t, u \in Time :
        verdict[r] = "allowed" /\ t <= u =>
            Cardinality(Allowed(r, t, u)) * Period <= Full + (u - t) + Grants(r) * D

LEMMA RewindsBoundGrants ==
    ASSUME NEW D \in Nat
    PROVE  IInv /\ GrantsBounded /\ RewindsBounded(D) => GrantsWithin(D)
<1> SUFFICES ASSUME IInv, GrantsBounded, RewindsBounded(D),
                    NEW r \in Requests, NEW t \in Time, NEW u \in Time,
                    verdict[r] = "allowed", t <= u
             PROVE  Cardinality(Allowed(r, t, u)) * Period
                       <= Full + (u - t) + Grants(r) * D
  BY DEF GrantsWithin
<1>1. /\ held[r] \in Requests /\ held[held[r]] = held[r]
      /\ key[held[r]] = key[r] /\ born[held[r]] = born[r]
  BY DEF IInv, LookupInv, TypeOK
<1>2. Grants(held[r]) = Grants(r)
  BY <1>1 DEF Allowed, Grants
<1>3. rewound[held[r]] <= Grants(r) * D
  BY <1>1, <1>2 DEF RewindsBounded
<1>4. Cardinality(Allowed(r, t, u)) * Period <= Full + (u - t) + rewound[held[r]]
  BY DEF GrantsBounded
<1>5. /\ rewound[held[r]] \in Nat /\ t \in Nat /\ u \in Nat
      /\ Cardinality(Allowed(r, t, u)) * Period \in Nat
  BY <1>1, AllowedIsFinite DEF IInv, TypeOK, Time
<1>6. Grants(r) * D \in Nat
  <2>1. Grants(r) \in Nat
    BY AllowedIsFinite DEF Grants
  <2> QED BY <2>1
<1> HIDE DEF Grants
<1> QED BY <1>3, <1>4, <1>5, <1>6, FullIsNat

\* However many keys, processes and races there are, what a window can see beyond
\* a bucket depends only on how late a request is decided.
THEOREM DelayBoundsGrants ==
    ASSUME NEW D \in Nat
    PROVE  Spec /\ []DecidedWithin(D) => []GrantsWithin(D)
<1>1. IInv /\ GrantsBounded /\ RewindsBounded(D) => GrantsWithin(D)
  BY RewindsBoundGrants
<1> QED BY <1>1, Invariance, GrantsAreBounded, RewindsAreBounded, PTL

\* The classical bound of a token bucket.
OneBucket ==
    \A r \in Requests : \A t, u \in Time :
        verdict[r] = "allowed" /\ t <= u =>
            Cardinality(Allowed(r, t, u)) * Period <= Full + (u - t)

\* It holds where no time passes between reading the clock and taking the limiter:
\* that Allow does not do both at once is all that stands in its way.
THEOREM AtomicAllow == Spec /\ []DecidedWithin(0) => []OneBucket
<1>1. GrantsWithin(0) => OneBucket
  <2> SUFFICES ASSUME GrantsWithin(0), NEW r \in Requests, NEW t \in Time, NEW u \in Time,
                      verdict[r] = "allowed", t <= u
               PROVE  Cardinality(Allowed(r, t, u)) * Period <= Full + (u - t)
    BY DEF OneBucket
  <2>1. Grants(r) * 0 = 0
    <3>1. Grants(r) \in Nat
      BY AllowedIsFinite DEF Grants
    <3> QED BY <3>1
  <2>2. Full + (u - t) + 0 = Full + (u - t)
    BY FullIsNat DEF Time
  <2> QED BY <2>1, <2>2 DEF GrantsWithin
<1>2. IInv /\ GrantsBounded /\ RewindsBounded(0) => GrantsWithin(0)
  BY RewindsBoundGrants
<1>3. Init => ClockInv /\ RewindsBounded(0)
  BY InitClock, InitRewinds
<1>4. IInv /\ ClockInv /\ RewindsBounded(0) /\ DecidedWithin(0) /\ [Next]_vars
         => RewindsBounded(0)'
  BY RewindsStep
<1> QED BY <1>1, <1>2, <1>3, <1>4, ClockStep, Invariance, GrantsAreBounded, PTL DEF Spec

\* What the documented limit (WithinRate) comes to: less than a whole bucket more
\* than it says.
WithinRateAndBurst(minute) ==
    \A r \in Requests : \A t \in Time :
        verdict[r] = "allowed" =>
            Cardinality(Allowed(r, t, t + minute - 1)) * Period < Full + minute

\* In a minute allow lets through what is refilled in it and the burst beside, 119
\* of the 60 swipes documented: no race is needed for that, and were it atomic, no
\* more could come of it.
THEOREM BurstComesOnTop ==
    ASSUME NEW minute \in Nat \ {0}
    PROVE  Spec /\ []DecidedWithin(0) => []WithinRateAndBurst(minute)
<1>1. TypeOK /\ OneBucket => WithinRateAndBurst(minute)
  <2> SUFFICES ASSUME TypeOK, OneBucket, NEW r \in Requests, NEW t \in Time,
                      verdict[r] = "allowed"
               PROVE  Cardinality(Allowed(r, t, t + minute - 1)) * Period < Full + minute
    BY DEF WithinRateAndBurst
  <2> DEFINE end == t + minute - 1
  <2>1. t \in Nat /\ t <= MaxTime /\ MaxTime \in Nat /\ end \in Nat /\ t <= end
    BY BoundAssumption DEF Time
  <2>2. \A q \in Requests : at[q] \in Nat /\ at[q] <= MaxTime
    BY BoundAssumption DEF TypeOK, Time
  <2>3. PICK u \in Time : t <= u /\ u <= end /\ Allowed(r, t, end) = Allowed(r, t, u)
    <3>1. CASE end <= MaxTime
      BY <2>1, <3>1 DEF Time
    <3>2. CASE end > MaxTime
      <4>1. Allowed(r, t, end) = Allowed(r, t, MaxTime)
        BY <2>1, <2>2, <3>2 DEF Allowed
      <4> QED BY <2>1, <3>2, <4>1 DEF Time
    <3> QED BY <2>1, <3>1, <3>2
  <2>4. Cardinality(Allowed(r, t, u)) * Period <= Full + (u - t)
    BY <2>3 DEF OneBucket
  <2>5. u \in Nat /\ Cardinality(Allowed(r, t, u)) * Period \in Nat
    BY <2>1, AllowedIsFinite DEF Time
  <2> QED BY <2>1, <2>3, <2>4, <2>5, FullIsNat
<1> QED BY <1>1, AtomicAllow, TypeCorrect, PTL
=============================================================================
