------------------------------ MODULE RateLimit ------------------------------
(***************************************************************************)
(* keyedLimiter, which stands in front of register and login (keyed by the *)
(* address), swipe and POST of a message (keyed by the user): one token    *)
(* bucket per key, in the memory of one process.                           *)
(*                                                                         *)
(* allow finds the key's rate.Limiter under the mutex of the map and calls *)
(* its Allow after unlocking.  Allow reads the clock first and only then   *)
(* takes the limiter's own lock, so that requests can be decided in        *)
(* another order than that of the times they bring.                        *)
(***************************************************************************)
EXTENDS Naturals, FiniteSets

CONSTANTS
    Keys,
    Requests,
    Burst,      \* the size b of a bucket, in requests
    Period,     \* the time in which one request is refilled, 1 / r
    MaxTime,    \* bound: the time at which the clock stops
    None

ASSUME RequestsAssumption == IsFiniteSet(Requests)
ASSUME NoneAssumption == None \notin Requests \cup Keys
ASSUME BucketAssumption == Burst \in Nat \ {0} /\ Period \in Nat \ {0}
ASSUME BoundAssumption == MaxTime \in Nat

\* Tokens are counted in units of time: a request costs Period of them.
Full == Burst * Period
Time == 0 .. MaxTime

VARIABLES
    now,        \* the clock
    pc,         \* pc[r]: what allow does next for r
    key,        \* key[r]: the address or the user of the request
    at,         \* at[r]: the time Allow read
    held,       \* held[r]: the limiter allow found, named by the request that made it
    limiters,   \* limiters[k]: the map of the process, None where it has no entry
    last,       \* last[l]: the time limiter l was brought up to
    tokens,     \* tokens[l]: its tokens at that time
    verdict,    \* verdict[r]: what allow returned
    epoch,      \* history: how often the process was started again
    born,       \* history, born[r]: the epoch r was looked up in
    rewound     \* history, rewound[l]: by how much l was set back, in all

asked == <<key, held, born>>
buckets == <<last, tokens, rewound>>
vars == <<now, pc, at, asked, limiters, buckets, verdict, epoch>>

Init ==
    /\ now = 0
    /\ pc = [r \in Requests |-> "idle"]
    /\ key = [r \in Requests |-> None]
    /\ at = [r \in Requests |-> 0]
    /\ held = [r \in Requests |-> None]
    /\ limiters = [k \in Keys |-> None]
    /\ last = [l \in Requests |-> 0]
    /\ tokens = [l \in Requests |-> Full]
    /\ verdict = [r \in Requests |-> "none"]
    /\ epoch = 0
    /\ born = [r \in Requests |-> 0]
    /\ rewound = [l \in Requests |-> 0]

Goto(r, l) == pc' = [pc EXCEPT ![r] = l]

-----------------------------------------------------------------------------
LookupFresh(r, k) == \* a limiter made for every request
    /\ pc[r] = "idle"
    /\ held' = [held EXCEPT ![r] = r]
    /\ limiters' = [limiters EXCEPT ![k] = r]
    /\ key' = [key EXCEPT ![r] = k]
    /\ born' = [born EXCEPT ![r] = epoch]
    /\ Goto(r, "now")
    /\ UNCHANGED <<now, at, buckets, verdict, epoch>>

\* The map under its mutex; a new limiter begins full.
Lookup(r, k) ==
    /\ pc[r] = "idle"
    /\ LET l == IF limiters[k] = None THEN r ELSE limiters[k] IN
       /\ held' = [held EXCEPT ![r] = l]
       /\ limiters' = [limiters EXCEPT ![k] = l]
    /\ key' = [key EXCEPT ![r] = k]
    /\ born' = [born EXCEPT ![r] = epoch]
    /\ Goto(r, "now")
    /\ UNCHANGED <<now, at, buckets, verdict, epoch>>

\* l.Allow() is l.AllowN(time.Now(), 1).
ReadClock(r) ==
    /\ pc[r] = "now"
    /\ at' = [at EXCEPT ![r] = now]
    /\ Goto(r, "decide")
    /\ UNCHANGED <<now, asked, limiters, buckets, verdict, epoch>>

RefilledBeyondFull(l, t) == \* the tokens not cut at the burst
    tokens[l] + (IF t < last[l] THEN 0 ELSE t - last[l])

\* The tokens l has at t: what was gained since it was brought up to date, up
\* to the burst; nothing is gained by a time before that.
Refilled(l, t) ==
    LET sum == tokens[l] + (IF t < last[l] THEN 0 ELSE t - last[l]) IN
    IF sum > Full THEN Full ELSE sum

\* A token is there: it is taken, and the bucket set to the request's time,
\* even if that is an earlier one.
Allow(r) ==
    LET l == held[r] IN
    /\ pc[r] = "decide"
    /\ Refilled(l, at[r]) >= Period
    /\ tokens' = [tokens EXCEPT ![l] = Refilled(l, at[r]) - Period]
    /\ last' = [last EXCEPT ![l] = at[r]]
    /\ rewound' = [rewound EXCEPT ![l] = IF at[r] < last[l] THEN @ + (last[l] - at[r]) ELSE @]
    /\ verdict' = [verdict EXCEPT ![r] = "allowed"]
    /\ Goto(r, "done")
    /\ UNCHANGED <<now, at, asked, limiters, epoch>>

RefuseWithLastToken(r) == \* > in place of >=
    /\ pc[r] = "decide"
    /\ Refilled(held[r], at[r]) <= Period
    /\ verdict' = [verdict EXCEPT ![r] = "refused"]
    /\ Goto(r, "done")
    /\ UNCHANGED <<now, at, asked, limiters, buckets, epoch>>

\* There is none: the bucket stays as it is.
Refuse(r) ==
    /\ pc[r] = "decide"
    /\ Refilled(held[r], at[r]) < Period
    /\ verdict' = [verdict EXCEPT ![r] = "refused"]
    /\ Goto(r, "done")
    /\ UNCHANGED <<now, at, asked, limiters, buckets, epoch>>

-----------------------------------------------------------------------------
Tick ==
    /\ now < MaxTime
    /\ now' = now + 1
    /\ UNCHANGED <<pc, at, asked, limiters, buckets, verdict, epoch>>

\* The process is started again: its buckets are gone, and so are the requests
\* it was serving.
Restart ==
    /\ \E k \in Keys : limiters[k] # None
    /\ pc' = [r \in Requests |-> IF pc[r] = "idle" THEN "idle" ELSE "done"]
    /\ limiters' = [k \in Keys |-> None]
    /\ epoch' = epoch + 1
    /\ UNCHANGED <<now, at, asked, buckets, verdict>>

Served ==
    /\ \A r \in Requests : pc[r] = "done"
    /\ UNCHANGED vars

Next ==
    \/ \E r \in Requests :
          \/ \E k \in Keys : Lookup(r, k)
          \/ ReadClock(r) \/ Allow(r) \/ Refuse(r)
    \/ Tick
    \/ Restart
    \/ Served

Spec == Init /\ [][Next]_vars

-----------------------------------------------------------------------------
(* Properties.                                                             *)

\* Type invariant of the requests, the map, the limiters and the history.
TypeOK ==
    /\ now \in Time
    /\ pc \in [Requests -> {"idle", "now", "decide", "done"}]
    /\ key \in [Requests -> Keys \cup {None}]
    /\ at \in [Requests -> Time]
    /\ held \in [Requests -> Requests \cup {None}]
    /\ limiters \in [Keys -> Requests \cup {None}]
    /\ last \in [Requests -> Time]
    /\ tokens \in [Requests -> 0 .. Full]
    /\ verdict \in [Requests -> {"none", "allowed", "refused"}]
    /\ epoch \in Nat
    /\ born \in [Requests -> Nat]
    /\ rewound \in [Requests -> Nat]

\* The requests allowed for r's key by the process that served r, with times in
\* a window.
Allowed(r, t, u) ==
    {q \in Requests : /\ verdict[q] = "allowed"
                      /\ key[q] = key[r] /\ born[q] = born[r]
                      /\ t <= at[q] /\ at[q] <= u}

\* However requests race for the map and for the limiter, no window sees more
\* of them allowed than a full bucket and what is refilled while it lasts, and
\* what was refilled twice because a limiter was set back.
GrantsBounded ==
    \A r \in Requests : \A t, u \in Time :
        verdict[r] = "allowed" /\ t <= u =>
            Cardinality(Allowed(r, t, u)) * Period <= Full + (u - t) + rewound[held[r]]

\* And nobody is refused who keeps to that rate: with the refused request, some
\* window that reaches back from it would hold more than a full bucket and what
\* is refilled in it.
RefusalsJustified ==
    \A r \in Requests :
        verdict[r] = "refused" =>
            \E t \in 0 .. at[r] :
                (Cardinality(Allowed(r, t, MaxTime)) + 1) * Period > Full + (at[r] - t)

\* What the documentation says of a limiter: in no minute are more requests let
\* through than are refilled in one.
WithinRate(minute) ==
    \A r \in Requests : \A t \in Time :
        verdict[r] = "allowed" =>
            Cardinality(Allowed(r, t, t + minute - 1)) * Period <= minute
=============================================================================
