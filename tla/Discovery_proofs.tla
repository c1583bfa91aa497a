--------------------------- MODULE Discovery_proofs ---------------------------
(***************************************************************************)
(* Type correctness of Discovery, what a page may show after an answer,    *)
(* and what may make a walk through the pages skip or repeat a profile, for *)
(* every number of users, pages and writes.                                *)
(***************************************************************************)
EXTENDS Discovery, FiniteSetTheorems, TLAPS

-----------------------------------------------------------------------------
(* The inductive invariant.                                                *)

\* What was answered is what the tables say.
ToldInv ==
    /\ \A u \in Users : Hides(u) \in told => profiles[u] # None /\ ~ profiles[u].visible
    /\ \A a, b \in Users :
          /\ Bars(a, b) \in told => <<a, b>> \in blocks
          /\ Decides(a, b) \in told => <<a, b>> \in swipes

\* No query finds whom an answer kept from it.
BarredInv == \A g \in Gets : DOMAIN rank[g] \cap barred[g] = {}

\* The order of a query is by the times it found, the later first.
OrderInv ==
    \A g \in Gets : \A u \in DOMAIN rank[g] :
        /\ rank[g][u] = Cardinality(Ahead(rank[g], u))
        /\ \A w \in DOMAIN rank[g] :
              /\ rank[g][w] = rank[g][u] => w = u
              /\ stamp[g][w] > stamp[g][u] => rank[g][w] < rank[g][u]

IInv == TypeOK /\ ToldInv /\ BarredInv /\ OrderInv

LEMMA InitInv == Init => IInv
<1> SUFFICES ASSUME Init PROVE IInv
  OBVIOUS
<1> USE DEF Init
<1>1. TypeOK
  <2>1. \A g \in Gets : rank[g] = [u \in {} |-> 0] /\ stamp[g] = [u \in {} |-> 0]
    OBVIOUS
  <2>2. \A g \in Gets : Listing(g)
    BY <2>1 DEF Listing
  <2> QED
    BY <2>2 DEF TypeOK
<1>2. ToldInv
  BY DEF ToldInv
<1>3. BarredInv /\ OrderInv
  BY DEF BarredInv, OrderInv
<1> QED
  BY <1>1, <1>2, <1>3 DEF IInv

-----------------------------------------------------------------------------
(* A write changes no page, and the facts told together with the tables.   *)

LEMMA WriteKeepsPages == ASSUME IInv, Write PROVE BarredInv' /\ OrderInv'
<1>1. rank' = rank /\ stamp' = stamp /\ barred' = barred
  BY DEF Write, pages
<1>2. \A g \in Gets : \A u \in DOMAIN rank[g] : Ahead(rank[g], u)' = Ahead(rank[g], u)
  BY <1>1 DEF Ahead
<1> QED
  BY <1>1, <1>2 DEF IInv, BarredInv, OrderInv

LEMMA WriteKeepsTypes ==
    ASSUME IInv, Write
    PROVE  /\ clock' \in Nat /\ viewer' \in [Gets -> Users \cup {None}]
           /\ offset' \in [Gets -> Nat] /\ rank' \in [Gets -> {rank'[g] : g \in Gets}]
           /\ stamp' \in [Gets -> {stamp'[g] : g \in Gets}]
           /\ (\A g \in Gets : Listing(g)')
           /\ barred' \in [Gets -> SUBSET Users] /\ turn' \in [Gets -> Nat]
<1>1. clock' = clock + 1 /\ UNCHANGED <<viewer, offset, rank, stamp, barred, turn>>
  BY DEF Write, pages
<1>2. \A g \in Gets : Listing(g)'
  BY <1>1 DEF IInv, TypeOK, Listing
<1> QED
  BY <1>1, <1>2 DEF IInv, TypeOK

LEMMA FactsDiffer ==
    ASSUME NEW a, NEW b, NEW c, NEW d
    PROVE  /\ Hides(c) # Bars(a, b) /\ Hides(c) # Decides(a, b) /\ Bars(a, b) # Decides(c, d)
           /\ Hides(a) = Hides(c) => a = c
           /\ Bars(a, b) = Bars(c, d) => a = c /\ b = d
           /\ Decides(a, b) = Decides(c, d) => a = c /\ b = d
  BY DEF Hides, Bars, Decides

LEMMA FactsTyped ==
    ASSUME NEW a \in Users, NEW b \in Users
    PROVE  Hides(a) \in Facts /\ Bars(a, b) \in Facts /\ Decides(a, b) \in Facts
  BY DEF Facts, Hides, Bars, Decides

LEMMA ProfileWrite ==
    ASSUME IInv, Write, NEW u \in Users, NEW p \in Profile,
           profiles' = [profiles EXCEPT ![u] = p],
           UNCHANGED <<prefs, blocks, swipes>>,
           told' \in {told, told \ {Hides(u)}, told \cup {Hides(u)}},
           Hides(u) \in told' => ~ p.visible
    PROVE  IInv'
<1>1. p # None
  BY InputsAssumption DEF Profile
<1>2. ToldInv'
  <2>1. \A v \in Users : profiles'[v] = IF v = u THEN p ELSE profiles[v]
    BY DEF IInv, TypeOK
  <2>2. ASSUME NEW v \in Users, v # u, Hides(v) \in told' PROVE Hides(v) \in told
    BY <2>2, FactsDiffer
  <2>3. ASSUME NEW a \in Users, NEW b \in Users
        PROVE  /\ Bars(a, b) \in told' => Bars(a, b) \in told
               /\ Decides(a, b) \in told' => Decides(a, b) \in told
    BY <2>3, FactsDiffer
  <2> QED
    BY <1>1, <2>1, <2>2, <2>3 DEF IInv, ToldInv
<1>3. TypeOK'
  <2>1. told' \subseteq Facts
    BY FactsTyped DEF IInv, TypeOK
  <2> QED
    BY <2>1, WriteKeepsTypes DEF IInv, TypeOK
<1> QED
  BY <1>2, <1>3, WriteKeepsPages DEF IInv

LEMMA UpsertStep ==
    ASSUME IInv, NEW u \in Shown, NEW save \in Saves, UpsertProfile(u, save) PROVE IInv'
<1>1. PICK t \in Stamps : profiles' = [profiles EXCEPT ![u] =
          [complete |-> save.complete, age |-> save.age, updated |-> t,
           visible |-> IF profiles[u] = None THEN FALSE ELSE profiles[u].visible]]
  BY DEF UpsertProfile
<1> DEFINE p == [complete |-> save.complete, age |-> save.age, updated |-> t,
           visible |-> IF profiles[u] = None THEN FALSE ELSE profiles[u].visible]
<1>2. u \in Users /\ t \in Nat /\ save \in [complete : BOOLEAN, age : Nat \cup {None}]
  BY UsersAssumption, InputsAssumption DEF Stamps, IInv, TypeOK
<1>3. p \in Profile
  BY <1>2 DEF IInv, TypeOK, Profile
<1>4. Hides(u) \in told => ~ p.visible
  BY <1>2 DEF IInv, ToldInv
<1>5. Write /\ told' = told /\ UNCHANGED <<prefs, blocks, swipes>>
  BY DEF UpsertProfile
<1>6. profiles' = [profiles EXCEPT ![u] = p]
  BY <1>1
<1> HIDE DEF p
<1> QED
  BY <1>2, <1>3, <1>4, <1>5, <1>6, ProfileWrite

LEMMA VisibilityStep ==
    ASSUME IInv, NEW u \in Shown, NEW visible \in BOOLEAN, UpdateProfileVisibility(u, visible)
    PROVE  IInv'
<1>1. PICK t \in Stamps :
          profiles' = [profiles EXCEPT ![u] = [@ EXCEPT !.visible = visible, !.updated = t]]
  BY DEF UpdateProfileVisibility
<1> DEFINE p == [profiles[u] EXCEPT !.visible = visible, !.updated = t]
<1>2. u \in Users /\ t \in Nat
  BY UsersAssumption DEF Stamps, IInv, TypeOK
<1>3. profiles[u] \in Profile
  BY <1>2 DEF IInv, TypeOK, UpdateProfileVisibility
<1>4. p \in Profile /\ p.visible = visible
  BY <1>2, <1>3 DEF Profile
<1>5. profiles' = [profiles EXCEPT ![u] = p]
  BY <1>1, <1>2 DEF IInv, TypeOK
<1>6. Write /\ UNCHANGED <<prefs, blocks, swipes>>
  BY DEF UpdateProfileVisibility
<1>7. told' = IF visible THEN told \ {Hides(u)} ELSE told \cup {Hides(u)}
  BY DEF UpdateProfileVisibility
<1> HIDE DEF p
<1>8. Hides(u) \in told' => ~ p.visible
  BY <1>4, <1>7
<1>9. told' \in {told, told \ {Hides(u)}, told \cup {Hides(u)}}
  BY <1>7
<1> QED
  BY <1>2, <1>4, <1>5, <1>6, <1>8, <1>9, ProfileWrite

LEMMA PreferencesStep ==
    ASSUME IInv, NEW v \in Viewers, NEW range \in Ranges, UpsertPreferences(v, range)
    PROVE  IInv'
<1>1. Write /\ UNCHANGED <<profiles, blocks, swipes, told>>
      /\ prefs' = [prefs EXCEPT ![v] = range]
  BY DEF UpsertPreferences
<1>2. TypeOK'
  BY <1>1, WriteKeepsTypes DEF IInv, TypeOK
<1>3. ToldInv'
  BY <1>1 DEF IInv, ToldInv
<1> QED
  BY <1>1, <1>2, <1>3, WriteKeepsPages DEF IInv

LEMMA BlockStep ==
    ASSUME IInv, NEW a \in Users, NEW b \in Users, BlockUser(a, b) PROVE IInv'
<1>1. Write /\ UNCHANGED <<profiles, prefs, swipes>>
      /\ blocks' = blocks \cup {<<a, b>>} /\ told' = told \cup {Bars(a, b)}
  BY DEF BlockUser
<1>2. TypeOK'
  <2>1. told' \subseteq Facts /\ blocks' \subseteq Users \X Users
    BY <1>1, FactsTyped DEF IInv, TypeOK
  <2> QED
    BY <1>1, <2>1, WriteKeepsTypes DEF IInv, TypeOK
<1>3. ToldInv'
  <2>1. ASSUME NEW c \in Users, NEW d \in Users, Bars(c, d) \in told'
        PROVE  <<c, d>> \in blocks'
    BY <1>1, <2>1, FactsDiffer DEF IInv, ToldInv
  <2>2. ASSUME NEW c \in Users, NEW d \in Users
        PROVE  /\ Hides(c) \in told' => Hides(c) \in told
               /\ Decides(c, d) \in told' => Decides(c, d) \in told
    BY <1>1, <2>2, FactsDiffer
  <2> QED
    BY <1>1, <2>1, <2>2 DEF IInv, ToldInv
<1> QED
  BY <1>1, <1>2, <1>3, WriteKeepsPages DEF IInv

LEMMA UnblockStep ==
    ASSUME IInv, NEW a \in Users, NEW b \in Users, UnblockUser(a, b) PROVE IInv'
<1>1. Write /\ UNCHANGED <<profiles, prefs, swipes>>
      /\ blocks' = blocks \ {<<a, b>>} /\ told' = told \ {Bars(a, b)}
  BY DEF UnblockUser
<1>2. TypeOK'
  BY <1>1, WriteKeepsTypes DEF IInv, TypeOK
<1>3. ASSUME NEW c \in Users, NEW d \in Users, Bars(c, d) \in told' PROVE <<c, d>> \in blocks'
  <2>1. <<c, d>> # <<a, b>> /\ <<c, d>> \in blocks
    BY <1>1, <1>3 DEF IInv, ToldInv
  <2> QED
    BY <1>1, <2>1
<1>4. ToldInv'
  BY <1>1, <1>3 DEF IInv, ToldInv
<1> QED
  BY <1>1, <1>2, <1>4, WriteKeepsPages DEF IInv

LEMMA SwipeStep ==
    ASSUME IInv, NEW v \in Viewers, NEW u \in Users, Swipe(v, u) PROVE IInv'
<1>1. Write /\ UNCHANGED <<profiles, prefs, blocks>>
      /\ swipes' = swipes \cup {<<v, u>>} /\ told' = told \cup {Decides(v, u)}
  BY DEF Swipe
<1>2. TypeOK'
  <2>1. told' \subseteq Facts /\ swipes' \subseteq Users \X Users
    BY <1>1, UsersAssumption, FactsTyped DEF IInv, TypeOK
  <2> QED
    BY <1>1, <2>1, WriteKeepsTypes DEF IInv, TypeOK
<1>3. ToldInv'
  <2>1. ASSUME NEW c \in Users, NEW d \in Users, Decides(c, d) \in told'
        PROVE  <<c, d>> \in swipes'
    BY <1>1, <2>1, FactsDiffer DEF IInv, ToldInv
  <2>2. ASSUME NEW c \in Users, NEW d \in Users
        PROVE  /\ Hides(c) \in told' => Hides(c) \in told
               /\ Bars(c, d) \in told' => Bars(c, d) \in told
    BY <1>1, <2>2, FactsDiffer
  <2> QED
    BY <1>1, <2>1, <2>2 DEF IInv, ToldInv
<1> QED
  BY <1>1, <1>2, <1>3, WriteKeepsPages DEF IInv

-----------------------------------------------------------------------------
(* A page.                                                                 *)

LEMMA ListStep ==
    ASSUME IInv, NEW h \in Gets, NEW v \in Viewers, NEW o \in Offsets,
           ListDiscoveryProfiles(h, v, o)
    PROVE  IInv'
<1>1. PICK r \in Orders(Candidates(v)) : rank' = [rank EXCEPT ![h] = r]
  BY DEF ListDiscoveryProfiles
<1> DEFINE found == Candidates(v)
           s == [u \in found |-> profiles[u].updated]
           kept == {u \in Users : told \cap {Hides(u), Bars(v, u), Bars(u, v), Decides(v, u)} # {}}
<1>2. stamp' = [stamp EXCEPT ![h] = s] /\ barred' = [barred EXCEPT ![h] = kept]
      /\ viewer' = [viewer EXCEPT ![h] = v] /\ offset' = [offset EXCEPT ![h] = o]
      /\ turn' = [turn EXCEPT ![h] = ListedCount + 1]
      /\ UNCHANGED <<clock, profiles, prefs, blocks, swipes, told>>
  BY DEF ListDiscoveryProfiles, tables
<1>3. v \in Users /\ o \in Nat /\ ListedCount \in Nat
  <2>1. IsFiniteSet({g \in Gets : turn[g] # 0})
    BY PagesAssumption, FS_Subset
  <2> QED
    BY <2>1, UsersAssumption, PagesAssumption, FS_CardinalityType DEF ListedCount
<1>4. found \subseteq Users /\ IsFiniteSet(found) /\ Cardinality(found) \in Nat
  BY UsersAssumption, FS_Subset, FS_CardinalityType DEF Candidates
<1>5. r \in [found -> Nat]
  BY <1>4 DEF Orders
<1>6. \A u \in found : profiles[u] \in Profile /\ profiles[u].visible
  BY DEF Candidates, IInv, TypeOK
<1>7. s \in [found -> Nat]
  BY <1>6 DEF Profile
<1>8. found \cap kept = {}
  BY <1>3, <1>6 DEF Candidates, Blocked, IInv, ToldInv
<1>9. \A u \in found : /\ r[u] = Cardinality(Ahead(r, u))
                       /\ \A w \in found : /\ r[w] = r[u] => w = u
                                           /\ s[w] > s[u] => r[w] < r[u]
  BY DEF Orders
<1> HIDE DEF found, s, kept
<1>10. \A g \in Gets : /\ rank'[g] = IF g = h THEN r ELSE rank[g]
                       /\ stamp'[g] = IF g = h THEN s ELSE stamp[g]
                       /\ barred'[g] = IF g = h THEN kept ELSE barred[g]
  BY <1>1, <1>2 DEF IInv, TypeOK
<1>11. DOMAIN r = found
  BY <1>5
<1>12. TypeOK'
  <2>1. \A g \in Gets : Listing(g)'
    BY <1>4, <1>5, <1>7, <1>10, <1>11 DEF Listing, IInv, TypeOK
  <2>2. kept \subseteq Users
    BY DEF kept
  <2>3. /\ viewer' \in [Gets -> Users \cup {None}] /\ offset' \in [Gets -> Nat]
        /\ barred' \in [Gets -> SUBSET Users] /\ turn' \in [Gets -> Nat]
    BY <1>2, <1>3, <2>2 DEF IInv, TypeOK
  <2>4. /\ rank' \in [Gets -> {rank'[g] : g \in Gets}]
        /\ stamp' \in [Gets -> {stamp'[g] : g \in Gets}]
    BY <1>1, <1>2 DEF IInv, TypeOK
  <2> QED
    BY <1>2, <2>1, <2>3, <2>4 DEF IInv, TypeOK
<1>13. ToldInv'
  BY <1>2 DEF IInv, ToldInv
<1>14. BarredInv'
  BY <1>8, <1>10, <1>11 DEF IInv, BarredInv
<1>15. OrderInv'
  <2> SUFFICES ASSUME NEW g \in Gets, NEW u \in DOMAIN rank'[g]
               PROVE  /\ rank'[g][u] = Cardinality(Ahead(rank'[g], u))
                      /\ \A w \in DOMAIN rank'[g] :
                            /\ rank'[g][w] = rank'[g][u] => w = u
                            /\ stamp'[g][w] > stamp'[g][u] => rank'[g][w] < rank'[g][u]
    BY DEF OrderInv, Ahead
  <2>1. CASE g = h
    BY <1>9, <1>10, <1>11, <2>1
  <2>2. CASE g # h
    BY <1>10, <2>2 DEF IInv, OrderInv
  <2> QED
    BY <2>1, <2>2
<1> QED
  BY <1>12, <1>13, <1>14, <1>15 DEF IInv

LEMMA Stutter == ASSUME IInv, UNCHANGED vars PROVE IInv'
<1>1. OrderInv'
  <2>1. rank' = rank /\ stamp' = stamp
    BY DEF vars, pages
  <2>2. \A g \in Gets : \A u \in DOMAIN rank[g] : Ahead(rank[g], u)' = Ahead(rank[g], u)
    BY <2>1 DEF Ahead
  <2> QED
    BY <2>1, <2>2 DEF IInv, OrderInv
<1>2. TypeOK'
  <2>1. /\ UNCHANGED <<clock, profiles, prefs, blocks, swipes, told>>
        /\ UNCHANGED <<viewer, offset, rank, stamp, barred, turn>>
    BY DEF vars, pages, tables
  <2>2. \A g \in Gets : Listing(g)'
    BY <2>1 DEF IInv, TypeOK, Listing
  <2>3. /\ rank' \in [Gets -> {rank'[g] : g \in Gets}]
        /\ stamp' \in [Gets -> {stamp'[g] : g \in Gets}]
    BY <2>1 DEF IInv, TypeOK
  <2> QED
    BY <2>1, <2>2, <2>3 DEF IInv, TypeOK
<1>3. ToldInv' /\ BarredInv'
  BY DEF vars, pages, tables, IInv, ToldInv, BarredInv
<1> QED
  BY <1>1, <1>2, <1>3 DEF IInv

LEMMA Inductive == Spec => []IInv
<1>1. ASSUME IInv, [Next]_vars PROVE IInv'
  <2>1. ASSUME NEW u \in Shown, NEW save \in Saves, UpsertProfile(u, save) PROVE IInv'
    BY <1>1, <2>1, UpsertStep
  <2>2. ASSUME NEW u \in Shown, NEW visible \in BOOLEAN, UpdateProfileVisibility(u, visible)
        PROVE  IInv'
    BY <1>1, <2>2, VisibilityStep
  <2>3. ASSUME NEW v \in Viewers, NEW range \in Ranges, UpsertPreferences(v, range)
        PROVE  IInv'
    BY <1>1, <2>3, PreferencesStep
  <2>4. ASSUME NEW v \in Viewers, NEW u \in Users, Swipe(v, u) PROVE IInv'
    BY <1>1, <2>4, SwipeStep
  <2>5. ASSUME NEW a \in Users, NEW b \in Users, BlockUser(a, b) \/ UnblockUser(a, b)
        PROVE  IInv'
    BY <1>1, <2>5, BlockStep, UnblockStep
  <2>6. ASSUME NEW g \in Gets, NEW v \in Viewers, NEW o \in Offsets,
               ListDiscoveryProfiles(g, v, o)
        PROVE  IInv'
    BY <1>1, <2>6, ListStep
  <2>7. CASE UNCHANGED vars
    BY <1>1, <2>7, Stutter
  <2> QED
    BY <1>1, <2>1, <2>2, <2>3, <2>4, <2>5, <2>6, <2>7 DEF Next, Served
<1> QED
  BY <1>1, InitInv, PTL DEF Spec

-----------------------------------------------------------------------------
(* The theorems.                                                           *)

\* The tables, the pages and the history have their types.
THEOREM TypeCorrect == Spec => []TypeOK
<1>1. IInv => TypeOK
  BY DEF IInv
<1> QED
  BY <1>1, Inductive, PTL

\* No page of GET /v1/discovery shows whom an earlier answer, not taken back by
\* the one who got it, keeps from the viewer.
THEOREM PagesAreAsTold == Spec => []PagesAsTold
<1>1. IInv => PagesAsTold
  BY DEF IInv, BarredInv, PagesAsTold, Page
<1> QED
  BY <1>1, Inductive, PTL

\* The places of a query are those from 0 on, none left out.
LEMMA EveryPlaceTaken ==
    ASSUME IInv, NEW g \in Gets, NEW u \in DOMAIN rank[g], NEW k \in 0 .. rank[g][u]
    PROVE  \E w \in DOMAIN rank[g] : rank[g][w] = k
<1> DEFINE r == rank[g]
           found == DOMAIN r
           n == Cardinality(found)
<1>1. /\ found \subseteq Users /\ IsFiniteSet(found) /\ n \in Nat
      /\ r \in [found -> Nat]
  BY UsersAssumption, FS_Subset, FS_CardinalityType DEF IInv, TypeOK, Listing
<1>2. \A w \in found : r[w] = Cardinality(Ahead(r, w)) /\ \A x \in found : r[x] = r[w] => x = w
  BY DEF IInv, OrderInv
<1>3. ASSUME NEW w \in found PROVE r[w] \in 0 .. n - 1
  <2>1. Ahead(r, w) \subseteq found \ {w}
    BY <1>1 DEF Ahead
  <2>2. IsFiniteSet(found \ {w}) /\ Cardinality(found \ {w}) = n - 1
    BY <1>1, FS_RemoveElement
  <2>3. Cardinality(Ahead(r, w)) <= n - 1
    BY <2>1, <2>2, FS_Subset
  <2> QED
    BY <1>1, <1>2, <2>3
<1>4. IsFiniteSet(0 .. n - 1) /\ Cardinality(0 .. n - 1) = n /\ Cardinality(found) = n
  <2>1. 0 \in Int /\ n - 1 \in Int /\ n \in Nat
    BY <1>1
  <2> HIDE DEF n
  <2>2. IsFiniteSet(0 .. n - 1) /\ Cardinality(0 .. n - 1) = n
    BY <2>1, FS_Interval
  <2> QED
    BY <2>2 DEF n
<1> HIDE DEF r, found, n
<1>5. r \in Injection(found, 0 .. n - 1)
  BY <1>1, <1>2, <1>3 DEF Injection, IsInjective
<1>6. r \in Surjection(found, 0 .. n - 1)
  BY <1>1, <1>4, <1>5, FS_Injection
<1>7. k \in 0 .. n - 1
  BY <1>1, <1>3 DEF r, found
<1> QED
  BY <1>6, <1>7 DEF Surjection, r, found

\* A page with fewer profiles than asked for is the last one.
ShortIsLast ==
    \A g \in Gets : Cardinality(Page(g)) < Limit =>
        \A u \in DOMAIN rank[g] : rank[g][u] < offset[g] + Limit

\* Pages are full as long as there is anybody left: a client that stops at the
\* first short page has not stopped early, whatever ties and writes did to the
\* order. (The code answers no total, a short page is all a client goes by.)
THEOREM ShortPagesAreLast == Spec => []ShortIsLast
<1>1. IInv => ShortIsLast
  <2> SUFFICES ASSUME IInv, NEW g \in Gets, Cardinality(Page(g)) < Limit,
                      NEW u \in DOMAIN rank[g], ~ (rank[g][u] < offset[g] + Limit)
               PROVE  FALSE
    BY DEF ShortIsLast
  <2> DEFINE o == offset[g]
             places == o .. o + Limit - 1
             f == [k \in places |-> CHOOSE w \in DOMAIN rank[g] : rank[g][w] = k]
  <2>1. /\ o \in Nat /\ Limit \in Nat \ {0} /\ rank[g][u] \in Nat
        /\ DOMAIN rank[g] \subseteq Users
    BY PagesAssumption DEF IInv, TypeOK, Listing
  <2>2. ASSUME NEW k \in places
        PROVE  f[k] \in DOMAIN rank[g] /\ rank[g][f[k]] = k
    <3>1. \E w \in DOMAIN rank[g] : rank[g][w] = k
      BY <2>1, EveryPlaceTaken
    <3> QED
      BY <3>1
  <2>3. IsFiniteSet(Page(g)) /\ Cardinality(Page(g)) \in Nat
    BY <2>1, UsersAssumption, FS_Subset, FS_CardinalityType DEF Page
  <2>4. Cardinality(places) = Limit
    <3>1. o \in Int /\ o + Limit - 1 \in Int
      BY <2>1
    <3>2. Cardinality(places) = IF o > o + Limit - 1 THEN 0 ELSE (o + Limit - 1) - o + 1
      BY <3>1, FS_Interval
    <3> QED
      BY <2>1, <3>2
  <2>5. f \in Injection(places, Page(g))
    <3> HIDE DEF f
    <3>1. ASSUME NEW k \in places PROVE f[k] \in Page(g)
      <4>1. o <= k /\ k < o + Limit
        BY <2>1
      <4> QED
        BY <2>2, <4>1 DEF Page
    <3>2. \A k, l \in places : f[k] = f[l] => k = l
      BY <2>2
    <3>3. f = [k \in places |-> f[k]]
      BY DEF f
    <3> QED
      BY <3>1, <3>2, <3>3 DEF Injection, IsInjective
  <2> HIDE DEF f, places
  <2>6. Cardinality(places) <= Cardinality(Page(g))
    BY <2>3, <2>5, FS_Injection
  <2> QED
    BY <2>1, <2>3, <2>4, <2>6
<1> QED
  BY <1>1, Inductive, PTL

\* Of two sets of users, one with fewer does not include the other.
LEMMA SomeoneLeft ==
    ASSUME NEW S \in SUBSET Users, NEW T \in SUBSET Users, Cardinality(S) > Cardinality(T)
    PROVE  \E w \in S : w \notin T
<1>1. IsFiniteSet(S) /\ IsFiniteSet(T) /\ Cardinality(S) \in Nat /\ Cardinality(T) \in Nat
  BY UsersAssumption, FS_Subset, FS_CardinalityType
<1>2. S \subseteq T => Cardinality(S) <= Cardinality(T)
  BY <1>1, FS_Subset
<1> QED
  BY <1>1, <1>2

\* Who is ahead of u in one list and not in another one that has u nearer to its
\* start, and moved in neither, was written when u was.
LEMMA Overtaken ==
    ASSUME IInv, NEW f \in Gets, NEW g \in Gets,
           NEW u \in DOMAIN rank[f] \cap DOMAIN rank[g], rank[f][u] > rank[g][u]
    PROVE  \E w \in Ahead(rank[f], u) :
              w \in DOMAIN rank[g] =>
                 \/ stamp[f][w] # stamp[g][w] \/ stamp[f][u] # stamp[g][u]
                 \/ stamp[f][w] = stamp[f][u] /\ stamp[g][w] = stamp[g][u]
<1>1. /\ rank[f][u] = Cardinality(Ahead(rank[f], u))
      /\ rank[g][u] = Cardinality(Ahead(rank[g], u))
  BY DEF IInv, OrderInv
<1>2. Listing(f) /\ Listing(g)
  BY DEF IInv, TypeOK
<1>3. Ahead(rank[f], u) \subseteq Users /\ Ahead(rank[g], u) \subseteq Users
  BY <1>2 DEF Ahead, Listing
<1>4. PICK w \in Ahead(rank[f], u) : w \notin Ahead(rank[g], u)
  BY <1>1, <1>3, SomeoneLeft
<1>5. w \in DOMAIN rank[f] /\ rank[f][w] < rank[f][u]
  BY <1>4 DEF Ahead
<1>6. ASSUME w \in DOMAIN rank[g], stamp[f][w] = stamp[g][w], stamp[f][u] = stamp[g][u]
      PROVE  stamp[f][w] = stamp[f][u] /\ stamp[g][w] = stamp[g][u]
  <2>1. ~ (rank[g][w] < rank[g][u])
    BY <1>4, <1>6 DEF Ahead
  <2>2. ~ (stamp[g][w] > stamp[g][u])
    BY <1>6, <2>1 DEF IInv, OrderInv
  <2>3. ~ (rank[f][u] < rank[f][w])
    BY <1>2, <1>5 DEF Listing
  <2>4. ~ (stamp[f][u] > stamp[f][w])
    BY <1>5, <2>3 DEF IInv, OrderInv
  <2>5. /\ stamp[f][w] \in Nat /\ stamp[f][u] \in Nat
        /\ stamp[g][w] \in Nat /\ stamp[g][u] \in Nat
    BY <1>2, <1>5, <1>6 DEF Listing
  <2> QED
    BY <1>6, <2>2, <2>4, <2>5
<1> QED
  BY <1>4, <1>6

\* A profile that slips from after one page to before the next has moved, or one
\* ahead of it left, moved, or has the same updated_at.
THEOREM SkipsAreExplained == Spec => []SkipsExplained
<1>1. IInv => SkipsExplained
  <2> SUFFICES ASSUME IInv, NEW f \in Gets, NEW g \in Gets, Continues(g, f),
                      NEW u \in DOMAIN rank[f] \cap DOMAIN rank[g],
                      rank[f][u] >= offset[g], rank[g][u] < offset[g]
               PROVE  \/ Moved(f, g, u)
                      \/ \E w \in Ahead(rank[f], u) :
                            w \in DOMAIN rank[g] =>
                                Moved(f, g, w) \/ stamp[f][w] = stamp[f][u]
    BY DEF SkipsExplained
  <2>1. rank[f][u] \in Nat /\ rank[g][u] \in Nat /\ offset[g] \in Nat
    BY DEF IInv, TypeOK, Listing
  <2>2. rank[f][u] > rank[g][u]
    BY <2>1
  <2> QED
    BY <2>2, Overtaken DEF Moved
<1> QED
  BY <1>1, Inductive, PTL

\* A profile shown on two pages in a row has moved, or one came ahead of it,
\* moved, or has the same updated_at.
THEOREM RepeatsAreExplained == Spec => []RepeatsExplained
<1>1. IInv => RepeatsExplained
  <2> SUFFICES ASSUME IInv, NEW f \in Gets, NEW g \in Gets, Continues(g, f),
                      NEW u \in Page(f) \cap Page(g)
               PROVE  \/ Moved(f, g, u)
                      \/ \E w \in Ahead(rank[g], u) :
                            w \in DOMAIN rank[f] =>
                                Moved(f, g, w) \/ stamp[f][w] = stamp[f][u]
    BY DEF RepeatsExplained
  <2>1. /\ u \in DOMAIN rank[f] \cap DOMAIN rank[g]
        /\ rank[f][u] < offset[f] + Limit /\ offset[g] <= rank[g][u]
        /\ offset[g] = offset[f] + Limit
    BY DEF Page, Continues
  <2>2. rank[f][u] \in Nat /\ rank[g][u] \in Nat /\ offset[g] \in Nat
    BY <2>1 DEF IInv, TypeOK, Listing
  <2>3. rank[g][u] > rank[f][u]
    BY <2>1, <2>2
  <2>4. \E w \in Ahead(rank[g], u) :
              w \in DOMAIN rank[f] =>
                 \/ stamp[g][w] # stamp[f][w] \/ stamp[g][u] # stamp[f][u]
                 \/ stamp[g][w] = stamp[g][u] /\ stamp[f][w] = stamp[f][u]
    BY <2>1, <2>3, Overtaken
  <2> QED
    BY <2>4 DEF Moved
<1> QED
  BY <1>1, Inductive, PTL

\* No request makes a profile visible without course and campus, and only a save
\* that brings them ends such a state.
THEOREM IncompleteComesBySaveOnly == Spec => IncompleteBySaveOnly
<1>1. ASSUME IInv, Next, NEW x \in Users
      PROVE  /\ VisibleIncomplete(x)' /\ ~ VisibleIncomplete(x) =>
                   profiles[x] # None /\ profiles[x].visible
             /\ VisibleIncomplete(x) /\ ~ VisibleIncomplete(x)' =>
                   profiles'[x].complete /\ profiles'[x].visible
  <2>1. ASSUME NEW u \in Shown, NEW save \in Saves, UpsertProfile(u, save)
        PROVE  \/ profiles'[x] = profiles[x]
               \/ /\ profiles'[x] # None
                  /\ profiles'[x].visible <=> profiles[x] # None /\ profiles[x].visible
    <3>1. PICK t \in Stamps : profiles' = [profiles EXCEPT ![u] =
              [complete |-> save.complete, age |-> save.age, updated |-> t,
               visible |-> IF profiles[u] = None THEN FALSE ELSE profiles[u].visible]]
      BY <2>1 DEF UpsertProfile
    <3>2. t \in Nat /\ u \in Users /\ save \in [complete : BOOLEAN, age : Nat \cup {None}]
      BY <1>1, UsersAssumption, InputsAssumption DEF Stamps, IInv, TypeOK
    <3>3. profiles'[u] \in Profile
      <4>1. [complete |-> save.complete, age |-> save.age, updated |-> t,
             visible |-> IF profiles[u] = None THEN FALSE ELSE profiles[u].visible] \in Profile
        BY <1>1, <3>2 DEF IInv, TypeOK, Profile
      <4> QED
        BY <1>1, <3>1, <3>2, <4>1 DEF IInv, TypeOK
    <3>4. profiles'[u] # None
      BY <3>3, InputsAssumption DEF Profile
    <3>5. profiles'[u].visible = IF profiles[u] = None THEN FALSE ELSE profiles[u].visible
      BY <1>1, <3>1, <3>2 DEF IInv, TypeOK
    <3>6. x # u => profiles'[x] = profiles[x]
      BY <1>1, <3>1 DEF IInv, TypeOK
    <3> QED
      BY <3>4, <3>5, <3>6
  <2>2. ASSUME NEW u \in Shown, NEW visible \in BOOLEAN, UpdateProfileVisibility(u, visible)
        PROVE  \/ profiles'[x] = profiles[x]
               \/ /\ profiles[x] # None /\ profiles[x].complete
                  /\ profiles'[x].complete
    <3>1. PICK t \in Stamps :
              profiles' = [profiles EXCEPT ![u] = [@ EXCEPT !.visible = visible, !.updated = t]]
      BY <2>2 DEF UpdateProfileVisibility
    <3>2. profiles[u] # None /\ profiles[u].complete /\ u \in Users
      BY <2>2, UsersAssumption DEF UpdateProfileVisibility
    <3>3. profiles[u] \in Profile
      BY <1>1, <3>2 DEF IInv, TypeOK
    <3>4. profiles'[u].complete
      BY <1>1, <3>1, <3>2, <3>3 DEF IInv, TypeOK, Profile
    <3>5. x # u => profiles'[x] = profiles[x]
      BY <1>1, <3>1 DEF IInv, TypeOK
    <3> QED
      BY <3>2, <3>4, <3>5
  <2>3. ASSUME UNCHANGED profiles PROVE profiles'[x] = profiles[x]
    BY <2>3
  <2>4. \/ \E u \in Shown : \/ \E save \in Saves : UpsertProfile(u, save)
                            \/ \E visible \in BOOLEAN : UpdateProfileVisibility(u, visible)
        \/ UNCHANGED profiles
    BY <1>1 DEF Next, UpsertPreferences, Swipe, BlockUser, UnblockUser,
                ListDiscoveryProfiles, Served, vars, tables
  <2>5. CASE profiles'[x] = profiles[x]
    BY <2>5 DEF VisibleIncomplete
  <2>6. CASE \E u \in Shown : \E save \in Saves : UpsertProfile(u, save)
    BY <2>1, <2>5, <2>6 DEF VisibleIncomplete
  <2>7. CASE \E u \in Shown : \E visible \in BOOLEAN : UpdateProfileVisibility(u, visible)
    BY <2>2, <2>5, <2>7 DEF VisibleIncomplete
  <2> QED
    BY <2>3, <2>4, <2>5, <2>6, <2>7
<1>2. IInv /\ [Next]_vars =>
        [\A u \in Users :
          /\ VisibleIncomplete(u)' /\ ~ VisibleIncomplete(u) =>
                profiles[u] # None /\ profiles[u].visible
          /\ VisibleIncomplete(u) /\ ~ VisibleIncomplete(u)' =>
                profiles'[u].complete /\ profiles'[u].visible]_vars
  BY <1>1
<1> QED
  BY <1>2, Inductive, PTL DEF Spec, IncompleteBySaveOnly
=============================================================================
