------------------------------ MODULE Discovery ------------------------------
(***************************************************************************)
(* Who is shown to whom: the profile, its visibility, the preferences, the *)
(* blocks and the swipes on one side, each written by one statement per    *)
(* request, and GET /v1/discovery on the other, which pages through the    *)
(* profiles that are left by LIMIT and OFFSET, one query per page.         *)
(***************************************************************************)
EXTENDS Naturals, FiniteSets

CONSTANTS
    Users,
    Saves,      \* what PUT /v1/profile may bring: [complete, age]
    Ranges,     \* what PUT /v1/profile/preferences may bring: [min, max]
    Gets,       \* requests for a page
    Viewers,    \* bound: users who ask for pages, prefer and swipe
    Shown,      \* bound: users who save profiles
    Limit,      \* profiles in a full page
    Offsets,    \* the parameter offset
    Overlap,    \* bound: writes a statement may have waited for
    MaxClock,   \* bound: writes, each at a time of its own
    None        \* no row, no birth date

ASSUME UsersAssumption == IsFiniteSet(Users) /\ Viewers \cup Shown \subseteq Users /\ None \notin Users
ASSUME InputsAssumption ==
    /\ Saves \subseteq [complete : BOOLEAN, age : Nat \cup {None}]
    /\ Ranges \subseteq [min : Nat, max : Nat]
    /\ None \notin Ranges \cup Nat
    /\ None \notin [complete : BOOLEAN, visible : BOOLEAN, age : Nat \cup {None}, updated : Nat]
ASSUME PagesAssumption == IsFiniteSet(Gets) /\ Limit \in Nat \ {0} /\ Offsets \subseteq Nat
ASSUME BoundsAssumption == Overlap \in Nat /\ MaxClock \in Nat

Profile == [complete : BOOLEAN, visible : BOOLEAN, age : Nat \cup {None}, updated : Nat]

VARIABLES
    clock,      \* time of the database: the writes so far
    profiles,   \* profiles[u]: the row, with complete for course and campus not empty
    prefs,      \* prefs[u]: the ages of profile_preferences
    blocks,     \* rows <<blocker, blocked>>
    swipes,     \* rows <<actor, target>>
    viewer,     \* viewer[g]: who asks, None before
    offset,     \* offset[g]
    rank,       \* rank[g][u]: the place of u in what the query of g found
    told,       \* history: what was asked, answered and not taken back
    stamp,      \* history, stamp[g][u]: updated_at of u when g was listed
    barred,     \* history, barred[g]: whom an answer kept from g when it was listed
    turn        \* history, turn[g]: the pages listed up to g, 0 before

tables == <<profiles, prefs, blocks, swipes>>
pages == <<viewer, offset, rank, stamp, barred, turn>>
vars == <<clock, tables, pages, told>>

Init ==
    /\ clock = 0
    /\ profiles = [u \in Users |-> None]
    /\ prefs = [u \in Users |-> None]
    /\ blocks = {}
    /\ swipes = {}
    /\ viewer = [g \in Gets |-> None]
    /\ offset = [g \in Gets |-> 0]
    /\ rank = [g \in Gets |-> [u \in {} |-> 0]]
    /\ told = {}
    /\ stamp = [g \in Gets |-> [u \in {} |-> 0]]
    /\ barred = [g \in Gets |-> {}]
    /\ turn = [g \in Gets |-> 0]

-----------------------------------------------------------------------------
(* Writes.  Every applied one is taken to be answered, which binds the     *)
(* pages more than a lost answer would.                                    *)

Write == clock < MaxClock /\ clock' = clock + 1 /\ UNCHANGED pages

\* now() of a statement: when it began, which may be before the write of the
\* same row it waited for.
Stamps == {t \in 1 .. clock + 1 : t + Overlap > clock}

Hides(u) == <<"hidden", u, u>>
Bars(a, b) == <<"blocked", a, b>>
Decides(a, b) == <<"decided", a, b>>

\* UpsertProfile: a new row is not visible, an old one stays as it is.
UpsertProfile(u, save) ==
    /\ Write
    /\ \E t \in Stamps :
          profiles' = [profiles EXCEPT ![u] =
              [complete |-> save.complete, age |-> save.age, updated |-> t,
               visible |-> IF profiles[u] = None THEN FALSE ELSE profiles[u].visible]]
    /\ UNCHANGED <<prefs, blocks, swipes, told>>

HideAnyway(u, visible) == \* the condition on course and campus for TRUE only
    /\ Write
    /\ profiles[u] # None
    /\ visible => profiles[u].complete
    /\ \E t \in Stamps :
          profiles' = [profiles EXCEPT ![u] = [@ EXCEPT !.visible = visible, !.updated = t]]
    /\ told' = IF visible THEN told \ {Hides(u)} ELSE told \cup {Hides(u)}
    /\ UNCHANGED <<prefs, blocks, swipes>>

\* UpdateProfileVisibility changes a row with course and campus only; no row
\* changed is answered profile_incomplete, whichever way it was asked.
UpdateProfileVisibility(u, visible) ==
    /\ Write
    /\ profiles[u] # None
    /\ profiles[u].complete
    /\ \E t \in Stamps :
          profiles' = [profiles EXCEPT ![u] = [@ EXCEPT !.visible = visible, !.updated = t]]
    /\ told' = IF visible THEN told \ {Hides(u)} ELSE told \cup {Hides(u)}
    /\ UNCHANGED <<prefs, blocks, swipes>>

PreferencesSwapped(u, range) == \* the arguments in the wrong order
    /\ Write
    /\ prefs' = [prefs EXCEPT ![u] = [min |-> range.max, max |-> range.min]]
    /\ UNCHANGED <<profiles, blocks, swipes, told>>

UpsertPreferences(u, range) ==
    /\ Write
    /\ prefs' = [prefs EXCEPT ![u] = range]
    /\ UNCHANGED <<profiles, blocks, swipes, told>>

BlockUser(a, b) ==
    /\ Write
    /\ a # b
    /\ blocks' = blocks \cup {<<a, b>>}
    /\ told' = told \cup {Bars(a, b)}
    /\ UNCHANGED <<profiles, prefs, swipes>>

UnblockUser(a, b) ==
    /\ Write
    /\ blocks' = blocks \ {<<a, b>>}
    /\ told' = told \ {Bars(a, b)}
    /\ UNCHANGED <<profiles, prefs, swipes>>

\* A committed swipe (module Swipes).  Nobody asks whether the target is
\* visible, was ever shown or is blocked.
Swipe(a, b) ==
    /\ Write
    /\ a # b
    /\ <<a, b>> \notin swipes
    /\ swipes' = swipes \cup {<<a, b>>}
    /\ told' = told \cup {Decides(a, b)}
    /\ UNCHANGED <<profiles, prefs, blocks>>

-----------------------------------------------------------------------------
(* GET /v1/discovery.                                                      *)

BlockedOneWay(v, u) == <<v, u>> \in blocks \* who blocked me would still be shown

Blocked(v, u) == <<v, u>> \in blocks \/ <<u, v>> \in blocks

AgeSuits(v, u) ==
    \/ prefs[v] = None
    \/ profiles[u].age = None
    \/ prefs[v].min <= profiles[u].age /\ profiles[u].age <= prefs[v].max

\* The WHERE of ListDiscoveryProfiles.
Candidates(v) ==
    {u \in Users \ {v} :
        /\ profiles[u] # None
        /\ profiles[u].visible
        /\ <<v, u>> \notin swipes
        /\ ~ Blocked(v, u)
        /\ AgeSuits(v, u)}

Ahead(r, u) == {w \in DOMAIN r : r[w] < r[u]}

Unordered(found) == \* no ORDER BY
    {r \in [found -> 0 .. Cardinality(found)] :
        \A u \in found : r[u] = Cardinality(Ahead(r, u)) /\ \A w \in found : r[w] = r[u] => w = u}

\* ORDER BY updated_at DESC, ties in any order.
Orders(found) ==
    {r \in [found -> 0 .. Cardinality(found)] :
        \A u \in found :
            /\ r[u] = Cardinality(Ahead(r, u))
            /\ \A w \in found :
                  /\ r[w] = r[u] => w = u
                  /\ profiles[w].updated > profiles[u].updated => r[w] < r[u]}

\* The rows of the page: LIMIT rows after OFFSET.
Page(g) == {u \in DOMAIN rank[g] : offset[g] <= rank[g][u] /\ rank[g][u] < offset[g] + Limit}

ListedCount == Cardinality({g \in Gets : turn[g] # 0})

\* The photos of the rows are read next, row by row: that changes nothing, and
\* an error there answers discovery_photos_failed in place of the page.
ListDiscoveryProfiles(g, v, o) ==
    /\ turn[g] = 0
    /\ viewer' = [viewer EXCEPT ![g] = v]
    /\ offset' = [offset EXCEPT ![g] = o]
    /\ \E r \in Orders(Candidates(v)) : rank' = [rank EXCEPT ![g] = r]
    /\ stamp' = [stamp EXCEPT ![g] = [u \in Candidates(v) |-> profiles[u].updated]]
    /\ barred' = [barred EXCEPT ![g] =
          {u \in Users : told \cap {Hides(u), Bars(v, u), Bars(u, v), Decides(v, u)} # {}}]
    /\ turn' = [turn EXCEPT ![g] = ListedCount + 1]
    /\ UNCHANGED <<clock, tables, told>>

\* The bound on writes is reached and every page was listed.
Served ==
    /\ clock = MaxClock /\ \A g \in Gets : turn[g] # 0
    /\ UNCHANGED vars

Next ==
    \/ \E u \in Shown :
          \/ \E save \in Saves : UpsertProfile(u, save)
          \/ \E visible \in BOOLEAN : UpdateProfileVisibility(u, visible)
    \/ \E v \in Viewers :
          \/ \E range \in Ranges : UpsertPreferences(v, range)
          \/ \E u \in Users : Swipe(v, u)
    \/ \E a, b \in Users : BlockUser(a, b) \/ UnblockUser(a, b)
    \/ \E g \in Gets, v \in Viewers, o \in Offsets : ListDiscoveryProfiles(g, v, o)
    \/ Served

Spec == Init /\ [][Next]_vars

-----------------------------------------------------------------------------
(* Properties.                                                             *)

Facts == {"hidden", "blocked", "decided"} \X Users \X Users
\* What the query of g found, its order and the times it was ordered by.
Listing(g) ==
    /\ DOMAIN rank[g] \subseteq Users
    /\ rank[g] \in [DOMAIN rank[g] -> Nat]
    /\ stamp[g] \in [DOMAIN rank[g] -> Nat]

\* Type invariant of the tables, the pages and the history.
TypeOK ==
    /\ clock \in Nat
    /\ profiles \in [Users -> Profile \cup {None}]
    /\ prefs \in [Users -> Ranges \cup {None}]
    /\ blocks \subseteq Users \X Users
    /\ swipes \subseteq Users \X Users
    /\ viewer \in [Gets -> Users \cup {None}]
    /\ offset \in [Gets -> Nat]
    /\ rank \in [Gets -> {rank[g] : g \in Gets}]
    /\ stamp \in [Gets -> {stamp[g] : g \in Gets}]
    /\ \A g \in Gets : Listing(g)
    /\ told \subseteq Facts
    /\ barred \in [Gets -> SUBSET Users]
    /\ turn \in [Gets -> Nat]

\* What somebody was answered binds every page listed afterwards, until they
\* take it back themselves: nobody is shown who was told to be hidden, nobody
\* whom either of the two was told to have blocked (an unblock by the other one
\* changes nothing), and nobody the viewer was told to have decided on.
PagesAsTold == \A g \in Gets : Page(g) \cap barred[g] = {}

\* g asks for the page after that of f.
Continues(g, f) ==
    /\ turn[f] # 0 /\ turn[f] < turn[g]
    /\ viewer[g] = viewer[f]
    /\ offset[g] = offset[f] + Limit

\* u was saved, or shown and hidden again, between the two queries.
Moved(f, g, u) == stamp[f][u] # stamp[g][u]

\* A profile that both queries found, after the page of the first one and before
\* that of the second, so that the viewer never sees it, has moved, or another
\* one that was ahead of it has left or moved or was written at the same time.
\* The viewer's own swipes between two pages are such leaving.
SkipsExplained ==
    \A f, g \in Gets : Continues(g, f) =>
        \A u \in DOMAIN rank[f] \cap DOMAIN rank[g] :
            rank[f][u] >= offset[g] /\ rank[g][u] < offset[g] =>
                \/ Moved(f, g, u)
                \/ \E w \in Ahead(rank[f], u) :
                      w \in DOMAIN rank[g] =>
                          Moved(f, g, w) \/ stamp[f][w] = stamp[f][u]

\* A profile shown on both pages has moved, or another one has come ahead of it
\* or was written at the same time.
RepeatsExplained ==
    \A f, g \in Gets : Continues(g, f) =>
        \A u \in Page(f) \cap Page(g) :
            \/ Moved(f, g, u)
            \/ \E w \in Ahead(rank[g], u) :
                  w \in DOMAIN rank[f] =>
                      Moved(f, g, w) \/ stamp[f][w] = stamp[f][u]

\* A visible profile without course or campus: no request made it visible like
\* that, only a save takes them from a profile that was visible, and only a save
\* that brings them ends it, since hiding is refused.
VisibleIncomplete(u) == profiles[u] # None /\ profiles[u].visible /\ ~ profiles[u].complete
IncompleteBySaveOnly ==
    [][\A u \in Users :
          /\ VisibleIncomplete(u)' /\ ~ VisibleIncomplete(u) =>
                profiles[u] # None /\ profiles[u].visible
          /\ VisibleIncomplete(u) /\ ~ VisibleIncomplete(u)' =>
                profiles'[u].complete /\ profiles'[u].visible]_vars
=============================================================================
