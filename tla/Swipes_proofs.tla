--------------------------- MODULE Swipes_proofs ---------------------------
(***************************************************************************)
(* Theorems about Swipes, for every set of users and requests.             *)
(*                                                                         *)
(* The properties are about committed rows; the inductive invariant IInv   *)
(* says what holds of the rows of open transactions too: which rows a      *)
(* transaction has at each point of recordSwipe, that the two ON CONFLICT  *)
(* clauses never find a row, and that whoever is past the reciprocal query *)
(* went for a match exactly when the history says there was one to make.   *)
(***************************************************************************)
EXTENDS Swipes, TLAPS

BeforeInsert == {"idle", "insert"}
BeforeMatch == BeforeInsert \cup {"reciprocal", "match"}
BeforeConversation == BeforeMatch \cup {"conversation"}
BeforeMembers == BeforeConversation \cup {"members"}

\* The state of the transaction at each point of the handler.
TransactionInv ==
    \A r \in Requests :
        /\ pc[r] = "idle" => tx[r] = "none"
        /\ pc[r] \in Querying <=> tx[r] = "open"
        /\ pc[r] \in Publishing => tx[r] = "committed"
        /\ tx[r] # "none" => req[r] \in SwipeRequest /\ req[r].actor # req[r].target
        /\ pc[r] \in {"reciprocal", "match", "conversation", "members"} \cup Publishing
              => req[r].action = "like"

\* Which rows a transaction has inserted, and that no upsert found a row: a
\* match row and a conversation row carry the name of the request that uses
\* them.
RowsInv ==
    \A r \in Requests :
        /\ r \in swipes <=> tx[r] \in {"open", "committed"} /\ pc[r] # "insert"
        /\ r \in swipes => req[r].target \in Users
        /\ r \in matches <=> r \in swipes /\ matchID[r] = r
        /\ r \in conversations <=> r \in swipes /\ conversationID[r] = r
        /\ matchID[r] \in {r, Nil} /\ conversationID[r] \in {r, Nil}
        /\ pc[r] \in BeforeMatch => matchID[r] = Nil
        /\ pc[r] \in BeforeConversation => conversationID[r] = Nil
        /\ pc[r] \in {"conversation", "members"} \cup Publishing => matchID[r] = r
        /\ pc[r] = "members" => conversationID[r] = r
        /\ (pc[r] = "commit" \/ tx[r] = "committed") /\ matchID[r] = r => conversationID[r] = r
        /\ conversationID[r] = r => matchID[r] = r
        /\ matchID[r] = r => req[r].action = "like"

MemberOf(r, u) == [conversation |-> r, user |-> u, by |-> r]

\* The rows of conversation_members are the two users of each conversation,
\* once its transaction has inserted them.
MembersInv ==
    /\ \A x \in members :
          /\ x.by \in conversations
          /\ x.conversation = x.by
          /\ x.user \in Pair(x.by)
          /\ pc[x.by] \notin BeforeMembers
    /\ \A r \in conversations :
          pc[r] # "members" => \A u \in Pair(r) : MemberOf(r, u) \in members

\* UNIQUE (actor_user_id, target_user_id), for open transactions too.
UniqueSwipes == \A p, q \in swipes : SameKey(p, q) => p = q

\* Past its reciprocal query with a positive answer.
Matching(r) == pc[r] = "match" \/ r \in matches

\* The like that was answered is committed.
MatchInv == \A r \in Requests : Matching(r) => \E q \in Committed(swipes) : Answers(q, r)

\* Two transactions never make a match for the same two users.
OneMatching ==
    \A p, q \in Requests : Matching(p) /\ Matching(q) /\ MatchKey(p) = MatchKey(q) => p = q

\* What was committed before a like's insert is not overlooked.
HistoryInv ==
    /\ \A r \in Requests : pc[r] \in BeforeInsert => before[r] = {}
    /\ \A p \in swipes : \A q \in before[p] :
          /\ q \in Committed(swipes)
          /\ Mutual(p, q) /\ pc[p] # "reciprocal" => Matching(p)

\* Events name the rows of the request that published them.
EventsInv ==
    /\ \A e \in published :
          /\ e.match = e.by /\ e.conversation = e.by
          /\ e.by \in Committed(matches)
          /\ e.by \in conversations
          /\ \/ e.to = req[e.by].actor /\ e.partner \in {req[e.by].target, Nil}
                  /\ pc[e.by] # "notify_actor"
             \/ e.to = req[e.by].target /\ e.partner \in {req[e.by].actor, Nil}
                  /\ pc[e.by] = "done"
    /\ \A e, f \in published : e.by = f.by /\ e.to = f.to => e = f

\* An answer is the last thing a request does, and it is true.
RepliesInv ==
    /\ \A r \in Requests : reply[r] # "none" => pc[r] = "done"
    /\ RepliesTruthful

IInv ==
    /\ TypeOK
    /\ TransactionInv
    /\ RowsInv
    /\ MembersInv
    /\ UniqueSwipes
    /\ MatchInv
    /\ OneMatching
    /\ HistoryInv
    /\ EventsInv
    /\ RepliesInv

-----------------------------------------------------------------------------
(* Type correctness.                                                       *)

\* A step is one request's step, the crash, or nothing at all.
LEMMA NextCases ==
    ASSUME [Next]_vars
    PROVE  \/ \E r \in Requests, a \in Users, t \in Ids : Refuse(r, a, t)
           \/ \E r \in Requests, a \in Users, t \in Ids, d \in Actions : BeginTx(r, a, t, d)
           \/ \E r \in Requests : Handle(r) \/ Disturb(r)
           \/ Crash
           \/ UNCHANGED vars
BY DEF Next, Receive, Served

\* The initial state has the types.
LEMMA TypeOKInit == Init => TypeOK
BY DEF Init, TypeOK, PC, Replies, RowNames

\* No step leaves the types.
LEMMA TypeOKNext == TypeOK /\ TransactionInv /\ RowsInv /\ [Next]_vars => TypeOK'
<1> SUFFICES ASSUME TypeOK, TransactionInv, RowsInv, [Next]_vars
             PROVE  TypeOK'
    OBVIOUS
<1> USE DEF TypeOK, PC, Querying, Publishing, Replies, Refusals, RowNames, Goto,
        Answer
<1>1. ASSUME NEW r \in Requests, NEW a \in Users, NEW t \in Ids, Refuse(r, a, t)
      PROVE  TypeOK'
    BY <1>1 DEF Refuse, rows, locals
<1>2. ASSUME NEW r \in Requests, NEW a \in Users, NEW t \in Ids, NEW d \in Actions,
             BeginTx(r, a, t, d)
      PROVE  TypeOK'
    BY <1>2 DEF BeginTx, rows, locals, SwipeRequest
<1>3. ASSUME NEW r \in Requests, CreateSwipe(r)
      PROVE  TypeOK'
    BY <1>3 DEF CreateSwipe, locals, Committed
<1>4. ASSUME NEW r \in Requests, RejectInsert(r)
      PROVE  TypeOK'
    BY <1>4 DEF RejectInsert, RollBack, locals
<1>5. ASSUME NEW r \in Requests, HasReciprocalLike(r)
      PROVE  TypeOK'
    BY <1>5 DEF HasReciprocalLike, rows, locals
<1>6. ASSUME NEW r \in Requests, UpsertMatch(r)
      PROVE  TypeOK'
    <2>1. Upserted(MatchHolders(r), r) \in Requests
        BY DEF Upserted, MatchHolders
    <2>2. QED
        BY <1>6, <2>1 DEF UpsertMatch
<1>7. ASSUME NEW r \in Requests, UpsertConversationForMatch(r)
      PROVE  TypeOK'
    <2>1. Upserted(ConversationHolders(r), r) \in Requests
        BY DEF Upserted, ConversationHolders
    <2>2. QED
        BY <1>7, <2>1 DEF UpsertConversationForMatch
<1>8. ASSUME NEW r \in Requests, AddConversationMembers(r)
      PROVE  TypeOK'
    <2>1. conversationID[r] \in Requests /\ {req[r].actor, req[r].target} \subseteq Users
        BY <1>8 DEF AddConversationMembers, TransactionInv, RowsInv, SwipeRequest
    <2>2. NewMembers(r) \subseteq MemberRow
        BY <2>1 DEF NewMembers, MemberRow
    <2>3. QED
        BY <1>8, <2>2 DEF AddConversationMembers, locals
<1>9. ASSUME NEW r \in Requests, Commit(r)
      PROVE  TypeOK'
    BY <1>9 DEF Commit, rows, locals
<1>10. ASSUME NEW r \in Requests, Publish(r)
       PROVE  TypeOK'
    <2>1. /\ matchID[r] \in Requests /\ conversationID[r] \in Requests
          /\ {req[r].actor, req[r].target} \subseteq Users
        BY <1>10 DEF Publish, TransactionInv, RowsInv, SwipeRequest
    <2>2. \A partner \in {Partner(r), Nil} : MatchEvent(r, partner) \in Event
        BY <2>1 DEF MatchEvent, Recipient, Partner, Event
    <2>3. QED
        BY <1>10, <2>2 DEF Publish, Published, rows, locals
<1>11. ASSUME NEW r \in Requests, Disturb(r)
       PROVE  TypeOK'
    BY <1>11 DEF Disturb, CommitUnacknowledged, Fail, LosePublish, RollBack,
       Published, rows, locals
<1>12. CASE Crash
    BY <1>12 DEF Crash, locals
<1>13. CASE UNCHANGED vars
    BY <1>13 DEF vars, rows, locals
<1>14. QED
    BY <1>1, <1>2, <1>3, <1>4, <1>5, <1>6, <1>7, <1>8, <1>9, <1>10, <1>11,
       <1>12, <1>13,
       NextCases DEF Handle

-----------------------------------------------------------------------------
(* The transactions and the rows they have inserted.                       *)

\* No step breaks TransactionInv.
LEMMA TransactionInvNext ==
    TypeOK /\ TransactionInv /\ RowsInv /\ [Next]_vars => TransactionInv'
<1> SUFFICES ASSUME TypeOK, TransactionInv, RowsInv, [Next]_vars
             PROVE  TransactionInv'
    OBVIOUS
<1> USE DEF TypeOK, TransactionInv, PC, Querying, Publishing, Goto
<1>1. ASSUME NEW r \in Requests, NEW a \in Users, NEW t \in Ids, Refuse(r, a, t)
      PROVE  TransactionInv'
    BY <1>1 DEF Refuse
<1>2. ASSUME NEW r \in Requests, NEW a \in Users, NEW t \in Ids, NEW d \in Actions,
             BeginTx(r, a, t, d)
      PROVE  TransactionInv'
    BY <1>2 DEF BeginTx, SwipeRequest
<1>3. ASSUME NEW r \in Requests, CreateSwipe(r)
      PROVE  TransactionInv'
    BY <1>3 DEF CreateSwipe
<1>4. ASSUME NEW r \in Requests, RejectInsert(r)
      PROVE  TransactionInv'
    BY <1>4 DEF RejectInsert, RollBack
<1>5. ASSUME NEW r \in Requests, HasReciprocalLike(r)
      PROVE  TransactionInv'
    BY <1>5 DEF HasReciprocalLike
<1>6. ASSUME NEW r \in Requests, UpsertMatch(r)
      PROVE  TransactionInv'
    BY <1>6 DEF UpsertMatch
<1>7. ASSUME NEW r \in Requests, UpsertConversationForMatch(r)
      PROVE  TransactionInv'
    BY <1>7 DEF UpsertConversationForMatch
<1>8. ASSUME NEW r \in Requests, AddConversationMembers(r)
      PROVE  TransactionInv'
    BY <1>8 DEF AddConversationMembers
<1>9. ASSUME NEW r \in Requests, Commit(r)
      PROVE  TransactionInv'
    BY <1>9 DEF Commit, RowsInv
<1>10. ASSUME NEW r \in Requests, Publish(r)
       PROVE  TransactionInv'
    BY <1>10 DEF Publish, Published
<1>11. ASSUME NEW r \in Requests, Disturb(r)
       PROVE  TransactionInv'
    BY <1>11 DEF Disturb, CommitUnacknowledged, Fail, LosePublish, RollBack,
       Published
<1>12. CASE Crash
    BY <1>12 DEF Crash, InFlight, Undone
<1>13. CASE UNCHANGED vars
    BY <1>13 DEF vars
<1>14. QED
    BY <1>1, <1>2, <1>3, <1>4, <1>5, <1>6, <1>7, <1>8, <1>9, <1>10, <1>11,
       <1>12, <1>13,
       NextCases DEF Handle

\* The ON CONFLICT clause of UpsertMatch finds no row.
LEMMA NoMatchHolders ==
    ASSUME TypeOK, RowsInv, OneMatching, NEW r \in Requests, pc[r] = "match"
    PROVE  MatchHolders(r) = {}
<1> SUFFICES ASSUME NEW q \in MatchHolders(r)
             PROVE  FALSE
    OBVIOUS
<1>1. q \in Requests /\ q \in matches /\ MatchKey(q) = MatchKey(r)
    BY DEF MatchHolders, TypeOK
<1>2. q = r
    BY <1>1 DEF OneMatching, Matching
<1>3. matchID[r] = r /\ matchID[r] = Nil
    BY <1>1, <1>2 DEF RowsInv, BeforeMatch
<1>4. QED
    BY <1>3, NilAssumption

\* The ON CONFLICT clause of UpsertConversationForMatch finds no row.
LEMMA NoConversationHolders ==
    ASSUME TypeOK, RowsInv, NEW r \in Requests, pc[r] = "conversation"
    PROVE  ConversationHolders(r) = {}
<1> SUFFICES ASSUME NEW q \in ConversationHolders(r)
             PROVE  FALSE
    OBVIOUS
<1>1. q \in Requests /\ q \in conversations /\ matchID[q] = matchID[r]
    BY DEF ConversationHolders, TypeOK
<1>2. conversationID[q] = q /\ matchID[q] = q /\ matchID[r] = r
    BY <1>1 DEF RowsInv
<1>3. conversationID[r] = Nil
    BY DEF RowsInv, BeforeConversation
<1>4. QED
    BY <1>1, <1>2, <1>3, NilAssumption

\* No step breaks RowsInv.
LEMMA RowsInvNext ==
    TypeOK /\ TransactionInv /\ RowsInv /\ OneMatching /\ [Next]_vars => RowsInv'
<1> SUFFICES ASSUME TypeOK, TransactionInv, RowsInv, OneMatching, [Next]_vars
             PROVE  RowsInv'
    OBVIOUS
<1> USE NilAssumption
    DEF TypeOK, TransactionInv, RowsInv, PC, Querying, Publishing, BeforeInsert, BeforeMatch,
        BeforeConversation, Goto
<1>1. ASSUME NEW r \in Requests, NEW a \in Users, NEW t \in Ids, Refuse(r, a, t)
      PROVE  RowsInv'
    BY <1>1 DEF Refuse, rows, locals
<1>2. ASSUME NEW r \in Requests, NEW a \in Users, NEW t \in Ids, NEW d \in Actions,
             BeginTx(r, a, t, d)
      PROVE  RowsInv'
    BY <1>2 DEF BeginTx, rows, locals
<1>3. ASSUME NEW r \in Requests, CreateSwipe(r)
      PROVE  RowsInv'
    BY <1>3 DEF CreateSwipe, locals
<1>4. ASSUME NEW r \in Requests, RejectInsert(r)
      PROVE  RowsInv'
    BY <1>4 DEF RejectInsert, RollBack, locals
<1>5. ASSUME NEW r \in Requests, HasReciprocalLike(r)
      PROVE  RowsInv'
    BY <1>5 DEF HasReciprocalLike, rows, locals
<1>6. ASSUME NEW r \in Requests, UpsertMatch(r)
      PROVE  RowsInv'
    <2>1. Upserted(MatchHolders(r), r) = r
        BY <1>6, NoMatchHolders DEF UpsertMatch, Upserted
    <2>2. QED
        BY <1>6, <2>1 DEF UpsertMatch
<1>7. ASSUME NEW r \in Requests, UpsertConversationForMatch(r)
      PROVE  RowsInv'
    <2>1. Upserted(ConversationHolders(r), r) = r
        BY <1>7, NoConversationHolders DEF UpsertConversationForMatch, Upserted
    <2>2. QED
        BY <1>7, <2>1 DEF UpsertConversationForMatch
<1>8. ASSUME NEW r \in Requests, AddConversationMembers(r)
      PROVE  RowsInv'
    BY <1>8 DEF AddConversationMembers, locals
<1>9. ASSUME NEW r \in Requests, Commit(r)
      PROVE  RowsInv'
    BY <1>9 DEF Commit, rows, locals
<1>10. ASSUME NEW r \in Requests, Publish(r)
      PROVE  RowsInv'
    BY <1>10 DEF Publish, Published, rows, locals
<1>11. ASSUME NEW r \in Requests, Disturb(r)
      PROVE  RowsInv'
    BY <1>11 DEF Disturb, CommitUnacknowledged, Fail, LosePublish, RollBack,
       Published, rows, locals
<1>12. CASE Crash
    BY <1>12 DEF Crash, InFlight, Undone, locals
<1>13. CASE UNCHANGED vars
    BY <1>13 DEF vars, rows, locals
<1>14. QED
    BY <1>1, <1>2, <1>3, <1>4, <1>5, <1>6, <1>7, <1>8, <1>9, <1>10, <1>11,
       <1>12, <1>13,
       NextCases DEF Handle

\* No step breaks UniqueSwipes.
LEMMA UniqueSwipesNext ==
    TypeOK /\ TransactionInv /\ RowsInv /\ UniqueSwipes
    /\ [Next]_vars => UniqueSwipes'
<1> SUFFICES ASSUME TypeOK, TransactionInv, RowsInv, UniqueSwipes, [Next]_vars
             PROVE  UniqueSwipes'
    OBVIOUS
<1> USE DEF TypeOK, TransactionInv, RowsInv, UniqueSwipes, SameKey, Querying
<1>1. ASSUME NEW r \in Requests, NEW a \in Users, NEW t \in Ids, Refuse(r, a, t)
      PROVE  UniqueSwipes'
    BY <1>1 DEF Refuse, rows, locals
<1>2. ASSUME NEW r \in Requests, NEW a \in Users, NEW t \in Ids, NEW d \in Actions,
             BeginTx(r, a, t, d)
      PROVE  UniqueSwipes'
    BY <1>2 DEF BeginTx, rows, locals
<1>3. ASSUME NEW r \in Requests, CreateSwipe(r)
      PROVE  UniqueSwipes'
    BY <1>3 DEF CreateSwipe, locals, Inserted
<1>4. ASSUME NEW r \in Requests, RejectInsert(r)
      PROVE  UniqueSwipes'
    BY <1>4 DEF RejectInsert, RollBack, locals
<1>5. ASSUME NEW r \in Requests, HasReciprocalLike(r)
      PROVE  UniqueSwipes'
    BY <1>5 DEF HasReciprocalLike, rows, locals
<1>6. ASSUME NEW r \in Requests, UpsertMatch(r)
      PROVE  UniqueSwipes'
    BY <1>6 DEF UpsertMatch
<1>7. ASSUME NEW r \in Requests, UpsertConversationForMatch(r)
      PROVE  UniqueSwipes'
    BY <1>7 DEF UpsertConversationForMatch
<1>8. ASSUME NEW r \in Requests, AddConversationMembers(r)
      PROVE  UniqueSwipes'
    BY <1>8 DEF AddConversationMembers, locals
<1>9. ASSUME NEW r \in Requests, Commit(r)
      PROVE  UniqueSwipes'
    BY <1>9 DEF Commit, rows, locals
<1>10. ASSUME NEW r \in Requests, Publish(r)
      PROVE  UniqueSwipes'
    BY <1>10 DEF Publish, Published, rows, locals
<1>11. ASSUME NEW r \in Requests, Disturb(r)
      PROVE  UniqueSwipes'
    BY <1>11 DEF Disturb, CommitUnacknowledged, Fail, LosePublish, RollBack,
       Published, rows, locals
<1>12. CASE Crash
    BY <1>12 DEF Crash, InFlight, Undone, locals
<1>13. CASE UNCHANGED vars
    BY <1>13 DEF vars, rows, locals
<1>14. QED
    BY <1>1, <1>2, <1>3, <1>4, <1>5, <1>6, <1>7, <1>8, <1>9, <1>10, <1>11,
       <1>12, <1>13,
       NextCases DEF Handle

\* The inserts of the loop add the two users, and both are new.
LEMMA NewMembersArePair ==
    ASSUME TypeOK, RowsInv, MembersInv, NEW r \in Requests, pc[r] = "members"
    PROVE  NewMembers(r) = {MemberOf(r, u) : u \in Pair(r)}
<1>1. conversationID[r] = r
    BY DEF RowsInv
<1>2. \A n \in members : n.conversation # r
    BY DEF MembersInv, BeforeMembers
<1>3. NewMembers(r) = [conversation : {r}, user : Pair(r), by : {r}]
    BY <1>1, <1>2 DEF NewMembers, Pair
<1>4. \A x \in NewMembers(r) : x.user \in Pair(r) /\ x = MemberOf(r, x.user)
    BY <1>3 DEF MemberOf
<1>5. \A u \in Pair(r) : MemberOf(r, u) \in NewMembers(r)
    BY <1>3 DEF MemberOf
<1>6. QED
    BY <1>4, <1>5

\* No step breaks MembersInv.
LEMMA MembersInvNext ==
    TypeOK /\ TransactionInv /\ RowsInv /\ OneMatching /\ MembersInv
    /\ [Next]_vars => MembersInv'
<1> SUFFICES ASSUME TypeOK, TransactionInv, RowsInv, OneMatching, MembersInv,
                 [Next]_vars
             PROVE  MembersInv'
    OBVIOUS
<1> USE NilAssumption
    DEF TypeOK, TransactionInv, RowsInv, MembersInv, MemberOf, MemberRow, Pair, Querying, Publishing,
        BeforeInsert, BeforeMatch, BeforeConversation, BeforeMembers, Goto
<1>1. ASSUME NEW r \in Requests, NEW a \in Users, NEW t \in Ids, Refuse(r, a, t)
      PROVE  MembersInv'
    BY <1>1 DEF Refuse, rows, locals
<1>2. ASSUME NEW r \in Requests, NEW a \in Users, NEW t \in Ids, NEW d \in Actions,
             BeginTx(r, a, t, d)
      PROVE  MembersInv'
    BY <1>2 DEF BeginTx, rows, locals
<1>3. ASSUME NEW r \in Requests, CreateSwipe(r)
      PROVE  MembersInv'
    BY <1>3 DEF CreateSwipe, locals
<1>4. ASSUME NEW r \in Requests, RejectInsert(r)
      PROVE  MembersInv'
    BY <1>4 DEF RejectInsert, RollBack, locals
<1>5. ASSUME NEW r \in Requests, HasReciprocalLike(r)
      PROVE  MembersInv'
    BY <1>5 DEF HasReciprocalLike, rows, locals
<1>6. ASSUME NEW r \in Requests, UpsertMatch(r)
      PROVE  MembersInv'
    BY <1>6 DEF UpsertMatch
<1>7. ASSUME NEW r \in Requests, UpsertConversationForMatch(r)
      PROVE  MembersInv'
    BY <1>7 DEF UpsertConversationForMatch
<1>8. ASSUME NEW r \in Requests, AddConversationMembers(r)
      PROVE  MembersInv'
    <2>1. members' = members \cup {MemberOf(r, u) : u \in Pair(r)}
        BY <1>8, NewMembersArePair DEF AddConversationMembers
    <2>2. r \in conversations
        BY <1>8 DEF AddConversationMembers
    <2>3. QED
        BY <1>8, <2>1, <2>2 DEF AddConversationMembers
<1>9. ASSUME NEW r \in Requests, Commit(r)
      PROVE  MembersInv'
    BY <1>9 DEF Commit, rows, locals
<1>10. ASSUME NEW r \in Requests, Publish(r)
      PROVE  MembersInv'
    BY <1>10 DEF Publish, Published, rows, locals
<1>11. ASSUME NEW r \in Requests, Disturb(r)
      PROVE  MembersInv'
    BY <1>11 DEF Disturb, CommitUnacknowledged, Fail, LosePublish, RollBack,
       Published, rows, locals
<1>12. CASE Crash
    BY <1>12 DEF Crash, InFlight, Undone, locals
<1>13. CASE UNCHANGED vars
    BY <1>13 DEF vars, rows, locals
<1>14. QED
    BY <1>1, <1>2, <1>3, <1>4, <1>5, <1>6, <1>7, <1>8, <1>9, <1>10, <1>11,
       <1>12, <1>13,
       NextCases DEF Handle

-----------------------------------------------------------------------------
(* Matches.                                                                *)

\* normalizePair identifies the two orders of two users and nothing else.
LEMMA NormalizePair ==
    ASSUME NEW a \in Users, NEW b \in Users, NEW c \in Users, NEW d \in Users
    PROVE  normalizePair(a, b) = normalizePair(c, d)
              <=> (a = c /\ b = d) \/ (a = d /\ b = c)
<1>1. a \in Nat /\ b \in Nat /\ c \in Nat /\ d \in Nat
    BY UsersAssumption
<1>2. QED
    BY <1>1 DEF normalizePair

\* The row a positive reciprocal query found is committed, since nobody
\* swipes on themselves.
LEMMA AnswerIsCommitted ==
    ASSUME TypeOK, TransactionInv, NEW r \in Requests, pc[r] = "reciprocal",
           NEW q \in Visible(swipes, r), Answers(q, r)
    PROVE  q \in Committed(swipes)
<1>1. req[r].actor # req[r].target
    BY DEF TransactionInv, Querying
<1>2. q # r
    BY <1>1 DEF Answers
<1>3. QED
    BY <1>2 DEF Visible, Committed

\* No step breaks MatchInv.
LEMMA MatchInvNext ==
    TypeOK /\ TransactionInv /\ RowsInv /\ OneMatching /\ MatchInv
    /\ [Next]_vars => MatchInv'
<1> SUFFICES ASSUME TypeOK, TransactionInv, RowsInv, OneMatching, MatchInv,
                 [Next]_vars
             PROVE  MatchInv'
    OBVIOUS
<1> USE DEF TypeOK, TransactionInv, RowsInv, MatchInv, Matching, Answers,
        Committed, Querying,
        Publishing, Goto
<1>1. ASSUME NEW r \in Requests, NEW a \in Users, NEW t \in Ids, Refuse(r, a, t)
      PROVE  MatchInv'
    BY <1>1 DEF Refuse, rows, locals
<1>2. ASSUME NEW r \in Requests, NEW a \in Users, NEW t \in Ids, NEW d \in Actions,
             BeginTx(r, a, t, d)
      PROVE  MatchInv'
    BY <1>2 DEF BeginTx, rows, locals
<1>3. ASSUME NEW r \in Requests, CreateSwipe(r)
      PROVE  MatchInv'
    BY <1>3 DEF CreateSwipe, locals
<1>4. ASSUME NEW r \in Requests, RejectInsert(r)
      PROVE  MatchInv'
    BY <1>4 DEF RejectInsert, RollBack, locals
<1>5. ASSUME NEW r \in Requests, HasReciprocalLike(r)
      PROVE  MatchInv'
    BY <1>5, AnswerIsCommitted DEF HasReciprocalLike, rows, locals
<1>6. ASSUME NEW r \in Requests, UpsertMatch(r)
      PROVE  MatchInv'
    BY <1>6 DEF UpsertMatch
<1>7. ASSUME NEW r \in Requests, UpsertConversationForMatch(r)
      PROVE  MatchInv'
    BY <1>7 DEF UpsertConversationForMatch
<1>8. ASSUME NEW r \in Requests, AddConversationMembers(r)
      PROVE  MatchInv'
    BY <1>8 DEF AddConversationMembers, locals
<1>9. ASSUME NEW r \in Requests, Commit(r)
      PROVE  MatchInv'
    BY <1>9 DEF Commit, rows, locals
<1>10. ASSUME NEW r \in Requests, Publish(r)
      PROVE  MatchInv'
    BY <1>10 DEF Publish, Published, rows, locals
<1>11. ASSUME NEW r \in Requests, Disturb(r)
      PROVE  MatchInv'
    BY <1>11 DEF Disturb, CommitUnacknowledged, Fail, LosePublish, RollBack,
       Published, rows, locals
<1>12. CASE Crash
    BY <1>12 DEF Crash, InFlight, Undone, locals
<1>13. CASE UNCHANGED vars
    BY <1>13 DEF vars, rows, locals
<1>14. QED
    BY <1>1, <1>2, <1>3, <1>4, <1>5, <1>6, <1>7, <1>8, <1>9, <1>10, <1>11,
       <1>12, <1>13,
       NextCases DEF Handle

\* The key step: when r's query finds q's like, no other request is making a
\* match for the two users.  Such a request would be a like of one of them:
\* not r's own, whose swipe is unique, and not q's, which would have needed
\* r's like to be committed.
LEMMA NoOtherMatching ==
    ASSUME TypeOK, TransactionInv, RowsInv, UniqueSwipes, MatchInv,
           NEW r \in Requests, pc[r] = "reciprocal",
           NEW q \in Visible(swipes, r), Answers(q, r),
           NEW p \in Requests, Matching(p), MatchKey(p) = MatchKey(r)
    PROVE  p = r
<1>1. q \in Committed(swipes)
    BY AnswerIsCommitted
<1>2. /\ r \in swipes /\ tx[r] = "open" /\ req[r].actor \in Users /\ req[r].target \in Users
      /\ p \in swipes /\ req[p].actor \in Users /\ req[p].target \in Users
    BY DEF TypeOK, TransactionInv, RowsInv, Matching, Querying, SwipeRequest
<1>3. SameKey(p, r) \/ Answers(p, r) \/ (req[p].actor = req[r].target /\ req[p].target = req[r].actor)
    BY <1>2, NormalizePair DEF MatchKey, SameKey
<1>4. CASE SameKey(p, r)
    BY <1>2, <1>4 DEF UniqueSwipes
<1>5. CASE req[p].actor = req[r].target /\ req[p].target = req[r].actor
    <2>1. p = q
        BY <1>1, <1>2, <1>5 DEF UniqueSwipes, SameKey, Answers, Committed
    <2>2. PICK s \in Committed(swipes) : Answers(s, p)
        BY DEF MatchInv
    <2>3. s = r
        BY <1>2, <1>5, <2>2 DEF UniqueSwipes, SameKey, Answers, Committed
    <2>4. QED
        BY <1>2, <2>2, <2>3 DEF Committed
<1>6. QED
    BY <1>3, <1>4, <1>5 DEF Answers

\* No step breaks OneMatching.
LEMMA OneMatchingNext ==
    TypeOK /\ TransactionInv /\ RowsInv /\ UniqueSwipes /\ MatchInv /\ OneMatching /\ [Next]_vars
        => OneMatching'
<1> SUFFICES ASSUME TypeOK, TransactionInv, RowsInv, UniqueSwipes, MatchInv,
                 OneMatching, [Next]_vars
             PROVE  OneMatching'
    OBVIOUS
<1> USE DEF TypeOK, RowsInv, OneMatching, Matching, MatchKey, Querying,
        Publishing, Goto
<1>1. ASSUME NEW r \in Requests, NEW a \in Users, NEW t \in Ids, Refuse(r, a, t)
      PROVE  OneMatching'
    BY <1>1 DEF Refuse, rows, locals
<1>2. ASSUME NEW r \in Requests, NEW a \in Users, NEW t \in Ids, NEW d \in Actions,
             BeginTx(r, a, t, d)
      PROVE  OneMatching'
    BY <1>2 DEF BeginTx, TransactionInv, rows, locals
<1>3. ASSUME NEW r \in Requests, CreateSwipe(r)
      PROVE  OneMatching'
    BY <1>3 DEF CreateSwipe, locals
<1>4. ASSUME NEW r \in Requests, RejectInsert(r)
      PROVE  OneMatching'
    BY <1>4 DEF RejectInsert, RollBack, locals
<1>5. ASSUME NEW r \in Requests, HasReciprocalLike(r)
      PROVE  OneMatching'
    <2>1. \A p \in Requests : p # r => Matching(p)' = Matching(p) /\ MatchKey(p)' = MatchKey(p)
        BY <1>5 DEF HasReciprocalLike, rows
    <2>2. MatchKey(r)' = MatchKey(r) /\ matches' = matches
        BY <1>5 DEF HasReciprocalLike, rows
    <2>3. CASE \E q \in Visible(swipes, r) : Answers(q, r)
        <3>1. \A p \in Requests : Matching(p) /\ MatchKey(p) = MatchKey(r) => p = r
            BY <1>5, <2>3, NoOtherMatching DEF HasReciprocalLike
        <3>2. QED
            BY <2>1, <2>2, <3>1
    <2>4. CASE ~ \E q \in Visible(swipes, r) : Answers(q, r)
        BY <1>5, <2>1, <2>2, <2>4 DEF HasReciprocalLike
    <2>5. QED
        BY <2>3, <2>4
<1>6. ASSUME NEW r \in Requests, UpsertMatch(r)
      PROVE  OneMatching'
    BY <1>6 DEF UpsertMatch
<1>7. ASSUME NEW r \in Requests, UpsertConversationForMatch(r)
      PROVE  OneMatching'
    BY <1>7 DEF UpsertConversationForMatch
<1>8. ASSUME NEW r \in Requests, AddConversationMembers(r)
      PROVE  OneMatching'
    BY <1>8 DEF AddConversationMembers, locals
<1>9. ASSUME NEW r \in Requests, Commit(r)
      PROVE  OneMatching'
    BY <1>9 DEF Commit, rows, locals
<1>10. ASSUME NEW r \in Requests, Publish(r)
      PROVE  OneMatching'
    BY <1>10 DEF Publish, Published, rows, locals
<1>11. ASSUME NEW r \in Requests, Disturb(r)
      PROVE  OneMatching'
    BY <1>11 DEF Disturb, CommitUnacknowledged, Fail, LosePublish, RollBack,
       Published, rows, locals
<1>12. CASE Crash
    BY <1>12 DEF Crash, InFlight, Undone, locals
<1>13. CASE UNCHANGED vars
    BY <1>13 DEF vars, rows, locals
<1>14. QED
    BY <1>1, <1>2, <1>3, <1>4, <1>5, <1>6, <1>7, <1>8, <1>9, <1>10, <1>11,
       <1>12, <1>13,
       NextCases DEF Handle

\* No step breaks HistoryInv.
LEMMA HistoryInvNext ==
    TypeOK /\ TransactionInv /\ RowsInv /\ OneMatching /\ HistoryInv
    /\ [Next]_vars => HistoryInv'
<1> SUFFICES ASSUME TypeOK, TransactionInv, RowsInv, OneMatching, HistoryInv,
                 [Next]_vars
             PROVE  HistoryInv'
    OBVIOUS
<1> USE DEF TypeOK, TransactionInv, RowsInv, HistoryInv, Matching, Mutual,
        Committed, BeforeInsert,
        Querying, Publishing, Goto
<1>1. ASSUME NEW r \in Requests, NEW a \in Users, NEW t \in Ids, Refuse(r, a, t)
      PROVE  HistoryInv'
    BY <1>1 DEF Refuse, rows, locals
<1>2. ASSUME NEW r \in Requests, NEW a \in Users, NEW t \in Ids, NEW d \in Actions,
             BeginTx(r, a, t, d)
      PROVE  HistoryInv'
    BY <1>2 DEF BeginTx, rows, locals
<1>3. ASSUME NEW r \in Requests, CreateSwipe(r)
      PROVE  HistoryInv'
    BY <1>3 DEF CreateSwipe, locals
<1>4. ASSUME NEW r \in Requests, RejectInsert(r)
      PROVE  HistoryInv'
    BY <1>4 DEF RejectInsert, RollBack, locals
<1>5. ASSUME NEW r \in Requests, HasReciprocalLike(r)
      PROVE  HistoryInv'
    BY <1>5 DEF HasReciprocalLike, Visible, Answers, rows, locals
<1>6. ASSUME NEW r \in Requests, UpsertMatch(r)
      PROVE  HistoryInv'
    <2>1. Upserted(MatchHolders(r), r) = r
        BY <1>6, NoMatchHolders DEF UpsertMatch, Upserted
    <2>2. QED
        BY <1>6, <2>1 DEF UpsertMatch
<1>7. ASSUME NEW r \in Requests, UpsertConversationForMatch(r)
      PROVE  HistoryInv'
    BY <1>7 DEF UpsertConversationForMatch
<1>8. ASSUME NEW r \in Requests, AddConversationMembers(r)
      PROVE  HistoryInv'
    BY <1>8 DEF AddConversationMembers, locals
<1>9. ASSUME NEW r \in Requests, Commit(r)
      PROVE  HistoryInv'
    BY <1>9 DEF Commit, rows, locals
<1>10. ASSUME NEW r \in Requests, Publish(r)
      PROVE  HistoryInv'
    BY <1>10 DEF Publish, Published, rows, locals
<1>11. ASSUME NEW r \in Requests, Disturb(r)
      PROVE  HistoryInv'
    BY <1>11 DEF Disturb, CommitUnacknowledged, Fail, LosePublish, RollBack,
       Published, rows, locals
<1>12. CASE Crash
    BY <1>12 DEF Crash, InFlight, Undone, locals
<1>13. CASE UNCHANGED vars
    BY <1>13 DEF vars, rows, locals
<1>14. QED
    BY <1>1, <1>2, <1>3, <1>4, <1>5, <1>6, <1>7, <1>8, <1>9, <1>10, <1>11,
       <1>12, <1>13,
       NextCases DEF Handle

-----------------------------------------------------------------------------
(* Events and answers.                                                     *)

\* No step breaks EventsInv.
LEMMA EventsInvNext ==
    TypeOK /\ TransactionInv /\ RowsInv /\ OneMatching /\ EventsInv
    /\ [Next]_vars => EventsInv'
<1> SUFFICES ASSUME TypeOK, TransactionInv, RowsInv, OneMatching, EventsInv,
                 [Next]_vars
             PROVE  EventsInv'
    OBVIOUS
<1> USE DEF TypeOK, TransactionInv, RowsInv, EventsInv, Committed, Querying,
        Publishing, Goto
<1>1. ASSUME NEW r \in Requests, NEW a \in Users, NEW t \in Ids, Refuse(r, a, t)
      PROVE  EventsInv'
    BY <1>1 DEF Refuse, rows, locals
<1>2. ASSUME NEW r \in Requests, NEW a \in Users, NEW t \in Ids, NEW d \in Actions,
             BeginTx(r, a, t, d)
      PROVE  EventsInv'
    BY <1>2 DEF BeginTx, rows, locals
<1>3. ASSUME NEW r \in Requests, CreateSwipe(r)
      PROVE  EventsInv'
    BY <1>3 DEF CreateSwipe, locals
<1>4. ASSUME NEW r \in Requests, RejectInsert(r)
      PROVE  EventsInv'
    BY <1>4 DEF RejectInsert, RollBack, locals
<1>5. ASSUME NEW r \in Requests, HasReciprocalLike(r)
      PROVE  EventsInv'
    BY <1>5 DEF HasReciprocalLike, rows, locals
<1>6. ASSUME NEW r \in Requests, UpsertMatch(r)
      PROVE  EventsInv'
    <2>1. Upserted(MatchHolders(r), r) = r
        BY <1>6, NoMatchHolders DEF UpsertMatch, Upserted
    <2>2. QED
        BY <1>6, <2>1 DEF UpsertMatch
<1>7. ASSUME NEW r \in Requests, UpsertConversationForMatch(r)
      PROVE  EventsInv'
    BY <1>7 DEF UpsertConversationForMatch
<1>8. ASSUME NEW r \in Requests, AddConversationMembers(r)
      PROVE  EventsInv'
    BY <1>8 DEF AddConversationMembers, locals
<1>9. ASSUME NEW r \in Requests, Commit(r)
      PROVE  EventsInv'
    BY <1>9 DEF Commit, rows, locals
<1>10. ASSUME NEW r \in Requests, Publish(r)
      PROVE  EventsInv'
    <2>1. PICK partner \in {Partner(r), Nil} : published' = published \cup {MatchEvent(r, partner)}
        BY <1>10 DEF Publish
    <2>2. matchID[r] = r /\ conversationID[r] = r /\ req[r].actor # req[r].target
        BY <1>10 DEF Publish
    <2>3. CASE pc[r] = "notify_actor"
        <3>1. \A e \in published : e.by # r
            BY <2>3
        <3>2. MatchEvent(r, partner) = [to |-> req[r].actor, match |-> r, conversation |-> r,
                                        partner |-> partner, by |-> r]
            BY <2>2, <2>3 DEF MatchEvent, Recipient
        <3>3. QED
            BY <1>10, <2>1, <2>2, <2>3, <3>1, <3>2 DEF Publish, Published,
               Partner, rows, locals
    <2>4. CASE pc[r] = "notify_target"
        <3>1. \A e \in published : e.by = r => e.to = req[r].actor
            BY <2>4
        <3>2. MatchEvent(r, partner) = [to |-> req[r].target, match |-> r, conversation |-> r,
                                        partner |-> partner, by |-> r]
            BY <2>2, <2>4 DEF MatchEvent, Recipient
        <3>3. QED
            BY <1>10, <2>1, <2>2, <2>4, <3>1, <3>2 DEF Publish, Published,
               Partner, rows, locals
    <2>5. QED
        BY <1>10, <2>3, <2>4 DEF Publish
<1>11. ASSUME NEW r \in Requests, Disturb(r)
      PROVE  EventsInv'
    BY <1>11 DEF Disturb, CommitUnacknowledged, Fail, LosePublish, RollBack,
       Published, rows, locals
<1>12. CASE Crash
    BY <1>12 DEF Crash, InFlight, Undone, locals
<1>13. CASE UNCHANGED vars
    BY <1>13 DEF vars, rows, locals
<1>14. QED
    BY <1>1, <1>2, <1>3, <1>4, <1>5, <1>6, <1>7, <1>8, <1>9, <1>10, <1>11,
       <1>12, <1>13,
       NextCases DEF Handle

\* No step breaks RepliesInv.
LEMMA RepliesInvNext ==
    TypeOK /\ TransactionInv /\ RowsInv /\ OneMatching /\ RepliesInv
    /\ [Next]_vars => RepliesInv'
<1> SUFFICES ASSUME TypeOK, TransactionInv, RowsInv, OneMatching, RepliesInv,
                 [Next]_vars
             PROVE  RepliesInv'
    OBVIOUS
<1> USE DEF TypeOK, TransactionInv, RowsInv, RepliesInv, RepliesTruthful,
        Committed, SameKey,
        Querying, Publishing, Goto, Answer
<1>1. ASSUME NEW r \in Requests, NEW a \in Users, NEW t \in Ids, Refuse(r, a, t)
      PROVE  RepliesInv'
    BY <1>1 DEF Refuse, rows, locals
<1>2. ASSUME NEW r \in Requests, NEW a \in Users, NEW t \in Ids, NEW d \in Actions,
             BeginTx(r, a, t, d)
      PROVE  RepliesInv'
    BY <1>2 DEF BeginTx, rows, locals
<1>3. ASSUME NEW r \in Requests, CreateSwipe(r)
      PROVE  RepliesInv'
    BY <1>3 DEF CreateSwipe, locals
<1>4. ASSUME NEW r \in Requests, RejectInsert(r)
      PROVE  RepliesInv'
    BY <1>4 DEF RejectInsert, RollBack, Inserted, locals
<1>5. ASSUME NEW r \in Requests, HasReciprocalLike(r)
      PROVE  RepliesInv'
    BY <1>5 DEF HasReciprocalLike, rows, locals
<1>6. ASSUME NEW r \in Requests, UpsertMatch(r)
      PROVE  RepliesInv'
    <2>1. Upserted(MatchHolders(r), r) = r
        BY <1>6, NoMatchHolders DEF UpsertMatch, Upserted
    <2>2. QED
        BY <1>6, <2>1 DEF UpsertMatch
<1>7. ASSUME NEW r \in Requests, UpsertConversationForMatch(r)
      PROVE  RepliesInv'
    BY <1>7 DEF UpsertConversationForMatch
<1>8. ASSUME NEW r \in Requests, AddConversationMembers(r)
      PROVE  RepliesInv'
    BY <1>8 DEF AddConversationMembers, locals
<1>9. ASSUME NEW r \in Requests, Commit(r)
      PROVE  RepliesInv'
    BY <1>9 DEF Commit, rows, locals
<1>10. ASSUME NEW r \in Requests, Publish(r)
      PROVE  RepliesInv'
    BY <1>10 DEF Publish, Published, rows, locals
<1>11. ASSUME NEW r \in Requests, Disturb(r)
      PROVE  RepliesInv'
    BY <1>11 DEF Disturb, CommitUnacknowledged, Fail, LosePublish, RollBack,
       Published, rows, locals
<1>12. CASE Crash
    BY <1>12 DEF Crash, InFlight, Undone, locals
<1>13. CASE UNCHANGED vars
    BY <1>13 DEF vars, rows, locals
<1>14. QED
    BY <1>1, <1>2, <1>3, <1>4, <1>5, <1>6, <1>7, <1>8, <1>9, <1>10, <1>11,
       <1>12, <1>13,
       NextCases DEF Handle

-----------------------------------------------------------------------------
(* The inductive invariant.                                                *)

\* The invariant holds initially.
LEMMA IInvInit == Init => IInv
<1> SUFFICES ASSUME Init
             PROVE  IInv
    OBVIOUS
<1>1. TypeOK
    BY TypeOKInit
<1>2. TransactionInv /\ RowsInv /\ HistoryInv /\ RepliesInv
    BY NilAssumption
    DEF Init, TransactionInv, RowsInv, HistoryInv, RepliesInv, RepliesTruthful, Querying, Publishing,
        BeforeInsert, BeforeMatch, BeforeConversation
<1>3. MembersInv /\ UniqueSwipes /\ MatchInv /\ OneMatching /\ EventsInv
    BY DEF Init, MembersInv, UniqueSwipes, MatchInv, OneMatching, EventsInv,
       Matching
<1>4. QED
    BY <1>1, <1>2, <1>3 DEF IInv

\* No step breaks IInv.
LEMMA IInvNext == IInv /\ [Next]_vars => IInv'
BY TypeOKNext, TransactionInvNext, RowsInvNext, MembersInvNext,
   UniqueSwipesNext, MatchInvNext,
   OneMatchingNext, HistoryInvNext, EventsInvNext, RepliesInvNext DEF IInv

\* The inductive invariant holds in every state.
LEMMA Invariance == Spec => []IInv
BY IInvInit, IInvNext, PTL DEF Spec

-----------------------------------------------------------------------------
(* The safety properties.                                                  *)

\* The tables, local variables and events keep their types.
THEOREM TypeCorrect == Spec => []TypeOK
<1>1. IInv => TypeOK
    BY DEF IInv
<1>2. QED
    BY <1>1, Invariance, PTL

\* A committed match is the like that answered the one it had read.
LEMMA IInvMatchOnlyMutual == IInv => MatchOnlyMutual
<1> SUFFICES ASSUME IInv, NEW m \in Committed(matches)
             PROVE  m \in swipes /\ \E q \in Committed(swipes) : Mutual(m, q)
    BY DEF MatchOnlyMutual
<1>1. m \in Requests /\ m \in swipes /\ req[m].action = "like" /\ Matching(m)
    BY DEF IInv, TypeOK, RowsInv, Committed, Matching
<1>2. PICK q \in Committed(swipes) : Answers(q, m)
    BY <1>1 DEF IInv, MatchInv
<1>3. QED
    BY <1>1, <1>2 DEF Answers, Mutual

\* No match without two committed likes, whatever fails and whenever.
THEOREM MatchesAreMutual == Spec => []MatchOnlyMutual
BY IInvMatchOnlyMutual, Invariance, PTL

\* A like inserted after the commit of the other one found it and made the match.
LEMMA IInvLostMatch == IInv => LostMatchOnlyByOverlap
<1> SUFFICES ASSUME IInv, NEW p \in Committed(swipes), NEW q \in Committed(swipes),
                    Mutual(p, q), q \in before[p]
             PROVE  \E m \in Committed(matches) : MatchKey(m) = MatchKey(p)
    BY DEF LostMatchOnlyByOverlap
<1>1. p \in Requests /\ p \in swipes /\ tx[p] = "committed"
    BY DEF IInv, TypeOK, Committed
<1>2. pc[p] \notin {"reciprocal", "match"}
    BY <1>1 DEF IInv, TransactionInv, Querying
<1>3. p \in matches
    BY <1>1, <1>2 DEF IInv, HistoryInv, Matching
<1>4. QED
    BY <1>1, <1>3 DEF Committed

\* A pair of likes is overlooked only if their transactions overlapped.
THEOREM LostMatchesOverlap == Spec => []LostMatchOnlyByOverlap
BY IInvLostMatch, Invariance, PTL

\* The members of a committed conversation are the two users of its match.
LEMMA RoomOfConversation ==
    ASSUME IInv, NEW c \in Committed(conversations)
    PROVE  /\ c \in Requests /\ c \in Committed(matches) /\ matchID[c] = c
           /\ MembersOf(c) = Pair(c)
<1>1. c \in Requests /\ c \in conversations /\ tx[c] = "committed"
    BY DEF IInv, TypeOK, Committed
<1>2. c \in Committed(matches) /\ matchID[c] = c
    BY <1>1 DEF IInv, RowsInv, Committed
<1>3. \A u \in MembersOf(c) : u \in Pair(c)
    BY <1>1 DEF IInv, MembersInv, MembersOf
<1>4. pc[c] # "members"
    BY <1>1 DEF IInv, TransactionInv, Querying
<1>5. ASSUME NEW u \in Pair(c)
      PROVE  u \in MembersOf(c)
    <2>1. MemberOf(c, u) \in members
        BY <1>1, <1>4 DEF IInv, MembersInv
    <2>2. QED
        BY <1>1, <2>1 DEF MembersOf, MemberOf
<1>6. QED
    BY <1>1, <1>2, <1>3, <1>5

\* A committed match has a committed conversation of its own name.
LEMMA ConversationOfMatch ==
    ASSUME IInv, NEW m \in Committed(matches)
    PROVE  m \in Requests /\ m \in Committed(conversations) /\ Matching(m)
BY DEF IInv, TypeOK, RowsInv, Committed, Matching

\* Match, conversation and members are the rows of one transaction.
LEMMA IInvOneRoomPerPair == IInv => OneRoomPerPair
<1> SUFFICES ASSUME IInv
             PROVE  OneRoomPerPair
    OBVIOUS
<1>1. ASSUME NEW m \in Committed(matches), NEW n \in Committed(matches), MatchKey(m) = MatchKey(n)
      PROVE  m = n
    BY <1>1, ConversationOfMatch DEF IInv, OneMatching
<1>2. ASSUME NEW m \in Committed(matches)
      PROVE  /\ m \in Committed(conversations)
             /\ \A k \in Committed(conversations) : matchID[k] = m <=> k = m
             /\ \A u \in Users : u \in {req[m].actor, req[m].target}
                   <=> \E x \in members : /\ x.conversation = m /\ x.user = u
                                          /\ tx[x.by] = "committed"
    <2>1. m \in Committed(conversations)
        BY ConversationOfMatch
    <2>2. MembersOf(m) = {req[m].actor, req[m].target}
        BY <2>1, RoomOfConversation DEF Pair
    <2>3. \A u : u \in MembersOf(m) <=> \E x \in members : /\ x.conversation = m /\ x.user = u
                                                         /\ tx[x.by] = "committed"
        BY DEF MembersOf
    <2>4. \A k \in Committed(conversations) : matchID[k] = m <=> k = m
        BY RoomOfConversation
    <2>5. QED
        BY <2>1, <2>2, <2>3, <2>4
<1>3. QED
    BY <1>1, <1>2 DEF OneRoomPerPair

\* Match, conversation and both members are seen together or not at all, and
\* once for each pair.
THEOREM RoomsAreWhole == Spec => []OneRoomPerPair
BY IInvOneRoomPerPair, Invariance, PTL

\* A match is of two users.
LEMMA MatchUsers ==
    ASSUME IInv, NEW m \in Committed(matches)
    PROVE  req[m].actor \in Users /\ req[m].target \in Users /\ req[m].actor # req[m].target
<1>1. m \in Requests /\ tx[m] = "committed" /\ m \in swipes
    BY DEF IInv, TypeOK, RowsInv, Committed
<1>2. req[m] \in SwipeRequest /\ req[m].actor # req[m].target /\ req[m].target \in Users
    BY <1>1 DEF IInv, TransactionInv, RowsInv
<1> QED
    BY <1>2 DEF SwipeRequest

\* The two lists of a user, by the rows of the conversations.
LEMMA ListsByConversation ==
    ASSUME IInv, NEW u \in Users
    PROVE  /\ \A e \in Listed :
                 /\ e \in ListMatchesForUser(u) <=>
                       e.match = e.conversation /\ u # e.partner
                       /\ Pair(e.conversation) = {u, e.partner}
                 /\ e \in ListConversationsForUser(u) <=>
                       e.match = e.conversation /\ u # e.partner
                       /\ Pair(e.conversation) = {u, e.partner}
<1> SUFFICES ASSUME NEW e \in Listed
             PROVE  /\ e \in ListMatchesForUser(u) <=>
                          e.match = e.conversation /\ u # e.partner
                          /\ Pair(e.conversation) = {u, e.partner}
                    /\ e \in ListConversationsForUser(u) <=>
                          e.match = e.conversation /\ u # e.partner
                          /\ Pair(e.conversation) = {u, e.partner}
    OBVIOUS
<1> DEFINE c == e.conversation
<1>1. /\ c \in Committed(conversations) /\ e.match \in Committed(matches)
      /\ e.partner \in Users
    BY DEF Listed
<1>2. c \in Requests /\ matchID[c] = c /\ MembersOf(c) = Pair(c) /\ c \in Committed(matches)
    BY <1>1, RoomOfConversation
<1>3. /\ req[c].actor \in Users /\ req[c].target \in Users
      /\ req[c].actor # req[c].target
    BY <1>2, MatchUsers
<1>4. /\ MatchKey(c) \in {[low |-> u, high |-> e.partner], [low |-> e.partner, high |-> u]}
         <=> u # e.partner /\ Pair(c) = {u, e.partner}
    <2>1. /\ MatchKey(c).low # MatchKey(c).high
          /\ Pair(c) = {MatchKey(c).low, MatchKey(c).high}
          /\ MatchKey(c) = [low |-> MatchKey(c).low, high |-> MatchKey(c).high]
        BY <1>3 DEF MatchKey, normalizePair, Pair
    <2> QED
        BY <2>1
<1>5. e \in ListMatchesForUser(u) <=> e.match = c /\ u # e.partner /\ Pair(c) = {u, e.partner}
    BY <1>2, <1>4 DEF ListMatchesForUser
<1>6. e \in ListConversationsForUser(u)
         <=> e.match = c /\ u # e.partner /\ Pair(c) = {u, e.partner}
    <2>1. e \in ListConversationsForUser(u)
             <=> e.match = c /\ u \in Pair(c) /\ e.partner \in Pair(c) /\ e.partner # u
        BY <1>2 DEF ListConversationsForUser
    <2>2. u \in Pair(c) /\ e.partner \in Pair(c) /\ e.partner # u
             <=> u # e.partner /\ Pair(c) = {u, e.partner}
        BY DEF Pair
    <2> QED
        BY <2>1, <2>2
<1> QED
    BY <1>5, <1>6

\* Match and members are two ways to the same two users.
LEMMA IInvListsAgree == IInv => ListsAgree
<1> SUFFICES ASSUME IInv, NEW u \in Users
             PROVE  /\ ListMatchesForUser(u) = ListConversationsForUser(u)
                    /\ \A e \in ListMatchesForUser(u) :
                          /\ [e EXCEPT !.partner = u] \in ListMatchesForUser(e.partner)
                          /\ \A f \in ListMatchesForUser(u) : f.partner = e.partner => f = e
    BY DEF ListsAgree
<1>1. /\ ListMatchesForUser(u) \subseteq Listed
      /\ ListConversationsForUser(u) \subseteq Listed
    BY DEF ListMatchesForUser, ListConversationsForUser
<1>2. ListMatchesForUser(u) = ListConversationsForUser(u)
    BY <1>1, ListsByConversation
<1>3. ASSUME NEW e \in ListMatchesForUser(u)
      PROVE  [e EXCEPT !.partner = u] \in ListMatchesForUser(e.partner)
    <2> DEFINE f == [e EXCEPT !.partner = u]
    <2>1. e \in Listed /\ e.partner \in Users
        BY <1>1 DEF Listed
    <2>2. /\ f \in Listed /\ f.match = e.match /\ f.conversation = e.conversation
          /\ f.partner = u
        BY <2>1 DEF Listed
    <2>3. e.match = e.conversation /\ u # e.partner /\ Pair(e.conversation) = {u, e.partner}
        BY <2>1, ListsByConversation
    <2> HIDE DEF f
    <2>4. f \in ListMatchesForUser(e.partner)
        BY <2>1, <2>2, <2>3, ListsByConversation
    <2> QED
        BY <2>4 DEF f
<1>4. ASSUME NEW e \in ListMatchesForUser(u), NEW f \in ListMatchesForUser(u),
             f.partner = e.partner
      PROVE  f = e
    <2>1. e \in Listed /\ f \in Listed
        BY <1>1
    <2>2. /\ e.match = e.conversation /\ f.match = f.conversation
          /\ Pair(e.conversation) = Pair(f.conversation)
        BY <1>4, <2>1, ListsByConversation
    <2>3. e.match \in Committed(matches) /\ f.match \in Committed(matches)
        BY <2>1 DEF Listed
    <2>4. MatchKey(e.match) = MatchKey(f.match)
        <3>1. \A m \in Committed(matches) : req[m].actor \in Users /\ req[m].target \in Users
            BY ConversationOfMatch, MatchUsers
        <3>2. {req[e.match].actor, req[e.match].target}
                = {req[f.match].actor, req[f.match].target}
            BY <2>2 DEF Pair
        <3>3. \/ req[e.match].actor = req[f.match].actor /\ req[e.match].target = req[f.match].target
              \/ req[e.match].actor = req[f.match].target /\ req[e.match].target = req[f.match].actor
            BY <3>2
        <3>4. /\ req[e.match].actor \in Users /\ req[e.match].target \in Users
              /\ req[f.match].actor \in Users /\ req[f.match].target \in Users
            BY <2>3, <3>1
        <3> QED
            BY <3>3, <3>4, NormalizePair DEF MatchKey
    <2>5. e.match = f.match
        BY <2>3, <2>4, IInvOneRoomPerPair DEF OneRoomPerPair
    <2>6. \A x \in Listed :
              x = [match |-> x.match, conversation |-> x.conversation, partner |-> x.partner]
        BY DEF Listed
    <2> QED
        BY <1>4, <2>1, <2>2, <2>5, <2>6
<1> QED
    BY <1>2, <1>3, <1>4

\* GET /v1/matches and GET /v1/conversations show the same rooms, to both users.
THEOREM ListsDoAgree == Spec => []ListsAgree
BY IInvListsAgree, Invariance, PTL

\* Events come from a committed transaction, one for each of its two users.
LEMMA IInvEventsTruthful == IInv => EventsTruthful
<1> SUFFICES ASSUME IInv
             PROVE  EventsTruthful
    OBVIOUS
<1>1. ASSUME NEW e \in published
      PROVE  /\ e.match \in Committed(matches)
             /\ e.conversation \in Committed(conversations)
             /\ matchID[e.conversation] = e.match
             /\ e.to \in {req[e.match].actor, req[e.match].target}
             /\ e.partner # Nil => {e.to, e.partner} = {req[e.match].actor, req[e.match].target}
    <2>1. /\ e.match = e.by /\ e.conversation = e.by /\ e.by \in Committed(matches)
          /\ \/ e.to = req[e.by].actor /\ e.partner \in {req[e.by].target, Nil}
             \/ e.to = req[e.by].target /\ e.partner \in {req[e.by].actor, Nil}
        BY DEF IInv, EventsInv
    <2>2. e.by \in Committed(conversations) /\ matchID[e.by] = e.by
        BY <2>1, ConversationOfMatch, RoomOfConversation
    <2>3. QED
        BY <2>1, <2>2
<1>2. ASSUME NEW e \in published, NEW f \in published, e.to = f.to, e.match = f.match
      PROVE  e = f
    BY <1>2 DEF IInv, EventsInv
<1>3. QED
    BY <1>1, <1>2 DEF EventsTruthful

\* Nobody is told of a match that is not there, or told of it twice.
THEOREM EventsAreTrue == Spec => []EventsTruthful
BY IInvEventsTruthful, Invariance, PTL

\* What an answer said of the tables stays true.
THEOREM RepliesAreTrue == Spec => []RepliesTruthful
<1>1. IInv => RepliesTruthful
    BY DEF IInv, RepliesInv
<1>2. QED
    BY <1>1, Invariance, PTL

-----------------------------------------------------------------------------
(* Waiting.                                                                *)

\* The three tables are entered in one order, and whoever is at the second one
\* holds a key of the first that leaves nobody else there.
LEMMA IInvWaitsAreShort == IInv => WaitsAreShort
<1> SUFFICES ASSUME IInv
             PROVE  WaitsAreShort
    OBVIOUS
<1>0. TypeOK /\ TransactionInv /\ RowsInv /\ OneMatching
    BY DEF IInv
<1>1. ASSUME NEW r \in Requests, NEW q \in Blockers(r)
      PROVE  pc[r] = "insert" /\ q \in swipes /\ tx[q] = "open" /\ q \in Requests
    <2>1. pc[r] = "match" => MatchHolders(r) = {}
        BY <1>0, NoMatchHolders
    <2>2. pc[r] = "conversation" => ConversationHolders(r) = {}
        BY <1>0, NoConversationHolders
    <2>3. QED
        BY <1>0, <1>1, <2>1, <2>2 DEF Blockers, Inserted, Undone
<1>2. ASSUME NEW r \in Requests, NEW q \in Blockers(r)
      PROVE  pc[r] = "insert" /\ pc[q] \in Querying /\ Blockers(q) = {}
    <2>1. pc[r] = "insert" /\ q \in swipes /\ tx[q] = "open" /\ q \in Requests
        BY <1>1
    <2>2. pc[q] \in Querying /\ pc[q] # "insert"
        BY <1>0, <2>1 DEF TransactionInv, RowsInv
    <2>3. QED
        BY <1>1, <2>1, <2>2
<1>3. QED
    BY <1>2 DEF WaitsAreShort

\* No deadlock among the transactions of any number of swipes.
THEOREM WaitsEnd == Spec => []WaitsAreShort
BY IInvWaitsAreShort, Invariance, PTL

-----------------------------------------------------------------------------
(* Progress.  The prover does not look into ENABLED, so the two theorems     *)
(* on what is eventually done assume of the guards of recordSwipe what      *)
(* Ready spells out: past its insert a request can always take a step.      *)

\* The calls recordSwipe can still make, counted from the call p.
StepsLeft(p) ==
    CASE p = "idle" -> 9
      [] p = "insert" -> 8
      [] p = "reciprocal" -> 7
      [] p = "match" -> 6
      [] p = "conversation" -> 5
      [] p = "members" -> 4
      [] p = "commit" -> 3
      [] p = "notify_actor" -> 2
      [] p = "notify_target" -> 1
      [] p = "done" -> 0

\* A step takes a request nearer to its end, or leaves it where it is.
GoesForward(r) == pc'[r] = pc[r] \/ StepsLeft(pc'[r]) < StepsLeft(pc[r])

\* No step takes a request back, and a successful one of its own takes it on.
LEMMA StepsForward ==
    ASSUME TypeOK, [Next]_vars, NEW r \in Requests
    PROVE  GoesForward(r) /\ (Handle(r) => StepsLeft(pc'[r]) < StepsLeft(pc[r]))
<1> USE DEF GoesForward, StepsLeft, Goto, TypeOK, PC, Querying, Publishing
<1>1. ASSUME NEW q \in Requests, NEW a \in Users, NEW t \in Ids, Refuse(q, a, t)
      PROVE  GoesForward(r)
    BY <1>1 DEF Refuse
<1>2. ASSUME NEW q \in Requests, NEW a \in Users, NEW t \in Ids, NEW d \in Actions,
             BeginTx(q, a, t, d)
      PROVE  GoesForward(r)
    BY <1>2 DEF BeginTx
<1>3. ASSUME NEW q \in Requests, Handle(q)
      PROVE  GoesForward(r) /\ StepsLeft(pc'[q]) < StepsLeft(pc[q])
    <2>1. CASE CreateSwipe(q)
        BY <2>1 DEF CreateSwipe
    <2>2. CASE RejectInsert(q)
        BY <2>2 DEF RejectInsert
    <2>3. CASE HasReciprocalLike(q)
        BY <2>3 DEF HasReciprocalLike
    <2>4. CASE UpsertMatch(q)
        BY <2>4 DEF UpsertMatch
    <2>5. CASE UpsertConversationForMatch(q)
        BY <2>5 DEF UpsertConversationForMatch
    <2>6. CASE AddConversationMembers(q)
        BY <2>6 DEF AddConversationMembers
    <2>7. CASE Commit(q)
        BY <2>7 DEF Commit
    <2>8. CASE Publish(q)
        BY <2>8 DEF Publish, Published
    <2>9. QED
        BY <1>3, <2>1, <2>2, <2>3, <2>4, <2>5, <2>6, <2>7, <2>8 DEF Handle
<1>4. ASSUME NEW q \in Requests, Disturb(q)
      PROVE  GoesForward(r)
    BY <1>4 DEF Disturb, CommitUnacknowledged, Fail, LosePublish, Published
<1>5. ASSUME Crash
      PROVE  GoesForward(r)
    BY <1>5 DEF Crash, InFlight
<1>6. ASSUME UNCHANGED vars
      PROVE  GoesForward(r)
    <2>1. pc' = pc
        BY <1>6 DEF vars
    <2>2. QED
        BY <2>1
<1>7. Handle(r) => StepsLeft(pc'[r]) < StepsLeft(pc[r])
    BY <1>3
<1> HIDE DEF GoesForward, StepsLeft, Goto, TypeOK, PC, Querying, Publishing
<1>8. QED
    BY <1>1, <1>2, <1>3, <1>4, <1>5, <1>6, <1>7, NextCases

\* Whatever happens, no request makes a call of recordSwipe twice.
THEOREM NoCallTwice == Spec => [][\A r \in Requests : GoesForward(r)]_vars
<1>1. TypeOK /\ [Next]_vars => [\A r \in Requests : GoesForward(r)]_vars
    BY StepsForward
<1>2. QED
    BY <1>1, TypeCorrect, PTL DEF Spec

\* Past its insert, a request waits for nobody.
Ready(r) == pc[r] \in (Querying \ {"insert"}) \cup Publishing

\* What the guards of recordSwipe amount to, past the insert.
CanGoOn(r) == [](Ready(r) => ENABLED <<Handle(r)>>_vars)

At(r, n) == Ready(r) /\ StepsLeft(pc[r]) = n
Past(r, n) == pc[r] = "done" \/ (Ready(r) /\ StepsLeft(pc[r]) < n)
GetsPast(r, n) == At(r, n) ~> Past(r, n)

\* One call is followed by another, or by the end.
LEMMA NextCall ==
    ASSUME NEW r \in Requests, NEW n \in Nat
    PROVE  FairSpec /\ CanGoOn(r) => GetsPast(r, n)
<1>1. TypeOK /\ TypeOK' /\ At(r, n) /\ [Next]_vars => At(r, n)' \/ Past(r, n)'
    <2>1. TypeOK /\ TypeOK' /\ Ready(r) /\ GoesForward(r) => Ready(r)' \/ pc'[r] = "done"
        BY DEF GoesForward, Ready, StepsLeft, TypeOK, PC, Querying, Publishing
    <2>2. GoesForward(r) => StepsLeft(pc[r])' = StepsLeft(pc[r])
                              \/ StepsLeft(pc[r])' < StepsLeft(pc[r])
        BY DEF GoesForward
    <2>3. QED
        BY <2>1, <2>2, StepsForward DEF At, Past
<1>2. TypeOK /\ TypeOK' /\ At(r, n) /\ [Next]_vars /\ <<Handle(r)>>_vars => Past(r, n)'
    <2>1. TypeOK /\ At(r, n) /\ [Next]_vars /\ Handle(r) => ~ At(r, n)'
        BY StepsForward DEF At
    <2>2. QED
        BY <1>1, <2>1
<1>3. At(r, n) => Ready(r)
    BY DEF At
<1>4. Fairness => ServedFairly(r)
    BY DEF Fairness
<1>5. ServedFairly(r) => WF_vars(Handle(r))
    BY PTL DEF ServedFairly
<1>6. QED
    BY <1>1, <1>2, <1>3, <1>4, <1>5, TypeCorrect, PTL
       DEF FairSpec, Spec, CanGoOn, GetsPast

Ends(r) == Ready(r) ~> pc[r] = "done"

\* A transaction past its insert, which others may wait for, always ends, and
\* its request is answered or cut off.
THEOREM TransactionsEnd ==
    ASSUME NEW r \in Requests
    PROVE  FairSpec /\ CanGoOn(r) => Ends(r)
<1>1. FairSpec /\ CanGoOn(r) =>
        /\ GetsPast(r, 7) /\ GetsPast(r, 6) /\ GetsPast(r, 5) /\ GetsPast(r, 4)
        /\ GetsPast(r, 3) /\ GetsPast(r, 2) /\ GetsPast(r, 1)
    BY NextCall
<1>2. Ready(r) => Past(r, 8)
    BY DEF Ready, Past, StepsLeft, Querying, Publishing
<1>3. \A n \in 1 .. 7 : Past(r, n + 1) => At(r, n) \/ Past(r, n)
    BY DEF Ready, Past, At, StepsLeft, Querying, Publishing
<1>4. /\ Past(r, 8) => At(r, 7) \/ Past(r, 7)
      /\ Past(r, 7) => At(r, 6) \/ Past(r, 6)
      /\ Past(r, 6) => At(r, 5) \/ Past(r, 5)
      /\ Past(r, 5) => At(r, 4) \/ Past(r, 4)
      /\ Past(r, 4) => At(r, 3) \/ Past(r, 3)
      /\ Past(r, 3) => At(r, 2) \/ Past(r, 2)
      /\ Past(r, 2) => At(r, 1) \/ Past(r, 1)
    BY <1>3
<1>5. Past(r, 1) => pc[r] = "done"
    BY DEF Ready, Past, StepsLeft, Querying, Publishing
<1>6. QED
    BY <1>1, <1>2, <1>4, <1>5, PTL DEF GetsPast, Ends

\* Only its own insert puts a row into swipes.
LEMMA OnlyInsertAdds ==
    ASSUME [Next]_vars, NEW p \in swipes', p \notin swipes
    PROVE  p \in Requests /\ CreateSwipe(p)
<1>1. \A r \in Requests : CreateSwipe(r) => swipes' = swipes \cup {r}
    BY DEF CreateSwipe
<1>2. \A r \in Requests : Handle(r) \/ Disturb(r) => CreateSwipe(r) \/ swipes' \subseteq swipes
    BY DEF Handle, Disturb, RejectInsert, HasReciprocalLike, UpsertMatch,
       UpsertConversationForMatch, AddConversationMembers, Commit, Publish,
       CommitUnacknowledged, Fail, LosePublish, RollBack, rows
<1>3. \A r \in Requests, a \in Users, t \in Ids : Refuse(r, a, t) => swipes' = swipes
    BY DEF Refuse, rows
<1>4. \A r \in Requests, a \in Users, t \in Ids, d \in Actions :
        BeginTx(r, a, t, d) => swipes' = swipes
    BY DEF BeginTx, rows
<1>5. (Crash \/ UNCHANGED vars) => swipes' \subseteq swipes
    BY DEF Crash, vars, rows
<1>6. QED
    BY <1>1, <1>2, <1>3, <1>4, <1>5, NextCases

\* The body of a request is read once.
LEMMA RequestStays ==
    ASSUME TransactionInv, TypeOK, [Next]_vars, NEW r \in Requests, tx[r] # "none"
    PROVE  req'[r] = req[r]
<1>1. \A q \in Requests : Handle(q) \/ Disturb(q) => req' = req
    BY DEF Handle, Disturb, CreateSwipe, RejectInsert, HasReciprocalLike, UpsertMatch,
       UpsertConversationForMatch, AddConversationMembers, Commit, Publish,
       CommitUnacknowledged, Fail, LosePublish
<1>2. \A q \in Requests, a \in Users, t \in Ids : Refuse(q, a, t) => req' = req
    BY DEF Refuse
<1>3. \A q \in Requests, a \in Users, t \in Ids, d \in Actions :
        BeginTx(q, a, t, d) => req'[r] = req[r]
    BY DEF BeginTx, TransactionInv, TypeOK
<1>4. (Crash \/ UNCHANGED vars) => req' = req
    BY DEF Crash, vars
<1>5. QED
    BY <1>1, <1>2, <1>3, <1>4, NextCases

\* When the transaction an insert waits for ends, nobody else is in its place.
LEMMA NoOtherBlocker ==
    ASSUME IInv, IInv', [Next]_vars, NEW r \in Requests, NEW q \in Blockers(r),
           pc'[r] = "insert", q \notin Blockers(r)'
    PROVE  Blockers(r)' = {}
<1> SUFFICES ASSUME NEW p \in Blockers(r)'
             PROVE  FALSE
    OBVIOUS
<1>1. pc[r] = "insert" /\ q \in swipes /\ SameKey(q, r) /\ q \in Requests
    BY IInvWaitsAreShort DEF WaitsAreShort, Blockers, Inserted, Undone
<1>2. p \in Requests /\ p \in swipes' /\ SameKey(p, r)'
    BY DEF Blockers, Inserted, Undone
<1>3. tx[r] = "open" /\ tx[q] # "none" /\ req'[r] = req[r] /\ req'[q] = req[q]
    BY <1>1, RequestStays DEF IInv, TransactionInv, RowsInv, Querying
<1>4. CASE p \in swipes
    <2>1. req'[p] = req[p]
        BY <1>2, <1>4, RequestStays DEF IInv, RowsInv
    <2>2. p = q
        BY <1>1, <1>2, <1>3, <1>4, <2>1 DEF IInv, UniqueSwipes, SameKey
    <2>3. QED
        BY <2>2
<1>5. CASE p \notin swipes
    <2>1. CreateSwipe(p)
        BY <1>2, <1>5, OnlyInsertAdds
    <2>2. Inserted(p) = {} /\ req' = req
        BY <2>1 DEF CreateSwipe
    <2>3. q \in Inserted(p)
        BY <1>1, <1>2, <2>2 DEF Inserted, SameKey
    <2>4. QED
        BY <2>2, <2>3
<1>6. QED
    BY <1>4, <1>5

\* An insert never waits for ever for one transaction: that one ends, and then
\* the key is free or in a committed row, so that the insert can be answered.
\* (It may find the key taken again by another insert that came first.)
THEOREM WaitsAreOver ==
    ASSUME NEW r \in Requests, NEW q \in Requests
    PROVE  FairSpec /\ CanGoOn(q) =>
              (q \in Blockers(r) ~> pc[r] # "insert" \/ Blockers(r) = {})
<1> DEFINE Waits == q \in Blockers(r)
           Answerable == pc[r] # "insert" \/ Blockers(r) = {}
<1>1. IInv /\ Waits => Ready(q)
    BY IInvWaitsAreShort DEF IInv, RowsInv, WaitsAreShort, Blockers, Inserted, Ready
<1>2. IInv /\ pc[q] = "done" => ~ Waits
    BY DEF IInv, TransactionInv, Blockers, Undone, Querying
<1>3. IInv /\ IInv' /\ Waits /\ [Next]_vars => Waits' \/ Answerable'
    BY NoOtherBlocker
<1>4. FairSpec /\ CanGoOn(q) => Ends(q)
    BY TransactionsEnd
<1> HIDE DEF Waits, Answerable
<1>5. FairSpec /\ CanGoOn(q) => (Waits ~> Answerable)
    BY <1>1, <1>2, <1>3, <1>4, Invariance, PTL DEF FairSpec, Spec, Ends
<1>6. QED
    BY <1>5 DEF Waits, Answerable

-----------------------------------------------------------------------------
(* What Chat takes for granted.                                            *)

MembersArePair == \A c \in Committed(conversations) : c \in Requests /\ MembersOf(c) = Pair(c)

\* Every row that is committed stays.
LEMMA CommittedStays ==
    ASSUME TypeOK, TransactionInv, [Next]_vars, NEW c \in Committed(conversations)
    PROVE  c \in Committed(conversations)'
<1> USE DEF TypeOK, TransactionInv, Committed, Querying, rows, locals
<1>1. \A r \in Requests, a \in Users, t \in Ids : Refuse(r, a, t) => c \in Committed(conversations)'
    BY DEF Refuse
<1>2. \A r \in Requests, a \in Users, t \in Ids, d \in Actions :
        BeginTx(r, a, t, d) => c \in Committed(conversations)'
    BY DEF BeginTx
<1>3. \A r \in Requests : RejectInsert(r) \/ Fail(r) => c \in Committed(conversations)'
    BY DEF RejectInsert, Fail, RollBack
<1>4. \A r \in Requests : Commit(r) \/ CommitUnacknowledged(r) => c \in Committed(conversations)'
    BY DEF Commit, CommitUnacknowledged
<1>5. \A r \in Requests : CreateSwipe(r) \/ HasReciprocalLike(r) \/ UpsertMatch(r)
                            \/ UpsertConversationForMatch(r) \/ AddConversationMembers(r)
                         => c \in Committed(conversations)'
    BY DEF CreateSwipe, HasReciprocalLike, UpsertMatch, UpsertConversationForMatch,
       AddConversationMembers
<1>6. \A r \in Requests : Publish(r) \/ LosePublish(r) => c \in Committed(conversations)'
    BY DEF Publish, LosePublish
<1>7. Crash \/ UNCHANGED vars => c \in Committed(conversations)'
    BY DEF Crash, Undone, vars
<1> HIDE DEF TypeOK, TransactionInv, Committed, Querying, rows, locals
<1>8. QED
    BY <1>1, <1>2, <1>3, <1>4, <1>5, <1>6, <1>7, NextCases DEF Handle, Disturb

RoomsKept ==
    \A c \in Committed(conversations) :
        c \in Committed(conversations)' /\ MembersOf(c)' = MembersOf(c)

\* A conversation that can be seen is never taken away and nobody ever joins
\* or leaves it: a member check that was right once is right for ever, which is
\* what the handlers of messages and sockets rely on, and what lets Chat have
\* the members of its rooms as a constant.
THEOREM RoomsStay == Spec => [][RoomsKept]_vars
<1>1. IInv => MembersArePair
    BY RoomOfConversation DEF MembersArePair
<1>2. IInv' => MembersArePair'
    BY <1>1, PTL
<1>3. IInv /\ MembersArePair /\ MembersArePair' /\ [Next]_vars => RoomsKept
    <2> SUFFICES ASSUME IInv, MembersArePair, MembersArePair', [Next]_vars,
                        NEW c \in Committed(conversations)
                 PROVE  c \in Committed(conversations)' /\ MembersOf(c)' = MembersOf(c)
        BY DEF RoomsKept
    <2>1. c \in Committed(conversations)'
        BY CommittedStays DEF IInv
    <2>2. c \in Requests /\ tx[c] # "none"
        BY DEF MembersArePair, Committed
    <2>3. req'[c] = req[c]
        BY <2>2, RequestStays DEF IInv
    <2>4. Pair(c)' = Pair(c)
        BY <2>3 DEF Pair
    <2>5. QED
        BY <2>1, <2>4 DEF MembersArePair
<1>4. QED
    BY <1>1, <1>2, <1>3, Invariance, PTL DEF Spec

-----------------------------------------------------------------------------
(* The refinement: through what is committed, Swipes implements the ledger. *)

barVars == <<decisionsBar, roomsBar, toldBar>>

\* Under the invariant a room is its conversation's two users.
RoomOf(c) == [pair |-> Pair(c), members |-> Pair(c)]
Rooms == {RoomOf(c) : c \in Committed(conversations)}

RoomsBarIsRooms == roomsBar = Rooms

\* What the ledger sees of the rooms, in terms of the rows of the requests.
LEMMA RoomsBarLemma == IInv => RoomsBarIsRooms
<1> SUFFICES ASSUME IInv
             PROVE  roomsBar = Rooms
    BY DEF RoomsBarIsRooms
<1>1. \A c \in Committed(conversations) : matchID[c] = c /\ MembersOf(c) = Pair(c)
    BY RoomOfConversation
<1>2. QED
    BY <1>1 DEF roomsBar, Rooms, RoomOf

\* No step breaks RoomsBarLemma.
LEMMA RoomsBarLemmaNext == IInv' => RoomsBarIsRooms'
BY RoomsBarLemma, PTL

\* Events tell the two users of a committed conversation.
LEMMA ToldOfRooms == IInv => \A e \in published : e.match \in
   Committed(conversations)
BY ConversationOfMatch DEF IInv, EventsInv

\* A step that commits nothing and publishes nothing is a stutter.
LEMMA QuietStep ==
    ASSUME IInv, IInv',
           Committed(swipes)' = Committed(swipes),
           Committed(conversations)' = Committed(conversations),
           \A r \in Requests : r \in Committed(swipes) => req'[r] = req[r],
           published' = published
    PROVE  barVars' = barVars
<1>1. Committed(swipes) \subseteq Requests /\ Committed(conversations) \subseteq Committed(swipes)
    BY DEF IInv, TypeOK, RowsInv, Committed
<1>2. decisionsBar' = decisionsBar
    BY <1>1 DEF decisionsBar
<1>3. \A c \in Committed(conversations) : Pair(c)' = Pair(c)
    BY <1>1 DEF Pair
<1>4. roomsBar' = roomsBar
    <2>1. Rooms' = Rooms
        BY <1>3 DEF Rooms, RoomOf
    <2>2. QED
        BY <2>1, RoomsBarLemma, RoomsBarLemmaNext DEF RoomsBarIsRooms
<1>5. toldBar' = toldBar
    BY <1>3, ToldOfRooms DEF toldBar
<1>6. QED
    BY <1>2, <1>4, <1>5 DEF barVars

\* Applying a commit is taking the decision, with its room if there is one.
LEMMA CommitStep ==
    ASSUME IInv, IInv', NEW r \in Requests, pc[r] = "commit",
           tx' = [tx EXCEPT ![r] = "committed"],
           UNCHANGED <<req, rows, locals, published>>
    PROVE  Ledger!Next
<1> DEFINE a == req[r].actor
           t == req[r].target
           d == req[r].action
<1>1. /\ tx[r] = "open" /\ r \in swipes
      /\ a \in Users /\ t \in Users /\ d \in {"like", "pass"} /\ a # t
      /\ req[r] = [actor |-> a, target |-> t, action |-> d]
    BY DEF IInv, TypeOK, TransactionInv, RowsInv, Querying, SwipeRequest, Actions
<1>2. Committed(swipes)' = Committed(swipes) \cup {r}
    BY <1>1 DEF IInv, TypeOK, Committed, rows
<1>3. decisionsBar' = decisionsBar \cup {[actor |-> a, target |-> t, action |-> d]}
    BY <1>1, <1>2 DEF decisionsBar
<1>4. Ledger!Undecided(a, t)
    <2>1. \A q \in Committed(swipes) : ~ SameKey(q, r)
        BY <1>1 DEF IInv, UniqueSwipes, Committed
    <2>2. QED
        BY <2>1 DEF Ledger!Undecided, decisionsBar, SameKey
<1>5. toldBar' = toldBar
    BY DEF toldBar, Pair
<1>6. CASE matchID[r] = Nil
    <2>1. Committed(conversations)' = Committed(conversations)
        BY <1>1, <1>6, NilAssumption DEF IInv, TypeOK, RowsInv, Committed, rows,
           locals
    <2>2. roomsBar' = roomsBar
        <3>1. Rooms' = Rooms
            BY <2>1 DEF Rooms, RoomOf, Pair
        <3>2. QED
            BY <3>1, RoomsBarLemma, RoomsBarLemmaNext DEF RoomsBarIsRooms
    <2>3. Ledger!Decide(a, t, d)
        BY <1>1, <1>3, <1>4, <1>5, <2>2 DEF Ledger!Decide
    <2>4. QED
        BY <1>1, <2>3 DEF Ledger!Next
<1>7. CASE matchID[r] = r
    <2>1. r \in conversations /\ r \in matches /\ d = "like"
        BY <1>1, <1>7 DEF IInv, RowsInv
    <2>2. Committed(conversations)' = Committed(conversations) \cup {r}
        BY <1>1, <2>1 DEF IInv, TypeOK, Committed, rows
    <2>3. roomsBar' = roomsBar \cup {[pair |-> {a, t}, members |-> {a, t}]}
        <3>1. Rooms' = Rooms \cup {RoomOf(r)}
            BY <2>2 DEF Rooms, RoomOf, Pair
        <3>2. QED
            BY <3>1, RoomsBarLemma, RoomsBarLemmaNext DEF RoomsBarIsRooms,
               RoomOf, Pair
    <2>4. [actor |-> t, target |-> a, action |-> "like"] \in decisionsBar
        <3>1. PICK q \in Committed(swipes) : Answers(q, r)
            BY <2>1 DEF IInv, MatchInv, Matching
        <3>2. q \in Requests /\ req[q] \in SwipeRequest
            BY <3>1 DEF IInv, TypeOK, TransactionInv, Committed
        <3>3. req[q] = [actor |-> t, target |-> a, action |-> "like"]
            BY <3>1, <3>2 DEF SwipeRequest, Answers
        <3>4. QED
            BY <3>1, <3>3 DEF decisionsBar
    <2>5. Ledger!DecideAndOpen(a, t)
        BY <1>1, <1>3, <1>4, <1>5, <2>1, <2>3, <2>4 DEF Ledger!DecideAndOpen
    <2>6. QED
        BY <1>1, <2>5 DEF Ledger!Next
<1>8. QED
    BY <1>6, <1>7 DEF IInv, RowsInv

\* Publishing an event is telling its recipient.
LEMMA PublishStep ==
    ASSUME IInv, IInv', NEW r \in Requests, Publish(r)
    PROVE  Ledger!Next
<1>1. PICK partner \in {Partner(r), Nil} : published' = published \cup {MatchEvent(r, partner)}
    BY DEF Publish
<1>2. /\ tx[r] = "committed" /\ matchID[r] = r /\ req[r] \in SwipeRequest
      /\ Recipient(r) \in Pair(r)
    BY DEF IInv, TransactionInv, RowsInv, Publish, Publishing, Recipient, Pair
<1>3. r \in Committed(conversations) /\ req[r].actor \in Users /\ req[r].target \in Users
    BY <1>2 DEF IInv, RowsInv, TransactionInv, Publish, Committed, SwipeRequest,
       Querying, Publishing
<1>4. RoomOf(r) \in roomsBar
    BY <1>3, RoomsBarLemma DEF RoomsBarIsRooms, Rooms
<1>5. decisionsBar' = decisionsBar
    BY DEF Publish, rows, decisionsBar, Committed
<1>6. roomsBar' = roomsBar
    <2>1. Rooms' = Rooms
        BY DEF Publish, rows, Rooms, RoomOf, Pair, Committed
    <2>2. QED
        BY <2>1, RoomsBarLemma, RoomsBarLemmaNext DEF RoomsBarIsRooms
<1>7. toldBar' = toldBar \cup {<<Recipient(r), Pair(r)>>}
    <2>1. MatchEvent(r, partner).to = Recipient(r) /\ MatchEvent(r, partner).match = r
        BY <1>2 DEF MatchEvent
    <2>2. \A m : Pair(m)' = Pair(m)
        BY DEF Publish, Pair
    <2>3. QED
        BY <1>1, <2>1, <2>2 DEF toldBar
<1>8. Ledger!Tell(Recipient(r), Pair(r))
    BY <1>2, <1>4, <1>5, <1>6, <1>7 DEF Ledger!Tell, RoomOf
<1>9. QED
    BY <1>2, <1>3, <1>4, <1>8 DEF Ledger!Next, RoomOf, Pair

\* Every step is a step of the ledger or leaves what the ledger sees.
LEMMA StepSimulates == IInv /\ IInv' /\ [Next]_vars => [Ledger!Next]_barVars
<1> SUFFICES ASSUME IInv, IInv', [Next]_vars
             PROVE  Ledger!Next \/ barVars' = barVars
    OBVIOUS
<1> DEFINE Quiet ==
        /\ Committed(swipes)' = Committed(swipes)
        /\ Committed(conversations)' = Committed(conversations)
        /\ \A r \in Requests : r \in Committed(swipes) => req'[r] = req[r]
        /\ published' = published
<1>0. TypeOK /\ TransactionInv /\ RowsInv
    BY DEF IInv
<1> USE DEF TypeOK, TransactionInv, RowsInv, Committed, Querying
<1>1. ASSUME NEW r \in Requests, NEW a \in Users, NEW t \in Ids, Refuse(r, a, t)
      PROVE  Quiet
    BY <1>0, <1>1 DEF Refuse, rows
<1>2. ASSUME NEW r \in Requests, NEW a \in Users, NEW t \in Ids, NEW d \in Actions,
             BeginTx(r, a, t, d)
      PROVE  Quiet
    BY <1>0, <1>2 DEF BeginTx, rows
<1>3. ASSUME NEW r \in Requests, CreateSwipe(r)
      PROVE  Quiet
    BY <1>0, <1>3 DEF CreateSwipe
<1>4. ASSUME NEW r \in Requests, RejectInsert(r)
      PROVE  Quiet
    BY <1>0, <1>4 DEF RejectInsert, RollBack
<1>5. ASSUME NEW r \in Requests, HasReciprocalLike(r)
      PROVE  Quiet
    BY <1>0, <1>5 DEF HasReciprocalLike, rows
<1>6. ASSUME NEW r \in Requests, UpsertMatch(r)
      PROVE  Quiet
    BY <1>0, <1>6 DEF UpsertMatch
<1>7. ASSUME NEW r \in Requests, UpsertConversationForMatch(r)
      PROVE  Quiet
    BY <1>0, <1>7 DEF UpsertConversationForMatch
<1>8. ASSUME NEW r \in Requests, AddConversationMembers(r)
      PROVE  Quiet
    BY <1>0, <1>8 DEF AddConversationMembers
<1>9. ASSUME NEW r \in Requests, Commit(r) \/ CommitUnacknowledged(r)
      PROVE  Ledger!Next
    <2>1. /\ pc[r] = "commit"
          /\ tx' = [tx EXCEPT ![r] = "committed"]
          /\ UNCHANGED <<req, rows, locals, published>>
        BY <1>9 DEF Commit, CommitUnacknowledged
    <2>2. QED
        BY <2>1, CommitStep
<1>10. ASSUME NEW r \in Requests, Publish(r)
       PROVE  Ledger!Next
    BY <1>10, PublishStep
<1>11. ASSUME NEW r \in Requests, Fail(r) \/ LosePublish(r)
       PROVE  Quiet
    BY <1>0, <1>11 DEF Fail, LosePublish, RollBack, rows
<1>12. ASSUME Crash
       PROVE  Quiet
    BY <1>0, <1>12 DEF Crash, Undone
<1>13. ASSUME UNCHANGED vars
       PROVE  Quiet
    BY <1>13 DEF vars, rows
<1>14. Quiet => barVars' = barVars
    BY QuietStep
<1>15. QED
    BY <1>1, <1>2, <1>3, <1>4, <1>5, <1>6, <1>7, <1>8, <1>9, <1>10, <1>11,
       <1>12, <1>13, <1>14,
       NextCases DEF Handle, Disturb

\* The empty tables are the empty ledger.
LEMMA InitSimulates == Init => Ledger!Init
BY DEF Init, Ledger!Init, decisionsBar, roomsBar, toldBar, Committed

\* Committed decisions, rooms and announcements evolve as in SwipeLedger:
\* each transaction is one atomic decision, whatever fails or crashes.
THEOREM ImplementsLedger == Spec => LedgerSpec
<1>1. [Ledger!Next]_barVars => [Ledger!Next]_(Ledger!vars)
    BY DEF barVars, Ledger!vars
<1>2. QED
    BY <1>1, InitSimulates, StepSimulates, Invariance, PTL DEF Spec, LedgerSpec,
       Ledger!Spec
=============================================================================
