---------------------------- MODULE Chat_proofs ----------------------------
(***************************************************************************)
(* Theorems about Chat, for any users, rooms, sockets and requests.        *)
(***************************************************************************)
EXTENDS Chat, FiniteSetTheorems, WellFoundedInduction, TLAPS

Events == Posts \cup Typings

\* A request that passed the member check and made no failing call since.
Passed == {"insert", "commit", "members", "publish", "list", "mark"}

\* The steps a request of each kind goes through, and what it carries there.
RequestInv ==
    /\ \A r \in Requests :
          /\ pc[r] # "idle" =>
                conv[r] \in Conversations /\ from[r] \in Sockets \cup Users
          /\ pc[r] = "idle" => from[r] = None
          /\ pc[r] \in Passed => User(r) \in Members[conv[r]]
    /\ \A p \in Posts : pc[p] \notin {"list", "mark"}
    /\ \A t \in Typings : pc[t] \notin {"insert", "commit", "list", "mark"}
    /\ \A g \in Gets : pc[g] \in {"idle", "check", "list", "mark", "done"}
    /\ \A g \in Gets : pc[g] = "idle" => page[g] = {} /\ snapshot[g] = {}

\* A message is stored by a member, after which its row no longer changes but
\* for is_read.
StoredInv ==
    /\ \A p \in stored :
          /\ pc[p] \in {"members", "publish", "done"}
          /\ User(p) \in Members[conv[p]]
    /\ \A p \in Posts :
          /\ pc[p] \in {"members", "publish"} => p \in stored
          /\ created[p] <= clock

\* Members still to be told of an event; nobody before they are listed.
PendingInv ==
    \A r \in Events :
        /\ pc[r] \in {"idle", "check", "insert", "commit", "members"} => pending[r] = {}
        /\ pc[r] = "publish" => pending[r] \subseteq Members[conv[r]]
        /\ pc[r] = "publish" /\ r \in Typings => User(r) \notin pending[r]

\* An event is on a socket once it was published to the socket's owner.
FramesInv ==
    \A s \in Sockets : \A i \in DOMAIN frames[s] :
        LET r == frames[s][i] IN
        /\ pc[r] \in {"publish", "done"}
        /\ {User(r), Owner[s]} \subseteq Members[conv[r]]
        /\ pc[r] = "publish" => Owner[s] \notin pending[r]
        /\ r \in Posts => r \in stored
        /\ r \in Typings => User(r) # Owner[s]

\* The read loop serves one frame at a time, so of two frames of a socket one
\* is earlier, and over before the other comes in.
SocketInv ==
    /\ \A r \in Events : \A q \in earlier[r] :
          /\ pc[q] = "done"
          /\ q \in Posts /\ r \in Posts /\ (r \in stored \/ pc[r] = "commit") =>
                created[q] <= created[r]
    /\ \A q, r \in Events : q # r /\ from[q] = from[r] /\ from[q] \in Sockets =>
          q \in earlier[r] \/ r \in earlier[q]

\* What a listed page leaves out.
PageInv ==
    \A g \in Gets :
        /\ page[g] \subseteq stored
        /\ snapshot[g] \subseteq stored
        /\ \A p \in snapshot[g] : conv[p] = conv[g] =>
              \/ p \in page[g]
              \/ cursor[g] # None /\ created[p] >= cursor[g]
              \/ Cardinality(page[g]) = Limit
                    /\ \A q \in page[g] : created[p] <= created[q]

\* A mark is the last step of a GET.
MarkerInv == \A p \in read : marker[p] \in Gets /\ pc[marker[p]] = "done"

IInv ==
    /\ TypeOK
    /\ RequestInv
    /\ StoredInv
    /\ PendingInv
    /\ FramesInv
    /\ FramesInOrder
    /\ SocketInv
    /\ PageInv
    /\ MarkerInv
    /\ ReadsExplained

-----------------------------------------------------------------------------
(* The invariant is inductive.                                             *)

\* No step leaves the types.
LEMMA TypeOKNext ==
    TypeOK /\ RequestInv /\ [Next]_vars => TypeOK'
<1> SUFFICES ASSUME TypeOK, RequestInv, [Next]_vars
             PROVE  TypeOK'
    OBVIOUS
<1> USE NamesAssumption, RoomsAssumption, OwnerAssumption DEF Requests, Events,
        Goto, TypeOK, RequestInv
<1>1. ASSUME NEW s \in Sockets, Subscribe(s) \/ Unsubscribe(s)
      PROVE  TypeOK'
    BY <1>1 DEF Subscribe, Unsubscribe, asked, table, paging
<1>2. ASSUME NEW r \in Events, NEW s \in Sockets, ReceiveFrame(r, s)
      PROVE  TypeOK'
    BY <1>2 DEF ReceiveFrame, Requested, FramesOf, table, fanout, paging
<1>3. ASSUME NEW r \in Posts, NEW u \in Users, ReceivePost(r, u)
      PROVE  TypeOK'
    BY <1>3 DEF ReceivePost, Requested, table, fanout, paging
<1>4. ASSUME NEW g \in Gets, NEW u \in Users, ReceiveGet(g, u)
      PROVE  TypeOK'
    BY <1>4 DEF ReceiveGet, Requested, table, fanout
<1>5. ASSUME NEW r \in Requests, CheckMember(r)
      PROVE  TypeOK'
    BY <1>5 DEF CheckMember, AfterCheck, asked, table, fanout, paging
<1>6. ASSUME NEW r \in Requests, Abandon(r)
      PROVE  TypeOK'
    BY <1>6 DEF Abandon, asked, table, fanout, paging
<1>7. ASSUME NEW r \in Posts, BeginInsert(r)
      PROVE  TypeOK'
    BY <1>7 DEF BeginInsert, asked, fanout, paging
<1>8. ASSUME NEW r \in Posts, InsertMessage(r) \/ InsertUnacknowledged(r)
      PROVE  TypeOK'
    <2>1. CASE InsertMessage(r)
        BY <2>1 DEF InsertMessage, Committed, asked, fanout, paging
    <2>2. CASE InsertUnacknowledged(r)
        BY <2>2 DEF InsertUnacknowledged, Committed, asked, fanout, paging
    <2>3. QED
        BY <1>8, <2>1, <2>2
<1>9. ASSUME NEW r \in Events, ListMembers(r)
      PROVE  TypeOK'
    BY <1>9 DEF ListMembers, asked, table, paging
<1>10. ASSUME NEW r \in Events, Publish(r)
      PROVE  TypeOK'
    BY <1>10 DEF Publish, asked, table, paging
<1>11. ASSUME NEW r \in Events, Reply(r)
      PROVE  TypeOK'
    BY <1>11 DEF Reply, asked, table, fanout, paging
<1>12. ASSUME NEW g \in Gets, ListMessages(g)
      PROVE  TypeOK'
    BY <1>12 DEF ListMessages, Pages, asked, table, fanout
<1>13. ASSUME NEW g \in Gets, MarkMessagesRead(g)
      PROVE  TypeOK'
    BY <1>13 DEF MarkMessagesRead, asked, fanout, paging
<1>14. CASE Crash
    BY <1>14 DEF Crash, InFlight, asked, table, paging
<1>15. CASE UNCHANGED vars
    BY <1>15 DEF vars, asked, table, fanout, paging
<1>16. QED
    BY <1>1, <1>2, <1>3, <1>4, <1>5, <1>6, <1>7, <1>8, <1>9, <1>10, <1>11, <1>12,
       <1>13, <1>14, <1>15
    DEF Next, Waiting

\* Requests go through the steps of their kind, past the check only as members.
LEMMA RequestInvNext ==
    TypeOK /\ RequestInv /\ [Next]_vars => RequestInv'
<1> SUFFICES ASSUME TypeOK, RequestInv, [Next]_vars
             PROVE  RequestInv'
    OBVIOUS
<1> USE NamesAssumption, RoomsAssumption, OwnerAssumption DEF Requests, Events,
        Goto, TypeOK, RequestInv, Passed, User
<1>1. ASSUME NEW s \in Sockets, Subscribe(s) \/ Unsubscribe(s)
      PROVE  RequestInv'
    BY <1>1 DEF Subscribe, Unsubscribe, asked, table, paging
<1>2. ASSUME NEW r \in Events, NEW s \in Sockets, ReceiveFrame(r, s)
      PROVE  RequestInv'
    BY <1>2 DEF ReceiveFrame, Requested, table, fanout, paging
<1>3. ASSUME NEW r \in Posts, NEW u \in Users, ReceivePost(r, u)
      PROVE  RequestInv'
    BY <1>3 DEF ReceivePost, Requested, table, fanout, paging
<1>4. ASSUME NEW g \in Gets, NEW u \in Users, ReceiveGet(g, u)
      PROVE  RequestInv'
    BY <1>4 DEF ReceiveGet, Requested, table, fanout
<1>5. ASSUME NEW r \in Requests, CheckMember(r)
      PROVE  RequestInv'
    BY <1>5 DEF CheckMember, AfterCheck, asked, table, fanout, paging
<1>6. ASSUME NEW r \in Requests, Abandon(r)
      PROVE  RequestInv'
    BY <1>6 DEF Abandon, asked, table, fanout, paging
<1>7. ASSUME NEW r \in Posts, BeginInsert(r)
      PROVE  RequestInv'
    BY <1>7 DEF BeginInsert, asked, fanout, paging
<1>8. ASSUME NEW r \in Posts, InsertMessage(r) \/ InsertUnacknowledged(r)
      PROVE  RequestInv'
    <2>1. CASE InsertMessage(r)
        BY <2>1 DEF InsertMessage, Committed, asked, fanout, paging
    <2>2. CASE InsertUnacknowledged(r)
        BY <2>2 DEF InsertUnacknowledged, Committed, asked, fanout, paging
    <2>3. QED
        BY <1>8, <2>1, <2>2
<1>9. ASSUME NEW r \in Events, ListMembers(r)
      PROVE  RequestInv'
    BY <1>9 DEF ListMembers, asked, table, paging
<1>10. ASSUME NEW r \in Events, Publish(r)
      PROVE  RequestInv'
    BY <1>10 DEF Publish, asked, table, paging
<1>11. ASSUME NEW r \in Events, Reply(r)
      PROVE  RequestInv'
    BY <1>11 DEF Reply, asked, table, fanout, paging
<1>12. ASSUME NEW g \in Gets, ListMessages(g)
      PROVE  RequestInv'
    BY <1>12 DEF ListMessages, asked, table, fanout
<1>13. ASSUME NEW g \in Gets, MarkMessagesRead(g)
      PROVE  RequestInv'
    BY <1>13 DEF MarkMessagesRead, asked, fanout, paging
<1>14. CASE Crash
    BY <1>14 DEF Crash, InFlight, asked, table, paging
<1>15. CASE UNCHANGED vars
    BY <1>15 DEF vars, asked, table, fanout, paging
<1>16. QED
    BY <1>1, <1>2, <1>3, <1>4, <1>5, <1>6, <1>7, <1>8, <1>9, <1>10, <1>11, <1>12,
       <1>13, <1>14, <1>15
    DEF Next, Waiting

\* Stored messages stay as they were stored.
LEMMA StoredInvNext ==
    TypeOK /\ RequestInv /\ StoredInv /\ [Next]_vars => StoredInv'
<1> SUFFICES ASSUME TypeOK, RequestInv, StoredInv, [Next]_vars
             PROVE  StoredInv'
    OBVIOUS
<1> USE NamesAssumption, RoomsAssumption, OwnerAssumption DEF Requests, Events,
        Goto, TypeOK, RequestInv, StoredInv, Passed, User
<1>1. ASSUME NEW s \in Sockets, Subscribe(s) \/ Unsubscribe(s)
      PROVE  StoredInv'
    BY <1>1 DEF Subscribe, Unsubscribe, asked, table, paging
<1>2. ASSUME NEW r \in Events, NEW s \in Sockets, ReceiveFrame(r, s)
      PROVE  StoredInv'
    BY <1>2 DEF ReceiveFrame, Requested, table, fanout, paging
<1>3. ASSUME NEW r \in Posts, NEW u \in Users, ReceivePost(r, u)
      PROVE  StoredInv'
    BY <1>3 DEF ReceivePost, Requested, table, fanout, paging
<1>4. ASSUME NEW g \in Gets, NEW u \in Users, ReceiveGet(g, u)
      PROVE  StoredInv'
    BY <1>4 DEF ReceiveGet, Requested, table, fanout
<1>5. ASSUME NEW r \in Requests, CheckMember(r)
      PROVE  StoredInv'
    BY <1>5 DEF CheckMember, AfterCheck, asked, table, fanout, paging
<1>6. ASSUME NEW r \in Requests, Abandon(r)
      PROVE  StoredInv'
    BY <1>6 DEF Abandon, asked, table, fanout, paging
<1>7. ASSUME NEW r \in Posts, BeginInsert(r)
      PROVE  StoredInv'
    BY <1>7 DEF BeginInsert, asked, fanout, paging
<1>8. ASSUME NEW r \in Posts, InsertMessage(r) \/ InsertUnacknowledged(r)
      PROVE  StoredInv'
    <2>1. CASE InsertMessage(r)
        BY <2>1 DEF InsertMessage, Committed, asked, fanout, paging
    <2>2. CASE InsertUnacknowledged(r)
        BY <2>2 DEF InsertUnacknowledged, Committed, asked, fanout, paging
    <2>3. QED
        BY <1>8, <2>1, <2>2
<1>9. ASSUME NEW r \in Events, ListMembers(r)
      PROVE  StoredInv'
    BY <1>9 DEF ListMembers, asked, table, paging
<1>10. ASSUME NEW r \in Events, Publish(r)
      PROVE  StoredInv'
    BY <1>10 DEF Publish, asked, table, paging
<1>11. ASSUME NEW r \in Events, Reply(r)
      PROVE  StoredInv'
    BY <1>11 DEF Reply, asked, table, fanout, paging
<1>12. ASSUME NEW g \in Gets, ListMessages(g)
      PROVE  StoredInv'
    BY <1>12 DEF ListMessages, asked, table, fanout
<1>13. ASSUME NEW g \in Gets, MarkMessagesRead(g)
      PROVE  StoredInv'
    BY <1>13 DEF MarkMessagesRead, asked, fanout, paging
<1>14. CASE Crash
    BY <1>14 DEF Crash, InFlight, asked, table, paging
<1>15. CASE UNCHANGED vars
    BY <1>15 DEF vars, asked, table, fanout, paging
<1>16. QED
    BY <1>1, <1>2, <1>3, <1>4, <1>5, <1>6, <1>7, <1>8, <1>9, <1>10, <1>11, <1>12,
       <1>13, <1>14, <1>15
    DEF Next, Waiting

\* Only members are waited for.
LEMMA PendingInvNext ==
    TypeOK /\ RequestInv /\ PendingInv /\ [Next]_vars => PendingInv'
<1> SUFFICES ASSUME TypeOK, RequestInv, PendingInv, [Next]_vars
             PROVE  PendingInv'
    OBVIOUS
<1> USE NamesAssumption, RoomsAssumption, OwnerAssumption DEF Requests, Events,
        Goto, TypeOK, RequestInv, PendingInv, User
<1>1. ASSUME NEW s \in Sockets, Subscribe(s) \/ Unsubscribe(s)
      PROVE  PendingInv'
    BY <1>1 DEF Subscribe, Unsubscribe, asked, table, paging
<1>2. ASSUME NEW r \in Events, NEW s \in Sockets, ReceiveFrame(r, s)
      PROVE  PendingInv'
    BY <1>2 DEF ReceiveFrame, Requested, table, fanout, paging
<1>3. ASSUME NEW r \in Posts, NEW u \in Users, ReceivePost(r, u)
      PROVE  PendingInv'
    BY <1>3 DEF ReceivePost, Requested, table, fanout, paging
<1>4. ASSUME NEW g \in Gets, NEW u \in Users, ReceiveGet(g, u)
      PROVE  PendingInv'
    BY <1>4 DEF ReceiveGet, Requested, table, fanout
<1>5. ASSUME NEW r \in Requests, CheckMember(r)
      PROVE  PendingInv'
    BY <1>5 DEF CheckMember, AfterCheck, asked, table, fanout, paging
<1>6. ASSUME NEW r \in Requests, Abandon(r)
      PROVE  PendingInv'
    BY <1>6 DEF Abandon, asked, table, fanout, paging
<1>7. ASSUME NEW r \in Posts, BeginInsert(r)
      PROVE  PendingInv'
    BY <1>7 DEF BeginInsert, asked, fanout, paging
<1>8. ASSUME NEW r \in Posts, InsertMessage(r) \/ InsertUnacknowledged(r)
      PROVE  PendingInv'
    <2>1. CASE InsertMessage(r)
        BY <2>1 DEF InsertMessage, Committed, asked, fanout, paging
    <2>2. CASE InsertUnacknowledged(r)
        BY <2>2 DEF InsertUnacknowledged, Committed, asked, fanout, paging
    <2>3. QED
        BY <1>8, <2>1, <2>2
<1>9. ASSUME NEW r \in Events, ListMembers(r)
      PROVE  PendingInv'
    BY <1>9 DEF ListMembers, asked, table, paging
<1>10. ASSUME NEW r \in Events, Publish(r)
      PROVE  PendingInv'
    BY <1>10 DEF Publish, asked, table, paging
<1>11. ASSUME NEW r \in Events, Reply(r)
      PROVE  PendingInv'
    BY <1>11 DEF Reply, asked, table, fanout, paging
<1>12. ASSUME NEW g \in Gets, ListMessages(g)
      PROVE  PendingInv'
    BY <1>12 DEF ListMessages, asked, table, fanout
<1>13. ASSUME NEW g \in Gets, MarkMessagesRead(g)
      PROVE  PendingInv'
    BY <1>13 DEF MarkMessagesRead, asked, fanout, paging
<1>14. CASE Crash
    BY <1>14 DEF Crash, InFlight, asked, table, paging
<1>15. CASE UNCHANGED vars
    BY <1>15 DEF vars, asked, table, fanout, paging
<1>16. QED
    BY <1>1, <1>2, <1>3, <1>4, <1>5, <1>6, <1>7, <1>8, <1>9, <1>10, <1>11, <1>12,
       <1>13, <1>14, <1>15
    DEF Next, Waiting

\* Publish adds the event at the end of what sockets of one member were pushed.
LEMMA PublishedTo ==
    ASSUME TypeOK, NEW r \in Events, Publish(r)
    PROVE  \E u \in pending[r] :
              /\ pending' = [pending EXCEPT ![r] = @ \ {u}]
              /\ \A s \in Sockets :
                    \/ frames'[s] = frames[s]
                    \/ frames'[s] = Append(frames[s], r) /\ Owner[s] = u
<1>1. PICK u \in pending[r] :
         \E reached \in SUBSET {s \in online : Owner[s] = u} :
            /\ frames' = [s \in Sockets |->
                             IF s \in reached THEN Append(frames[s], r) ELSE frames[s]]
            /\ pending' = [pending EXCEPT ![r] = @ \ {u}]
    BY DEF Publish
<1>2. PICK reached \in SUBSET {s \in online : Owner[s] = u} :
         /\ frames' = [s \in Sockets |->
                          IF s \in reached THEN Append(frames[s], r) ELSE frames[s]]
         /\ pending' = [pending EXCEPT ![r] = @ \ {u}]
    BY <1>1
<1>3. \A s \in reached : Owner[s] = u
    OBVIOUS
<1>4. QED
    BY <1>2, <1>3

\* Pushing to one member's sockets keeps every frame truthful.
LEMMA FramesInvNext ==
    TypeOK /\ RequestInv /\ StoredInv /\ PendingInv /\ FramesInv
    /\ [Next]_vars => FramesInv'
<1> SUFFICES ASSUME TypeOK, RequestInv, StoredInv, PendingInv, FramesInv,
                 [Next]_vars
             PROVE  FramesInv'
    OBVIOUS
<1> USE NamesAssumption, RoomsAssumption, OwnerAssumption DEF Requests, Events,
        Goto, TypeOK, RequestInv, StoredInv, PendingInv, FramesInv, Passed, User
<1>1. ASSUME NEW s \in Sockets, Subscribe(s) \/ Unsubscribe(s)
      PROVE  FramesInv'
    BY <1>1 DEF Subscribe, Unsubscribe, asked, table, paging
<1>2. ASSUME NEW r \in Events, NEW s \in Sockets, ReceiveFrame(r, s)
      PROVE  FramesInv'
    BY <1>2 DEF ReceiveFrame, Requested, table, fanout, paging
<1>3. ASSUME NEW r \in Posts, NEW u \in Users, ReceivePost(r, u)
      PROVE  FramesInv'
    BY <1>3 DEF ReceivePost, Requested, table, fanout, paging
<1>4. ASSUME NEW g \in Gets, NEW u \in Users, ReceiveGet(g, u)
      PROVE  FramesInv'
    BY <1>4 DEF ReceiveGet, Requested, table, fanout
<1>5. ASSUME NEW r \in Requests, CheckMember(r)
      PROVE  FramesInv'
    BY <1>5 DEF CheckMember, AfterCheck, asked, table, fanout, paging
<1>6. ASSUME NEW r \in Requests, Abandon(r)
      PROVE  FramesInv'
    BY <1>6 DEF Abandon, asked, table, fanout, paging
<1>7. ASSUME NEW r \in Posts, BeginInsert(r)
      PROVE  FramesInv'
    BY <1>7 DEF BeginInsert, asked, fanout, paging
<1>8. ASSUME NEW r \in Posts, InsertMessage(r) \/ InsertUnacknowledged(r)
      PROVE  FramesInv'
    <2>1. CASE InsertMessage(r)
        BY <2>1 DEF InsertMessage, Committed, asked, fanout, paging
    <2>2. CASE InsertUnacknowledged(r)
        BY <2>2 DEF InsertUnacknowledged, Committed, asked, fanout, paging
    <2>3. QED
        BY <1>8, <2>1, <2>2
<1>9. ASSUME NEW r \in Events, ListMembers(r)
      PROVE  FramesInv'
    BY <1>9 DEF ListMembers, asked, table, paging
<1>10. ASSUME NEW r \in Events, Publish(r)
      PROVE  FramesInv'
    <2>1. UNCHANGED <<pc, from, conv, stored>> /\ pc[r] = "publish"
        BY <1>10 DEF Publish, asked, table
    <2>2. PICK u \in pending[r] :
             /\ pending' = [pending EXCEPT ![r] = @ \ {u}]
             /\ \A s \in Sockets :
                   \/ frames'[s] = frames[s]
                   \/ frames'[s] = Append(frames[s], r) /\ Owner[s] = u
        BY <1>10, PublishedTo
    <2>3. u \in Members[conv[r]] /\ User(r) \in Members[conv[r]]
        BY <2>1
    <2>4. \A q \in Events : pending'[q] \subseteq pending[q]
        BY <2>2
    <2>5. u \notin pending'[r]
        BY <2>2
    <2>6. \A s \in Sockets : \A i \in DOMAIN frames'[s] :
             \/ i \in DOMAIN frames[s] /\ frames'[s][i] = frames[s][i]
             \/ frames'[s][i] = r /\ Owner[s] = u
        <3> SUFFICES ASSUME NEW s \in Sockets, NEW i \in DOMAIN frames'[s]
                     PROVE  \/ i \in DOMAIN frames[s] /\ frames'[s][i] = frames[s][i]
                            \/ frames'[s][i] = r /\ Owner[s] = u
            OBVIOUS
        <3>1. frames[s] \in Seq(Events)
            OBVIOUS
        <3>2. CASE frames'[s] = frames[s]
            BY <3>2
        <3>3. CASE frames'[s] = Append(frames[s], r) /\ Owner[s] = u
            <4>1. DOMAIN frames'[s] = 1 .. Len(frames[s]) + 1
                BY <3>1, <3>3
            <4>2. DOMAIN frames[s] = 1 .. Len(frames[s])
                BY <3>1
            <4>3. CASE i = Len(frames[s]) + 1
                BY <3>1, <3>3, <4>3
            <4>4. CASE i \in 1 .. Len(frames[s])
                BY <3>1, <3>3, <4>2, <4>4
            <4>5. QED
                BY <3>1, <4>1, <4>3, <4>4
        <3>4. QED
            BY <2>2, <3>2, <3>3
    <2>7. ASSUME NEW s \in Sockets, NEW i \in DOMAIN frames'[s]
          PROVE  LET q == frames'[s][i] IN
                 /\ pc[q] \in {"publish", "done"}
                 /\ {User(q), Owner[s]} \subseteq Members[conv[q]]
                 /\ pc[q] = "publish" => Owner[s] \notin pending'[q]
                 /\ q \in Posts => q \in stored
                 /\ q \in Typings => User(q) # Owner[s]
        <3>1. CASE i \in DOMAIN frames[s] /\ frames'[s][i] = frames[s][i]
            <4>1. frames[s][i] \in Events
                BY <3>1
            <4>2. QED
                BY <2>4, <3>1, <4>1
        <3>2. CASE frames'[s][i] = r /\ Owner[s] = u
            BY <2>1, <2>3, <2>5, <3>2
        <3>3. QED
            BY <2>6, <3>1, <3>2
    <2>8. QED
        BY <2>1, <2>7
<1>11. ASSUME NEW r \in Events, Reply(r)
      PROVE  FramesInv'
    BY <1>11 DEF Reply, asked, table, fanout, paging
<1>12. ASSUME NEW g \in Gets, ListMessages(g)
      PROVE  FramesInv'
    BY <1>12 DEF ListMessages, asked, table, fanout
<1>13. ASSUME NEW g \in Gets, MarkMessagesRead(g)
      PROVE  FramesInv'
    BY <1>13 DEF MarkMessagesRead, asked, fanout, paging
<1>14. CASE Crash
    BY <1>14 DEF Crash, InFlight, asked, table, paging
<1>15. CASE UNCHANGED vars
    BY <1>15 DEF vars, asked, table, fanout, paging
<1>16. QED
    BY <1>1, <1>2, <1>3, <1>4, <1>5, <1>6, <1>7, <1>8, <1>9, <1>10, <1>11, <1>12,
       <1>13, <1>14, <1>15
    DEF Next, Waiting

\* A socket's frames are served one after the other.
LEMMA SocketInvNext ==
    TypeOK /\ RequestInv /\ StoredInv /\ SocketInv /\ [Next]_vars => SocketInv'
<1> SUFFICES ASSUME TypeOK, RequestInv, StoredInv, SocketInv, [Next]_vars
             PROVE  SocketInv'
    OBVIOUS
<1> USE NamesAssumption, RoomsAssumption, OwnerAssumption DEF Requests, Events,
        Goto, TypeOK, RequestInv, StoredInv, SocketInv
<1>1. ASSUME NEW s \in Sockets, Subscribe(s) \/ Unsubscribe(s)
      PROVE  SocketInv'
    BY <1>1 DEF Subscribe, Unsubscribe, asked, table, paging
<1>2. ASSUME NEW r \in Events, NEW s \in Sockets, ReceiveFrame(r, s)
      PROVE  SocketInv'
    <2>1. \A q \in FramesOf(s) : pc[q] = "done" /\ q # r
        BY <1>2 DEF ReceiveFrame, Requested, FramesOf, InFlight
    <2>2. r \notin stored /\ pc'[r] = "check"
        BY <1>2 DEF ReceiveFrame, Requested
    <2>3. QED
        BY <1>2, <2>1, <2>2 DEF ReceiveFrame, Requested, FramesOf, table,
           fanout, paging
<1>3. ASSUME NEW r \in Posts, NEW u \in Users, ReceivePost(r, u)
      PROVE  SocketInv'
    BY <1>3 DEF ReceivePost, Requested, table, fanout, paging
<1>4. ASSUME NEW g \in Gets, NEW u \in Users, ReceiveGet(g, u)
      PROVE  SocketInv'
    BY <1>4 DEF ReceiveGet, Requested, table, fanout
<1>5. ASSUME NEW r \in Requests, CheckMember(r)
      PROVE  SocketInv'
    BY <1>5 DEF CheckMember, AfterCheck, asked, table, fanout, paging
<1>6. ASSUME NEW r \in Requests, Abandon(r)
      PROVE  SocketInv'
    BY <1>6 DEF Abandon, asked, table, fanout, paging
<1>7. ASSUME NEW r \in Posts, BeginInsert(r)
      PROVE  SocketInv'
    BY <1>7 DEF BeginInsert, asked, fanout, paging
<1>8. ASSUME NEW r \in Posts, InsertMessage(r) \/ InsertUnacknowledged(r)
      PROVE  SocketInv'
    <2>1. CASE InsertMessage(r)
        BY <2>1 DEF InsertMessage, Committed, asked, fanout, paging
    <2>2. CASE InsertUnacknowledged(r)
        BY <2>2 DEF InsertUnacknowledged, Committed, asked, fanout, paging
    <2>3. QED
        BY <1>8, <2>1, <2>2
<1>9. ASSUME NEW r \in Events, ListMembers(r)
      PROVE  SocketInv'
    BY <1>9 DEF ListMembers, asked, table, paging
<1>10. ASSUME NEW r \in Events, Publish(r)
      PROVE  SocketInv'
    BY <1>10 DEF Publish, asked, table, paging
<1>11. ASSUME NEW r \in Events, Reply(r)
      PROVE  SocketInv'
    BY <1>11 DEF Reply, asked, table, fanout, paging
<1>12. ASSUME NEW g \in Gets, ListMessages(g)
      PROVE  SocketInv'
    BY <1>12 DEF ListMessages, asked, table, fanout
<1>13. ASSUME NEW g \in Gets, MarkMessagesRead(g)
      PROVE  SocketInv'
    BY <1>13 DEF MarkMessagesRead, asked, fanout, paging
<1>14. CASE Crash
    BY <1>14 DEF Crash, InFlight, asked, table, paging
<1>15. CASE UNCHANGED vars
    BY <1>15 DEF vars, asked, table, fanout, paging
<1>16. QED
    BY <1>1, <1>2, <1>3, <1>4, <1>5, <1>6, <1>7, <1>8, <1>9, <1>10, <1>11, <1>12,
       <1>13, <1>14, <1>15
    DEF Next, Waiting

\* Pushing at the end of a socket's frames keeps them in order.
LEMMA FramesInOrderNext ==
    TypeOK /\ RequestInv /\ StoredInv /\ PendingInv /\ FramesInv /\ SocketInv
    /\ FramesInOrder /\ [Next]_vars => FramesInOrder'
<1> SUFFICES ASSUME TypeOK, RequestInv, StoredInv, PendingInv, FramesInv,
                 SocketInv, FramesInOrder, [Next]_vars
             PROVE  FramesInOrder'
    OBVIOUS
<1> USE NamesAssumption DEF Requests, Events, Goto
<1>a. ASSUME frames' = frames,
             \A s \in Sockets : \A i \in DOMAIN frames[s] :
                /\ from'[frames[s][i]] = from[frames[s][i]]
                /\ earlier'[frames[s][i]] = earlier[frames[s][i]]
                /\ frames[s][i] \in Posts =>
                      created'[frames[s][i]] = created[frames[s][i]]
      PROVE  FramesInOrder'
    BY <1>a DEF FramesInOrder
<1>b. ASSUME UNCHANGED <<frames, asked, created>>
      PROVE  FramesInOrder'
    BY <1>a, <1>b DEF asked
<1>c. \A s \in Sockets : \A i \in DOMAIN frames[s] :
          frames[s][i] \in Events /\ pc[frames[s][i]] \in {"publish", "done"}
    BY DEF TypeOK, FramesInv
<1>1. ASSUME NEW s \in Sockets, Subscribe(s) \/ Unsubscribe(s)
      PROVE  FramesInOrder'
    BY <1>1, <1>b DEF Subscribe, Unsubscribe, table
<1>2. ASSUME NEW r \in Events, NEW s \in Sockets, ReceiveFrame(r, s)
      PROVE  FramesInOrder'
    <2>1. UNCHANGED <<frames, created>>
        BY <1>2 DEF ReceiveFrame, fanout, table
    <2>2. \A q \in Events : pc[q] \in {"publish", "done"} =>
             from'[q] = from[q] /\ earlier'[q] = earlier[q]
        BY <1>2, <2>1 DEF ReceiveFrame, Requested, TypeOK
    <2>3. QED
        BY <1>a, <1>c, <2>1, <2>2
<1>3. ASSUME NEW r \in Posts, NEW u \in Users, ReceivePost(r, u)
      PROVE  FramesInOrder'
    <2>1. UNCHANGED <<frames, created, earlier>>
        BY <1>3 DEF ReceivePost, fanout, table
    <2>2. \A q \in Events : pc[q] \in {"publish", "done"} =>
             from'[q] = from[q] /\ earlier'[q] = earlier[q]
        BY <1>3, <2>1 DEF ReceivePost, Requested, TypeOK
    <2>3. QED
        BY <1>a, <1>c, <2>1, <2>2
<1>4. ASSUME NEW g \in Gets, NEW u \in Users, ReceiveGet(g, u)
      PROVE  FramesInOrder'
    <2>1. UNCHANGED <<frames, created, earlier>>
        BY <1>4 DEF ReceiveGet, fanout, table
    <2>2. \A q \in Events : pc[q] \in {"publish", "done"} =>
             from'[q] = from[q] /\ earlier'[q] = earlier[q]
        BY <1>4, <2>1 DEF ReceiveGet, Requested, TypeOK
    <2>3. QED
        BY <1>a, <1>c, <2>1, <2>2
<1>5. ASSUME NEW r \in Requests, CheckMember(r)
      PROVE  FramesInOrder'
    BY <1>5, <1>b DEF CheckMember, AfterCheck, table, fanout
<1>6. ASSUME NEW r \in Requests, Abandon(r)
      PROVE  FramesInOrder'
    BY <1>6, <1>b DEF Abandon, table, fanout
<1>7. ASSUME NEW r \in Posts, BeginInsert(r)
      PROVE  FramesInOrder'
    <2>1. UNCHANGED <<frames, from, earlier>>
        BY <1>7 DEF BeginInsert, fanout, asked
    <2>2. \A q \in Posts : pc[q] \in {"publish", "done"} => created'[q] = created[q]
        BY <1>7 DEF BeginInsert, TypeOK
    <2>3. QED
        BY <1>a, <1>c, <2>1, <2>2
<1>8. ASSUME NEW r \in Posts, InsertMessage(r) \/ InsertUnacknowledged(r)
      PROVE  FramesInOrder'
    BY <1>8, <1>b DEF InsertMessage, InsertUnacknowledged, Committed, fanout
<1>9. ASSUME NEW r \in Events, ListMembers(r)
      PROVE  FramesInOrder'
    BY <1>9, <1>b DEF ListMembers, table
<1>10. ASSUME NEW r \in Events, Publish(r)
      PROVE  FramesInOrder'
    <2>1. UNCHANGED <<from, earlier, created>> /\ pc[r] = "publish"
        BY <1>10 DEF Publish, asked, table
    <2>2. PICK u \in pending[r] : \E reached \in SUBSET {s \in online : Owner[s] = u} :
             frames' = [s \in Sockets |->
                          IF s \in reached THEN Append(frames[s], r) ELSE frames[s]]
        BY <1>10 DEF Publish
    <2>3. PICK reached \in SUBSET {s \in online : Owner[s] = u} :
             frames' = [s \in Sockets |->
                          IF s \in reached THEN Append(frames[s], r) ELSE frames[s]]
        BY <2>2
    <2> SUFFICES ASSUME NEW s \in Sockets, NEW i \in DOMAIN frames'[s],
                        NEW j \in DOMAIN frames'[s], i < j
                 PROVE  /\ frames'[s][i] # frames'[s][j]
                        /\ from[frames'[s][i]] = from[frames'[s][j]]
                           /\ from[frames'[s][i]] \in Sockets =>
                              /\ frames'[s][i] \in earlier[frames'[s][j]]
                              /\ {frames'[s][i], frames'[s][j]} \subseteq Posts =>
                                   created[frames'[s][i]] <= created[frames'[s][j]]
        BY <2>1 DEF FramesInOrder
    <2>4. CASE s \notin reached
        BY <2>3, <2>4 DEF FramesInOrder
    <2>5. CASE s \in reached
        <3>1. frames[s] \in Seq(Events) /\ frames'[s] = Append(frames[s], r)
            BY <2>3, <2>5 DEF TypeOK
        <3>2. i \in 1 .. Len(frames[s]) /\ frames'[s][i] = frames[s][i]
            BY <3>1
        <3>3. CASE j \in 1 .. Len(frames[s])
            <4>1. frames'[s][j] = frames[s][j]
                BY <3>1, <3>3
            <4>2. QED
                BY <3>1, <3>2, <3>3, <4>1 DEF FramesInOrder
        <3>4. CASE j = Len(frames[s]) + 1
            <4> DEFINE q == frames[s][i]
            <4>1. frames'[s][j] = r /\ q \in Events
                BY <3>1, <3>2, <3>4
            <4>2. i \in DOMAIN frames[s] /\ Owner[s] = u
                BY <2>3, <2>5, <3>1, <3>2
            <4>3. q # r
                BY <2>1, <2>2, <4>2 DEF FramesInv
            <4>4. from[q] = from[r] /\ from[q] \in Sockets => q \in earlier[r]
                BY <2>1, <4>1, <4>3 DEF SocketInv
            <4>5. q \in earlier[r] /\ {q, r} \subseteq Posts => created[q] <= created[r]
                BY <2>1 DEF SocketInv, StoredInv
            <4>6. QED
                BY <3>2, <4>1, <4>3, <4>4, <4>5
        <3>5. QED
            BY <3>1, <3>3, <3>4
    <2>6. QED
        BY <2>4, <2>5
<1>11. ASSUME NEW r \in Events, Reply(r)
      PROVE  FramesInOrder'
    BY <1>11, <1>b DEF Reply, table, fanout
<1>12. ASSUME NEW g \in Gets, ListMessages(g)
      PROVE  FramesInOrder'
    BY <1>12, <1>b DEF ListMessages, table, fanout
<1>13. ASSUME NEW g \in Gets, MarkMessagesRead(g)
      PROVE  FramesInOrder'
    BY <1>13, <1>b DEF MarkMessagesRead, fanout
<1>14. CASE Crash
    BY <1>14, <1>b DEF Crash, InFlight, table
<1>15. CASE UNCHANGED vars
    BY <1>15, <1>b DEF vars, table, fanout
<1>16. QED
    BY <1>1, <1>2, <1>3, <1>4, <1>5, <1>6, <1>7, <1>8, <1>9, <1>10, <1>11, <1>12,
       <1>13, <1>14, <1>15
    DEF Next, Waiting

\* A page stays explained while its request has not marked.
LEMMA PageInvNext ==
    TypeOK /\ RequestInv /\ StoredInv /\ PageInv /\ [Next]_vars => PageInv'
<1> SUFFICES ASSUME TypeOK, RequestInv, StoredInv, PageInv, [Next]_vars
             PROVE  PageInv'
    OBVIOUS
<1> USE NamesAssumption, RoomsAssumption, OwnerAssumption DEF Requests, Events,
        Goto, TypeOK, RequestInv, StoredInv, PageInv
<1>1. ASSUME NEW s \in Sockets, Subscribe(s) \/ Unsubscribe(s)
      PROVE  PageInv'
    BY <1>1 DEF Subscribe, Unsubscribe, asked, table, paging
<1>2. ASSUME NEW r \in Events, NEW s \in Sockets, ReceiveFrame(r, s)
      PROVE  PageInv'
    <2>1. UNCHANGED <<page, snapshot, stored, created, cursor>>
        BY <1>2 DEF ReceiveFrame, table, paging
    <2>2. \A g \in Gets : pc'[g] = pc[g] /\ conv'[g] = conv[g]
        BY <1>2 DEF ReceiveFrame, Requested
    <2>3. \A p \in stored : conv'[p] = conv[p]
        <3>1. \A p \in stored : p \in Posts /\ p # r
            BY <1>2 DEF ReceiveFrame, Requested
        <3>2. PICK k : conv' = [conv EXCEPT ![r] = k]
            BY <1>2 DEF ReceiveFrame, Requested
        <3>3. QED
            BY <3>1, <3>2
    <2>4. QED
        BY <2>1, <2>2, <2>3
<1>3. ASSUME NEW r \in Posts, NEW u \in Users, ReceivePost(r, u)
      PROVE  PageInv'
    <2>1. UNCHANGED <<page, snapshot, stored, created, cursor>>
        BY <1>3 DEF ReceivePost, table, paging
    <2>2. \A g \in Gets : pc'[g] = pc[g] /\ conv'[g] = conv[g]
        BY <1>3 DEF ReceivePost, Requested
    <2>3. \A p \in stored : conv'[p] = conv[p]
        <3>1. \A p \in stored : p \in Posts /\ p # r
            BY <1>3 DEF ReceivePost, Requested
        <3>2. PICK k : conv' = [conv EXCEPT ![r] = k]
            BY <1>3 DEF ReceivePost, Requested
        <3>3. QED
            BY <3>1, <3>2
    <2>4. QED
        BY <2>1, <2>2, <2>3
<1>4. ASSUME NEW g \in Gets, NEW u \in Users, ReceiveGet(g, u)
      PROVE  PageInv'
    <2>1. UNCHANGED <<page, snapshot, stored, created>>
        BY <1>4 DEF ReceiveGet, table
    <2>2. /\ pc' = [pc EXCEPT ![g] = "check"]
          /\ \E k \in Conversations : conv' = [conv EXCEPT ![g] = k]
          /\ \E before : cursor' = [cursor EXCEPT ![g] = before]
          /\ pc[g] = "idle"
        BY <1>4 DEF ReceiveGet, Requested
    <2>3. \A p \in stored : conv'[p] = conv[p]
        BY <2>2
    <2>4. \A h \in Gets : snapshot[h] = {} \/ (conv'[h] = conv[h] /\ cursor'[h] = cursor[h])
        BY <2>2
    <2>5. QED
        BY <2>1, <2>3, <2>4
<1>5. ASSUME NEW r \in Requests, CheckMember(r)
      PROVE  PageInv'
    BY <1>5 DEF CheckMember, AfterCheck, asked, table, fanout, paging
<1>6. ASSUME NEW r \in Requests, Abandon(r)
      PROVE  PageInv'
    BY <1>6 DEF Abandon, asked, table, fanout, paging
<1>7. ASSUME NEW r \in Posts, BeginInsert(r)
      PROVE  PageInv'
    <2>1. UNCHANGED <<page, snapshot, stored, conv, cursor>>
        BY <1>7 DEF BeginInsert, asked, paging
    <2>2. \A g \in Gets : pc'[g] = pc[g]
        BY <1>7 DEF BeginInsert
    <2>3. \A p \in stored : created'[p] = created[p]
        <3>1. \A p \in stored : p \in Posts /\ p # r
            BY <1>7 DEF BeginInsert
        <3>2. created' = [created EXCEPT ![r] = clock']
            BY <1>7 DEF BeginInsert
        <3>3. QED
            BY <3>1, <3>2
    <2>4. QED
        BY <2>1, <2>2, <2>3
<1>8. ASSUME NEW r \in Posts, InsertMessage(r) \/ InsertUnacknowledged(r)
      PROVE  PageInv'
    <2>1. CASE InsertMessage(r)
        BY <2>1 DEF InsertMessage, Committed, asked, fanout, paging
    <2>2. CASE InsertUnacknowledged(r)
        BY <2>2 DEF InsertUnacknowledged, Committed, asked, fanout, paging
    <2>3. QED
        BY <1>8, <2>1, <2>2
<1>9. ASSUME NEW r \in Events, ListMembers(r)
      PROVE  PageInv'
    BY <1>9 DEF ListMembers, asked, table, paging
<1>10. ASSUME NEW r \in Events, Publish(r)
      PROVE  PageInv'
    BY <1>10 DEF Publish, asked, table, paging
<1>11. ASSUME NEW r \in Events, Reply(r)
      PROVE  PageInv'
    BY <1>11 DEF Reply, asked, table, fanout, paging
<1>12. ASSUME NEW g \in Gets, ListMessages(g)
      PROVE  PageInv'
    <2>1. PICK shown \in Pages(conv[g], cursor[g]) : page' = [page EXCEPT ![g] = shown]
        BY <1>12 DEF ListMessages
    <2>2. snapshot' = [snapshot EXCEPT ![g] = stored]
        BY <1>12 DEF ListMessages
    <2>3. UNCHANGED <<stored, created, conv, cursor>>
        BY <1>12 DEF ListMessages, asked, table
    <2>4. \A h \in Gets \ {g} : pc'[h] = pc[h]
        BY <1>12 DEF ListMessages
    <2>5. shown \subseteq stored
        BY <2>1 DEF Pages
    <2>6. \A p \in stored : conv[p] = conv[g] =>
             \/ p \in shown
             \/ cursor[g] # None /\ created[p] >= cursor[g]
             \/ Cardinality(shown) = Limit /\ \A q \in shown : created[p] <= created[q]
        BY <2>1 DEF Pages
    <2>7. QED
        BY <2>1, <2>2, <2>3, <2>4, <2>5, <2>6
<1>13. ASSUME NEW g \in Gets, MarkMessagesRead(g)
      PROVE  PageInv'
    BY <1>13 DEF MarkMessagesRead, asked, fanout, paging
<1>14. CASE Crash
    BY <1>14 DEF Crash, InFlight, asked, table, paging
<1>15. CASE UNCHANGED vars
    BY <1>15 DEF vars, asked, table, fanout, paging
<1>16. QED
    BY <1>1, <1>2, <1>3, <1>4, <1>5, <1>6, <1>7, <1>8, <1>9, <1>10, <1>11, <1>12,
       <1>13, <1>14, <1>15
    DEF Next, Waiting

\* A mark stays the end of its request.
LEMMA MarkerInvNext ==
    TypeOK /\ RequestInv /\ MarkerInv /\ [Next]_vars => MarkerInv'
<1> SUFFICES ASSUME TypeOK, RequestInv, MarkerInv, [Next]_vars
             PROVE  MarkerInv'
    OBVIOUS
<1> USE NamesAssumption, RoomsAssumption, OwnerAssumption DEF Requests, Events,
        Goto, TypeOK, RequestInv, MarkerInv
<1>1. ASSUME NEW s \in Sockets, Subscribe(s) \/ Unsubscribe(s)
      PROVE  MarkerInv'
    BY <1>1 DEF Subscribe, Unsubscribe, asked, table, paging
<1>2. ASSUME NEW r \in Events, NEW s \in Sockets, ReceiveFrame(r, s)
      PROVE  MarkerInv'
    BY <1>2 DEF ReceiveFrame, Requested, table, fanout, paging
<1>3. ASSUME NEW r \in Posts, NEW u \in Users, ReceivePost(r, u)
      PROVE  MarkerInv'
    BY <1>3 DEF ReceivePost, Requested, table, fanout, paging
<1>4. ASSUME NEW g \in Gets, NEW u \in Users, ReceiveGet(g, u)
      PROVE  MarkerInv'
    BY <1>4 DEF ReceiveGet, Requested, table, fanout
<1>5. ASSUME NEW r \in Requests, CheckMember(r)
      PROVE  MarkerInv'
    BY <1>5 DEF CheckMember, AfterCheck, asked, table, fanout, paging
<1>6. ASSUME NEW r \in Requests, Abandon(r)
      PROVE  MarkerInv'
    BY <1>6 DEF Abandon, asked, table, fanout, paging
<1>7. ASSUME NEW r \in Posts, BeginInsert(r)
      PROVE  MarkerInv'
    BY <1>7 DEF BeginInsert, asked, fanout, paging
<1>8. ASSUME NEW r \in Posts, InsertMessage(r) \/ InsertUnacknowledged(r)
      PROVE  MarkerInv'
    BY <1>8 DEF InsertMessage, InsertUnacknowledged, Committed, asked, fanout,
       paging
<1>9. ASSUME NEW r \in Events, ListMembers(r)
      PROVE  MarkerInv'
    BY <1>9 DEF ListMembers, asked, table, paging
<1>10. ASSUME NEW r \in Events, Publish(r)
      PROVE  MarkerInv'
    BY <1>10 DEF Publish, asked, table, paging
<1>11. ASSUME NEW r \in Events, Reply(r)
      PROVE  MarkerInv'
    BY <1>11 DEF Reply, asked, table, fanout, paging
<1>12. ASSUME NEW g \in Gets, ListMessages(g)
      PROVE  MarkerInv'
    BY <1>12 DEF ListMessages, asked, table, fanout
<1>13. ASSUME NEW g \in Gets, MarkMessagesRead(g)
      PROVE  MarkerInv'
    BY <1>13 DEF MarkMessagesRead, asked, fanout, paging
<1>14. CASE Crash
    BY <1>14 DEF Crash, InFlight, asked, table, paging
<1>15. CASE UNCHANGED vars
    BY <1>15 DEF vars, asked, table, fanout, paging
<1>16. QED
    BY <1>1, <1>2, <1>3, <1>4, <1>5, <1>6, <1>7, <1>8, <1>9, <1>10, <1>11, <1>12,
       <1>13, <1>14, <1>15
    DEF Next, Waiting

\* Marking, and nothing else, adds read messages, with their explanation.
LEMMA ReadsExplainedNext ==
    TypeOK /\ RequestInv /\ StoredInv /\ PageInv /\ MarkerInv /\ ReadsExplained
    /\ [Next]_vars => ReadsExplained'
<1> SUFFICES ASSUME TypeOK, RequestInv, StoredInv, PageInv, MarkerInv,
                 ReadsExplained, [Next]_vars
             PROVE  ReadsExplained'
    OBVIOUS
<1> USE NamesAssumption, RoomsAssumption, OwnerAssumption DEF Requests, Events,
        Goto, TypeOK, RequestInv, StoredInv, PageInv, MarkerInv, ReadsExplained,
        Passed, User
<1>1. ASSUME NEW s \in Sockets, Subscribe(s) \/ Unsubscribe(s)
      PROVE  ReadsExplained'
    <2>1. UNCHANGED <<read, marker, conv, from, page, snapshot, cursor, created>>
        BY <1>1 DEF Subscribe, Unsubscribe, asked, table, paging
    <2>2. QED
        BY <2>1
<1>2. ASSUME NEW r \in Events, NEW s \in Sockets, ReceiveFrame(r, s)
      PROVE  ReadsExplained'
    BY <1>2 DEF ReceiveFrame, Requested, table, fanout, paging
<1>3. ASSUME NEW r \in Posts, NEW u \in Users, ReceivePost(r, u)
      PROVE  ReadsExplained'
    BY <1>3 DEF ReceivePost, Requested, table, fanout, paging
<1>4. ASSUME NEW g \in Gets, NEW u \in Users, ReceiveGet(g, u)
      PROVE  ReadsExplained'
    BY <1>4 DEF ReceiveGet, Requested, table, fanout
<1>5. ASSUME NEW r \in Requests, CheckMember(r)
      PROVE  ReadsExplained'
    BY <1>5 DEF CheckMember, AfterCheck, asked, table, fanout, paging
<1>6. ASSUME NEW r \in Requests, Abandon(r)
      PROVE  ReadsExplained'
    BY <1>6 DEF Abandon, asked, table, fanout, paging
<1>7. ASSUME NEW r \in Posts, BeginInsert(r)
      PROVE  ReadsExplained'
    <2>1. UNCHANGED <<read, marker, conv, from, page, snapshot, cursor>>
        BY <1>7 DEF BeginInsert, asked, paging
    <2>2. \A p \in stored : created'[p] = created[p]
        <3>1. \A p \in stored : p \in Posts /\ p # r
            BY <1>7 DEF BeginInsert
        <3>2. created' = [created EXCEPT ![r] = clock']
            BY <1>7 DEF BeginInsert
        <3>3. QED
            BY <3>1, <3>2
    <2>3. \A p \in read : p \in stored /\ page[marker[p]] \subseteq stored
        OBVIOUS
    <2>4. QED
        BY <2>1, <2>2, <2>3
<1>8. ASSUME NEW r \in Posts, InsertMessage(r) \/ InsertUnacknowledged(r)
      PROVE  ReadsExplained'
    <2>1. CASE InsertMessage(r)
        BY <2>1 DEF InsertMessage, Committed, asked, fanout, paging
    <2>2. CASE InsertUnacknowledged(r)
        BY <2>2 DEF InsertUnacknowledged, Committed, asked, fanout, paging
    <2>3. QED
        BY <1>8, <2>1, <2>2
<1>9. ASSUME NEW r \in Events, ListMembers(r)
      PROVE  ReadsExplained'
    BY <1>9 DEF ListMembers, asked, table, paging
<1>10. ASSUME NEW r \in Events, Publish(r)
      PROVE  ReadsExplained'
    BY <1>10 DEF Publish, asked, table, paging
<1>11. ASSUME NEW r \in Events, Reply(r)
      PROVE  ReadsExplained'
    BY <1>11 DEF Reply, asked, table, fanout, paging
<1>12. ASSUME NEW g \in Gets, ListMessages(g)
      PROVE  ReadsExplained'
    BY <1>12 DEF ListMessages, asked, table, fanout
<1>13. ASSUME NEW g \in Gets, MarkMessagesRead(g)
      PROVE  ReadsExplained'
    <2>1. /\ pc[g] = "mark"
          /\ UNCHANGED <<conv, from, created, cursor, page, snapshot>>
        BY <1>13 DEF MarkMessagesRead, asked, paging
    <2>2. ASSUME NEW p \in read'
          PROVE  \/ p \in read /\ marker'[p] = marker[p]
                 \/ /\ p \in stored /\ marker'[p] = g
                    /\ conv[p] = conv[g] /\ User(p) # User(g)
        BY <1>13 DEF MarkMessagesRead
    <2>3. User(g) \in Members[conv[g]] /\ g # None
        BY <2>1
    <2>4. ASSUME NEW p \in stored, conv[p] = conv[g]
          PROVE  \/ p \in page[g]
                 \/ p \notin snapshot[g]
                 \/ cursor[g] # None /\ created[p] >= cursor[g]
                 \/ Cardinality(page[g]) = Limit
                       /\ \A q \in page[g] : created[p] <= created[q]
        BY <2>1, <2>4
    <2>5. \A p \in stored : User(p) \in Members[conv[p]]
        OBVIOUS
    <2>6. ASSUME NEW p \in read'
          PROVE  LET h == marker'[p] IN
                 /\ h # None
                 /\ conv[h] = conv[p]
                 /\ User(h) # User(p)
                 /\ {User(h), User(p)} \subseteq Members[conv[p]]
                 /\ \/ p \in page[h]
                    \/ p \notin snapshot[h]
                    \/ cursor[h] # None /\ created[p] >= cursor[h]
                    \/ Cardinality(page[h]) = Limit
                          /\ \A q \in page[h] : created[p] <= created[q]
        <3>1. CASE p \in read /\ marker'[p] = marker[p]
            BY <3>1
        <3>2. CASE /\ p \in stored /\ marker'[p] = g
                   /\ conv[p] = conv[g] /\ User(p) # User(g)
            BY <2>3, <2>4, <2>5, <3>2
        <3>3. QED
            BY <2>2, <3>1, <3>2
    <2>7. QED
        BY <2>1, <2>6
<1>14. CASE Crash
    BY <1>14 DEF Crash, InFlight, asked, table, paging
<1>15. CASE UNCHANGED vars
    BY <1>15 DEF vars, asked, table, fanout, paging
<1>16. QED
    BY <1>1, <1>2, <1>3, <1>4, <1>5, <1>6, <1>7, <1>8, <1>9, <1>10, <1>11, <1>12,
       <1>13, <1>14, <1>15
    DEF Next, Waiting

\* The invariant holds before the first request.
LEMMA Initially == Init => IInv
<1> SUFFICES ASSUME Init
             PROVE  IInv
    OBVIOUS
<1> USE NamesAssumption DEF Init, Requests, Events
<1>1. TypeOK
    BY DEF TypeOK
<1>2. \A s \in Sockets : DOMAIN frames[s] = {}
    OBVIOUS
<1>3. FramesInv /\ FramesInOrder
    BY <1>2 DEF FramesInv, FramesInOrder
<1>4. RequestInv /\ StoredInv /\ PendingInv
    BY DEF RequestInv, StoredInv, PendingInv, Passed
<1>5. SocketInv
    BY DEF SocketInv
<1>6. PageInv /\ MarkerInv /\ ReadsExplained
    BY DEF PageInv, MarkerInv, ReadsExplained
<1>7. QED
    BY <1>1, <1>3, <1>4, <1>5, <1>6 DEF IInv

\* The inductive invariant holds in every state.
LEMMA Invariance == Spec => []IInv
<1>1. IInv /\ [Next]_vars => IInv'
    BY TypeOKNext, RequestInvNext, StoredInvNext, PendingInvNext, FramesInvNext,
       FramesInOrderNext, SocketInvNext, PageInvNext, MarkerInvNext, ReadsExplainedNext
    DEF IInv
<1>2. QED
    BY Initially, <1>1, PTL DEF Spec

-----------------------------------------------------------------------------
(* Theorems.                                                               *)

\* Requests, tables and sockets keep their types; only stored messages are read.
THEOREM TypeCorrect == Spec => []TypeOK
<1>1. IInv => TypeOK
    BY DEF IInv
<1>2. QED
    BY <1>1, Invariance, PTL

\* A socket is pushed only what members of its owner's conversations sent, and
\* messages only once they are stored.
THEOREM FramesAreTrue == Spec => []FramesTruthful
<1>1. IInv => FramesTruthful
    BY DEF IInv, FramesInv, FramesTruthful
<1>2. QED
    BY <1>1, Invariance, PTL

\* No socket is pushed an event twice, or two events of one socket out of order.
THEOREM FramesKeepOrder == Spec => []FramesInOrder
<1>1. IInv => FramesInOrder
    BY DEF IInv
<1>2. QED
    BY <1>1, Invariance, PTL

\* Whatever GETs, inserts and failures overlap, a message is marked read by the
\* other member, who got it or was not to get it on that page.
THEOREM ReadsHaveCauses == Spec => []ReadsExplained
<1>1. IInv => ReadsExplained
    BY DEF IInv
<1>2. QED
    BY <1>1, Invariance, PTL

\* A walk through the pages of a conversation that ends has missed only what was
\* stored behind it, or at the very created_at one of its pages ended at.
THEOREM WalksMissLittle == Spec => []WalkMissesExplained
<1>1. IInv => WalkMissesExplained
    <2> SUFFICES ASSUME IInv, NEW f \in Gets, NEW g \in Gets, Continues(g, f),
                        Cardinality(page[g]) < Limit,
                        NEW p \in snapshot[g] \ (page[f] \cup page[g]), conv[p] = conv[g],
                        p \in snapshot[f], ~ (cursor[f] # None /\ created[p] >= cursor[f])
                 PROVE  created[p] = cursor[g]
        BY DEF WalkMissesExplained
    <2>1. cursor[g] # None /\ created[p] >= cursor[g]
        BY LimitAssumption DEF IInv, PageInv
    <2>2. \A q \in page[f] : created[p] <= created[q]
        BY DEF IInv, PageInv, Continues
    <2>3. PICK q \in page[f] : cursor[g] = created[q]
        BY DEF Continues
    <2>4. created[p] \in Nat /\ created[q] \in Nat
        BY DEF IInv, TypeOK, PageInv
    <2>5. QED
        BY <2>1, <2>2, <2>3, <2>4
<1>2. QED
    BY <1>1, Invariance, PTL

\* A message that is stored is not lost, moved, attributed to somebody else, dated
\* anew or marked as unread, a mark keeps its reader, and a socket is only ever
\* shown more.
HistoryKept ==
    /\ \A p \in stored : /\ p \in stored' /\ conv'[p] = conv[p]
                         /\ User(p)' = User(p) /\ created'[p] = created[p]
    /\ \A p \in read : p \in read' /\ marker'[p] = marker[p]
    /\ \A s \in Sockets : frames'[s] = frames[s]
                          \/ \E r \in Events : frames'[s] = Append(frames[s], r)

\* No handler, failure or crash undoes what createMessage, MarkMessagesRead and
\* the fanout have done.
THEOREM HistoryStays == Spec => [][HistoryKept]_vars
<1>1. IInv /\ [Next]_vars => HistoryKept
  <2> SUFFICES ASSUME IInv, [Next]_vars
               PROVE  HistoryKept
      OBVIOUS
  <2> USE NamesAssumption DEF Requests, Events, Goto, User, HistoryKept
  <2>0. /\ stored \subseteq Posts /\ read \subseteq stored
        /\ \A p \in stored : pc[p] \in {"members", "publish", "done"}
        /\ created \in [Posts -> Nat] /\ marker \in [Posts -> Gets \cup {None}]
        /\ conv \in [Requests -> Conversations \cup {None}]
        /\ from \in [Requests -> Sockets \cup Users \cup {None}]
      BY DEF IInv, TypeOK, StoredInv
  <2>1. ASSUME NEW s \in Sockets, Subscribe(s) \/ Unsubscribe(s)
        PROVE  HistoryKept
      BY <2>0, <2>1 DEF Subscribe, Unsubscribe, asked, table, paging
  <2>2. ASSUME NEW r \in Events, NEW s \in Sockets, ReceiveFrame(r, s)
        PROVE  HistoryKept
      BY <2>0, <2>2 DEF ReceiveFrame, Requested, table, fanout, paging
  <2>3. ASSUME NEW r \in Posts, NEW u \in Users, ReceivePost(r, u)
        PROVE  HistoryKept
      BY <2>0, <2>3 DEF ReceivePost, Requested, table, fanout, paging
  <2>4. ASSUME NEW g \in Gets, NEW u \in Users, ReceiveGet(g, u)
        PROVE  HistoryKept
      BY <2>0, <2>4 DEF ReceiveGet, Requested, table, fanout
  <2>5. ASSUME NEW r \in Requests, CheckMember(r) \/ Abandon(r)
        PROVE  HistoryKept
      BY <2>0, <2>5 DEF CheckMember, Abandon, asked, table, fanout, paging
  <2>6. ASSUME NEW r \in Posts, BeginInsert(r)
        PROVE  HistoryKept
      BY <2>0, <2>6 DEF BeginInsert, asked, fanout, paging
  <2>7. ASSUME NEW r \in Posts, InsertMessage(r) \/ InsertUnacknowledged(r)
        PROVE  HistoryKept
      BY <2>0, <2>7 DEF InsertMessage, InsertUnacknowledged, Committed, asked, fanout, paging
  <2>8. ASSUME NEW r \in Events, ListMembers(r) \/ Reply(r)
        PROVE  HistoryKept
      BY <2>0, <2>8 DEF ListMembers, Reply, asked, table, fanout, paging
  <2>9. ASSUME NEW r \in Events, Publish(r)
        PROVE  HistoryKept
      BY <2>0, <2>9 DEF Publish, asked, table, paging
  <2>10. ASSUME NEW g \in Gets, ListMessages(g)
        PROVE  HistoryKept
      BY <2>0, <2>10 DEF ListMessages, asked, table, fanout
  <2>11. ASSUME NEW g \in Gets, MarkMessagesRead(g)
        PROVE  HistoryKept
      BY <2>0, <2>11 DEF MarkMessagesRead, asked, fanout, paging
  <2>12. CASE Crash
      BY <2>0, <2>12 DEF Crash, asked, table, paging
  <2>13. CASE UNCHANGED vars
      BY <2>0, <2>13 DEF vars, asked, table, fanout, paging
  <2>14. QED
      BY <2>1, <2>2, <2>3, <2>4, <2>5, <2>6, <2>7, <2>8, <2>9, <2>10, <2>11, <2>12, <2>13
      DEF Next, Waiting
<1>2. QED
    BY <1>1, Invariance, PTL DEF Spec

\* n pages, from the newest on, each after the one before, the last not full.
Walk(w, n) ==
    /\ cursor[w[1]] = None
    /\ \A i \in 1 .. n - 1 : Continues(w[i + 1], w[i])
    /\ Cardinality(page[w[n]]) < Limit

\* A walk of any length that ends shows every message of its conversation that
\* was stored whenever it listed a page, unless it has the created_at of one that
\* the walk was continued at.
WalksComplete ==
    \A n \in Nat \ {0} : \A w \in [1 .. n -> Gets] : Walk(w, n) =>
        \A p \in Posts :
            (\A i \in 1 .. n : p \in snapshot[w[i]] /\ conv[p] = conv[w[i]]) =>
                \E i \in 1 .. n : p \in page[w[i]] \/ (i > 1 /\ created[p] = cursor[w[i]])

\* A set of numbers up to n that has 1 and not n has one whose successor it lacks.
LEMMA LastBefore ==
    ASSUME NEW n \in Nat \ {0}, NEW G \in SUBSET (1 .. n), 1 \in G, n \notin G
    PROVE  \E i \in 1 .. n - 1 : i \in G /\ i + 1 \notin G
<1> DEFINE Beyond == {1 .. k : k \in (1 .. n) \ G}
<1>1. IsWellFoundedOn(StrictSubsetOrdering(1 .. n), SUBSET (1 .. n))
  <2>1. IsFiniteSet(1 .. n)
    BY FS_Interval
  <2> QED BY <2>1, FS_StrictSubsetOrderingWellFounded, FS_FiniteSubsetsOfFinite
<1>2. Beyond \subseteq SUBSET (1 .. n) /\ Beyond # {}
  OBVIOUS
<1>3. PICK x \in Beyond : \A y \in Beyond : ~ (<<y, x>> \in StrictSubsetOrdering(1 .. n))
  <2> HIDE DEF Beyond
  <2> QED BY <1>1, <1>2, WFMin
<1>4. PICK k \in (1 .. n) \ G : x = 1 .. k
  BY <1>3
<1>5. k - 1 \in G
  <2> SUFFICES ASSUME k - 1 \notin G PROVE FALSE
    OBVIOUS
  <2>1. k - 1 \in (1 .. n) \ G
    BY <1>4
  <2>2. 1 .. k - 1 \in Beyond /\ 1 .. k - 1 \subseteq 1 .. k
    BY <2>1
  <2>3. k \in 1 .. k /\ k \notin 1 .. k - 1
    BY <1>4
  <2>4. <<1 .. k - 1, x>> \in StrictSubsetOrdering(1 .. n)
    BY <1>2, <1>4, <2>2, <2>3 DEF StrictSubsetOrdering
  <2> QED BY <1>3, <2>2, <2>4
<1> QED BY <1>4, <1>5

\* Walking back over GET messages until a page is short misses nothing but ties of
\* created_at with a cursor, however many pages there are.
THEOREM WalksAreComplete == Spec => []WalksComplete
<1>1. IInv => WalksComplete
  <2> SUFFICES ASSUME IInv, NEW n \in Nat \ {0}, NEW w \in [1 .. n -> Gets], Walk(w, n),
                      NEW p \in Posts,
                      \A i \in 1 .. n : p \in snapshot[w[i]] /\ conv[p] = conv[w[i]],
                      \A i \in 1 .. n : p \notin page[w[i]]
               PROVE  \E i \in 1 .. n : i > 1 /\ created[p] = cursor[w[i]]
      BY DEF WalksComplete
  \* The pages at or after which the message has its place.
  <2> DEFINE G == {i \in 1 .. n : cursor[w[i]] = None \/ created[p] < cursor[w[i]]}
  <2>1. 1 \in G
      BY DEF Walk
  <2>2. ASSUME NEW i \in 1 .. n
        PROVE  \/ cursor[w[i]] # None /\ created[p] >= cursor[w[i]]
               \/ /\ Cardinality(page[w[i]]) = Limit
                  /\ \A q \in page[w[i]] : created[p] <= created[q]
      BY DEF IInv, PageInv
  <2>3. /\ created[p] \in Nat
        /\ \A i \in 1 .. n : cursor[w[i]] # None => cursor[w[i]] \in Nat
        /\ \A i \in 1 .. n : \A q \in page[w[i]] : created[q] \in Nat
      BY DEF IInv, TypeOK
  <2>4. n \notin G
      BY <2>2, <2>3, LimitAssumption DEF Walk
  <2>5. PICK i \in 1 .. n - 1 : i \in G /\ i + 1 \notin G
    <3> HIDE DEF G
    <3>1. G \subseteq 1 .. n
      BY DEF G
    <3> QED BY <3>1, <2>1, <2>4, LastBefore
  <2>6. i \in 1 .. n /\ i + 1 \in 1 .. n /\ i + 1 > 1
      BY <2>5
  <2>7. \A q \in page[w[i]] : created[p] <= created[q]
      BY <2>2, <2>3, <2>5, <2>6
  <2>8. PICK q \in page[w[i]] : cursor[w[i + 1]] = created[q]
      BY <2>5 DEF Walk, Continues
  <2>9. created[p] = cursor[w[i + 1]]
      BY <2>3, <2>5, <2>6, <2>7, <2>8
  <2> QED BY <2>6, <2>9
<1>2. QED
    BY <1>1, Invariance, PTL

-----------------------------------------------------------------------------
(* The refinement: Chat implements ChatLog.                                *)

logVars == <<logBar, read, frames>>
Entry(p) == [id |-> p, conv |-> conv[p], sender |-> User(p)]

\* A step that stores nothing leaves the log as it is, since what a stored
\* message came with no longer changes.
LEMMA LogStays ==
    ASSUME stored' = stored, \A p \in stored : conv'[p] = conv[p] /\ from'[p] = from[p]
    PROVE  logBar' = logBar
<1>1. \A p \in stored : Entry(p)' = Entry(p)
    BY DEF Entry, User
<1>2. QED
    BY <1>1 DEF logBar, Entry

\* A request that comes in is not a stored message.
LEMMA RequestedIsNew ==
    ASSUME IInv, NEW r \in Requests, pc[r] = "idle", stored' = stored,
           NEW origin, NEW k, from' = [from EXCEPT ![r] = origin], conv' = [conv EXCEPT ![r] = k]
    PROVE  logBar' = logBar
<1>1. \A p \in stored : p \in Requests /\ p # r
    BY DEF IInv, TypeOK, StoredInv, Requests
<1>2. \A p \in stored : conv'[p] = conv[p] /\ from'[p] = from[p]
    BY <1>1 DEF IInv, TypeOK
<1>3. QED
    BY <1>2, LogStays

\* Storing is the commit of the insert, acknowledged or not.
LEMMA StoreStep == ASSUME IInv, NEW p \in Posts, Committed(p) PROVE Log!Next
<1>1. /\ pc[p] = "commit" /\ stored' = stored \cup {p}
      /\ UNCHANGED <<conv, from, read, frames>>
    BY DEF Committed, asked, fanout
<1>2. logBar' = logBar \cup {Entry(p)}
    <2>1. logBar = {Entry(q) : q \in stored}
        BY DEF logBar, Entry
    <2>2. logBar' = {Entry(q) : q \in stored'}
        BY <1>1 DEF logBar, Entry, User
    <2>3. QED
        BY <1>1, <2>1, <2>2
<1>3. p \in Requests /\ conv[p] \in Conversations /\ User(p) \in Members[conv[p]]
    BY <1>1 DEF IInv, RequestInv, Passed, Requests
<1>4. User(p) \in Users
    BY <1>3, RoomsAssumption
<1>5. \A e \in logBar : e.id # p
    <2>1. p \notin stored
        BY <1>1 DEF IInv, StoredInv
    <2>2. QED
        BY <2>1 DEF logBar
<1>6. Log!Store(p, conv[p], User(p))
    BY <1>1, <1>2, <1>3, <1>5 DEF Log!Store, Entry
<1>7. QED
    BY <1>3, <1>4, <1>6 DEF Log!Next

\* Publishing to a member shows the event there, for the first time.
LEMMA ShowStep == ASSUME IInv, NEW r \in Events, Publish(r) PROVE Log!Next
<1>1. PICK u \in pending[r] :
         \E reached \in SUBSET {s \in online : Owner[s] = u} :
            frames' = [s \in Sockets |->
                          IF s \in reached THEN Append(frames[s], r) ELSE frames[s]]
    BY DEF Publish
<1>2. PICK reached \in SUBSET {s \in online : Owner[s] = u} :
         frames' = [s \in Sockets |->
                       IF s \in reached THEN Append(frames[s], r) ELSE frames[s]]
    BY <1>1
<1>3. pc[r] = "publish" /\ UNCHANGED <<stored, conv, from, read>>
    BY DEF Publish, asked, table
<1>4. r \in Requests /\ conv[r] \in Conversations /\ u \in Members[conv[r]]
      /\ User(r) \in Members[conv[r]]
    BY <1>1, <1>3 DEF IInv, RequestInv, PendingInv, Passed, Requests, Events
<1>5. u \in Users /\ User(r) \in Users
    BY <1>4, RoomsAssumption
<1>6. reached \in SUBSET {s \in Sockets : Owner[s] = u}
    BY DEF IInv, TypeOK
<1>7. ASSUME NEW s \in reached, NEW i \in DOMAIN frames[s]
      PROVE  frames[s][i] # r
    <2>1. s \in Sockets /\ Owner[s] \in pending[r]
        BY <1>1, <1>6
    <2>2. QED
        BY <1>3, <2>1 DEF IInv, FramesInv
<1>8. logBar' = logBar
    BY <1>3, LogStays
<1>9. Log!ShowOnce(r, u)
    BY <1>2, <1>3, <1>6, <1>7, <1>8 DEF Log!ShowOnce
<1>10. CASE r \in Posts
    <2>1. Entry(r) \in logBar
        BY <1>3, <1>10 DEF IInv, StoredInv, logBar, Entry
    <2>2. Log!Show(Entry(r), u)
        BY <1>4, <1>9 DEF Log!Show, Entry
    <2>3. QED
        BY <1>5, <2>1, <2>2 DEF Log!Next
<1>11. CASE r \in Typings
    <2>1. u # User(r)
        BY <1>1, <1>3, <1>11 DEF IInv, PendingInv, Events
    <2>2. Log!Signal(r, conv[r], User(r))
        BY <1>4, <1>9, <2>1 DEF Log!Signal
    <2>3. QED
        BY <1>4, <1>5, <1>11, <2>2 DEF Log!Next
<1>12. QED
    BY <1>10, <1>11 DEF Events

\* Marking reads what the others wrote.
LEMMA ReadStep == ASSUME IInv, NEW g \in Gets, MarkMessagesRead(g) PROVE Log!Next
<1> DEFINE k == conv[g]
           u == User(g)
           written == {e \in logBar : e.conv = k /\ e.sender # u}
<1>1. /\ pc[g] = "mark" /\ UNCHANGED <<stored, conv, from, frames>>
      /\ read' = read \cup {p \in stored \ read : conv[p] = conv[g] /\ User(p) # User(g)}
    BY DEF MarkMessagesRead, asked, fanout
<1>2. g \in Requests /\ k \in Conversations /\ u \in Members[k]
    BY <1>1 DEF IInv, RequestInv, Passed, Requests
<1>3. u \in Users
    BY <1>2, RoomsAssumption
<1>4. {e.id : e \in written} = {p \in stored : conv[p] = k /\ User(p) # u}
    <2>1. ASSUME NEW e \in written
          PROVE  e.id \in {p \in stored : conv[p] = k /\ User(p) # u}
        <3>1. PICK p \in stored : e = Entry(p)
            BY DEF logBar, Entry
        <3>2. e.id = p /\ e.conv = conv[p] /\ e.sender = User(p)
            BY <3>1 DEF Entry
        <3>3. QED
            BY <3>2
    <2>2. ASSUME NEW p \in stored, conv[p] = k, User(p) # u
          PROVE  p \in {e.id : e \in written}
        <3>1. Entry(p) \in logBar
            BY DEF logBar, Entry
        <3>2. Entry(p).id = p /\ Entry(p).conv = conv[p] /\ Entry(p).sender = User(p)
            BY DEF Entry
        <3>3. Entry(p) \in written
            BY <2>2, <3>1, <3>2
        <3>4. QED
            BY <3>2, <3>3
    <2> HIDE DEF written, k, u
    <2>3. QED
        BY <2>1, <2>2
<1>5. read' = read \cup {e.id : e \in written}
    BY <1>1, <1>4
<1>6. logBar' = logBar
    BY <1>1, LogStays
<1>7. Log!Read(k, u)
    BY <1>1, <1>2, <1>5, <1>6 DEF Log!Read
<1> HIDE DEF k, u
<1>8. QED
    BY <1>2, <1>3, <1>7 DEF Log!Next

\* Every other step is a stutter of the log.
LEMMA LogStep == ASSUME IInv, [Next]_vars PROVE Log!Next \/ UNCHANGED logVars
<1>1. ASSUME NEW s \in Sockets, Subscribe(s) \/ Unsubscribe(s)
      PROVE  UNCHANGED logVars
    BY <1>1, LogStays DEF Subscribe, Unsubscribe, asked, table, logVars
<1>2. ASSUME NEW r \in Requests, NEW origin, Requested(r, origin), UNCHANGED <<table, fanout>>
      PROVE  UNCHANGED logVars
    <2>1. pc[r] = "idle" /\ UNCHANGED <<stored, read, frames>>
          /\ from' = [from EXCEPT ![r] = origin]
        BY <1>2 DEF Requested, table, fanout
    <2>2. PICK k : conv' = [conv EXCEPT ![r] = k]
        BY <1>2 DEF Requested
    <2>3. QED
        BY <2>1, <2>2, RequestedIsNew DEF logVars
<1>3. ASSUME NEW r \in Events, NEW s \in Sockets, ReceiveFrame(r, s)
      PROVE  UNCHANGED logVars
    BY <1>2, <1>3 DEF ReceiveFrame, Requests, Events
<1>4. ASSUME NEW r \in Posts, NEW u \in Users, ReceivePost(r, u)
      PROVE  UNCHANGED logVars
    BY <1>2, <1>4 DEF ReceivePost, Requests
<1>5. ASSUME NEW g \in Gets, NEW u \in Users, ReceiveGet(g, u)
      PROVE  UNCHANGED logVars
    BY <1>2, <1>5 DEF ReceiveGet, Requests
<1>6. ASSUME NEW r \in Requests, CheckMember(r) \/ Abandon(r)
      PROVE  UNCHANGED logVars
    BY <1>6, LogStays DEF CheckMember, Abandon, asked, table, fanout, logVars
<1>7. ASSUME NEW p \in Posts, BeginInsert(p)
      PROVE  UNCHANGED logVars
    BY <1>7, LogStays DEF BeginInsert, asked, fanout, logVars
<1>8. ASSUME NEW p \in Posts, InsertMessage(p) \/ InsertUnacknowledged(p)
      PROVE  Log!Next
    BY <1>8, StoreStep DEF InsertMessage, InsertUnacknowledged
<1>9. ASSUME NEW r \in Events, ListMembers(r) \/ Reply(r)
      PROVE  UNCHANGED logVars
    BY <1>9, LogStays DEF ListMembers, Reply, asked, table, fanout, logVars
<1>10. ASSUME NEW r \in Events, Publish(r)
       PROVE  Log!Next
    BY <1>10, ShowStep
<1>11. ASSUME NEW g \in Gets, ListMessages(g)
       PROVE  UNCHANGED logVars
    BY <1>11, LogStays DEF ListMessages, asked, table, fanout, logVars
<1>12. ASSUME NEW g \in Gets, MarkMessagesRead(g)
       PROVE  Log!Next
    BY <1>12, ReadStep
<1>13. CASE Crash
    BY <1>13, LogStays DEF Crash, asked, table, logVars
<1>14. CASE UNCHANGED vars
    BY <1>14, LogStays DEF vars, asked, table, fanout, logVars
<1>15. QED
    BY <1>1, <1>3, <1>4, <1>5, <1>6, <1>7, <1>8, <1>9, <1>10, <1>11, <1>12, <1>13, <1>14
    DEF Next, Waiting, Events

\* Chat implements its abstract specification, for any number of messages,
\* sockets and failures.
THEOREM ImplementsLog == Spec => LogSpec
<1>1. Init => Log!Init
    BY DEF Init, Log!Init, logBar
<1>2. IInv /\ [Next]_vars => [Log!Next]_logVars
    BY LogStep
<1>3. QED
    BY <1>1, <1>2, Invariance, PTL DEF Spec, LogSpec, Log!Spec, logVars
=============================================================================
