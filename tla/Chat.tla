-------------------------------- MODULE Chat --------------------------------
(***************************************************************************)
(* Messages of the conversations: Server.createMessage, reached from POST  *)
(* /v1/conversations/{id}/messages and from the read loop of a socket, the *)
(* typing indicator of that loop, the fanout over Redis Pub/Sub, and       *)
(* Server.messages (GET), which lists a page and then marks as read.       *)
(*                                                                         *)
(* A message is named by the request that posts it.  Members never change  *)
(* once a conversation can be seen (Swipes, OneRoomPerPair).               *)
(***************************************************************************)
EXTENDS Integers, Sequences, FiniteSets

CONSTANTS
    Users, Conversations,
    Members,    \* Members[k]: the rows of conversation_members of k
    Sockets,
    Owner,      \* Owner[s]: the user whose session opened the socket
    Posts,      \* messages sent, each by one request or one frame
    Typings,    \* typing frames
    Gets,       \* GET requests for a page of messages
    Limit,      \* messages in a full page
    None

Requests == Posts \cup Typings \cup Gets

ASSUME NamesAssumption ==
    /\ Posts \cap Typings = {} /\ Posts \cap Gets = {} /\ Typings \cap Gets = {}
    /\ Users \cap Sockets = {}
    /\ None \notin Users \cup Sockets \cup Conversations \cup Gets \cup Nat
ASSUME RoomsAssumption == Members \in [Conversations -> SUBSET Users]
ASSUME OwnerAssumption == Owner \in [Sockets -> Users]
ASSUME LimitAssumption == Limit \in Nat \ {0}

VARIABLES
    pc,         \* pc[r]: the call the handler makes next
    from,       \* from[r]: the socket of a frame, the user of an HTTP request
    conv,       \* conv[r]: the conversation the request names
    clock,      \* now() of the database
    created,    \* created[p]: created_at of the message, 0 before it is drawn
    stored,     \* rows of messages that are committed
    read,       \* the stored messages with is_read
    lastAt,     \* lastAt[k]: last_message_at, 0 for NULL
    pending,    \* pending[r]: members the event is still to be published to
    online,     \* sockets that are subscribed and have a fanout goroutine
    frames,     \* frames[s]: the events pushed to s, in order
    cursor,     \* cursor[g]: the parameter before, None when absent
    page,       \* page[g]: the messages listed
    snapshot,   \* history, snapshot[g]: the messages stored when g listed
    marker,     \* history, marker[p]: the GET that marked p
    earlier     \* history, earlier[r]: the frames its socket sent before r

table == <<clock, created, stored, read, lastAt, marker>>
fanout == <<pending, online, frames>>
paging == <<cursor, page, snapshot>>
asked == <<from, conv, earlier>>
vars == <<pc, asked, table, fanout, paging>>

User(r) == IF from[r] \in Sockets THEN Owner[from[r]] ELSE from[r]
InFlight == {r \in Requests : pc[r] \notin {"idle", "done"}}
FramesOf(s) == {r \in Posts \cup Typings : from[r] = s}

Goto(r, l) == pc' = [pc EXCEPT ![r] = l]

Init ==
    /\ pc = [r \in Requests |-> "idle"]
    /\ from = [r \in Requests |-> None]
    /\ conv = [r \in Requests |-> None]
    /\ clock = 1
    /\ created = [p \in Posts |-> 0]
    /\ stored = {}
    /\ read = {}
    /\ lastAt = [k \in Conversations |-> 0]
    /\ pending = [r \in Posts \cup Typings |-> {}]
    /\ online = {}
    /\ frames = [s \in Sockets |-> <<>>]
    /\ cursor = [g \in Gets |-> None]
    /\ page = [g \in Gets |-> {}]
    /\ snapshot = [g \in Gets |-> {}]
    /\ marker = [p \in Posts |-> None]
    /\ earlier = [r \in Posts \cup Typings |-> {}]

-----------------------------------------------------------------------------
(* Sockets.                                                                *)

Subscribe(s) ==
    /\ s \notin online
    /\ frames[s] = <<>> /\ FramesOf(s) = {}
    /\ online' = online \cup {s}
    /\ UNCHANGED <<pc, asked, table, pending, frames, paging>>

\* The peer leaves, or a write fails and cancels the context: the fanout ends,
\* and what the read loop still takes is refused, its calls failing.
Unsubscribe(s) ==
    /\ s \in online
    /\ online' = online \ {s}
    /\ UNCHANGED <<pc, asked, table, pending, frames, paging>>

-----------------------------------------------------------------------------
(* Requests come in.                                                       *)

Requested(r, origin) ==
    /\ pc[r] = "idle"
    /\ Goto(r, "check")
    /\ from' = [from EXCEPT ![r] = origin]
    /\ \E k \in Conversations : conv' = [conv EXCEPT ![r] = k]

ReceiveFrameConcurrently(r, s) == \* a goroutine for each frame
    /\ s \in online
    /\ r \notin Gets
    /\ Requested(r, s)
    /\ earlier' = [earlier EXCEPT ![r] = FramesOf(s)]
    /\ UNCHANGED <<table, fanout, paging>>

\* The read loop takes a frame when it is done with the one before.
ReceiveFrame(r, s) ==
    /\ s \in online
    /\ r \notin Gets
    /\ FramesOf(s) \cap InFlight = {}
    /\ Requested(r, s)
    /\ earlier' = [earlier EXCEPT ![r] = FramesOf(s)]
    /\ UNCHANGED <<table, fanout, paging>>

ReceivePost(p, u) ==
    /\ Requested(p, u)
    /\ UNCHANGED <<earlier, table, fanout, paging>>

\* created_at of a message the client was shown serves as before.
ReceiveGet(g, u) ==
    /\ Requested(g, u)
    /\ \E before \in {None} \cup {created[p] : p \in stored} :
          cursor' = [cursor EXCEPT ![g] = before]
    /\ UNCHANGED <<earlier, table, fanout, page, snapshot>>

AfterCheck(r) ==
    CASE r \in Posts -> "insert" [] r \in Typings -> "members" [] r \in Gets -> "list"

CheckNobody(r) == \* the member check dropped
    /\ pc[r] = "check"
    /\ Goto(r, AfterCheck(r))
    /\ UNCHANGED <<asked, table, fanout, paging>>

\* isConversationMember; its error counts as a refusal.
CheckMember(r) ==
    /\ pc[r] = "check"
    /\ User(r) \in Members[conv[r]]
    /\ Goto(r, AfterCheck(r))
    /\ UNCHANGED <<asked, table, fanout, paging>>

-----------------------------------------------------------------------------
(* CreateMessage: one INSERT.  created_at is the time it begins; the       *)
(* trigger's UPDATE of the conversation makes inserts commit one by one.   *)

BeginInsert(p) ==
    /\ pc[p] = "insert"
    /\ clock' \in {clock, clock + 1}
    /\ created' = [created EXCEPT ![p] = clock']
    /\ Goto(p, "commit")
    /\ UNCHANGED <<asked, stored, read, lastAt, marker, fanout, paging>>

Committed(p) ==
    /\ pc[p] = "commit"
    /\ stored' = stored \cup {p}
    /\ lastAt' = [lastAt EXCEPT ![conv[p]] = created[p]]
    /\ UNCHANGED <<asked, clock, created, read, marker, fanout, paging>>

InsertMessage(p) == Committed(p) /\ Goto(p, "members")

\* The answer of the database is lost: an error, and no event.
InsertUnacknowledged(p) == Committed(p) /\ Goto(p, "done")

-----------------------------------------------------------------------------
(* Fanout.                                                                 *)

ListEverybody(r) == \* all users in place of the members
    /\ pc[r] = "members"
    /\ pending' = [pending EXCEPT ![r] = Users]
    /\ Goto(r, "publish")
    /\ UNCHANGED <<asked, table, online, frames, paging>>

\* The event of a message goes to its sender too, a typing one does not.
ListMembers(r) ==
    LET members == Members[conv[r]] IN
    /\ pc[r] = "members"
    /\ pending' = [pending EXCEPT ![r] =
                      IF r \in Typings THEN members \ {User(r)} ELSE members]
    /\ Goto(r, "publish")
    /\ UNCHANGED <<asked, table, online, frames, paging>>

PublishRepeating(r) == \* a retry after an answer that was lost
    /\ pc[r] = "publish"
    /\ \E u \in pending[r] :
       \E reached \in SUBSET {s \in online : Owner[s] = u} :
          /\ frames' = [s \in Sockets |->
                           IF s \in reached THEN Append(frames[s], r) ELSE frames[s]]
          /\ \/ pending' = [pending EXCEPT ![r] = @ \ {u}]
             \/ UNCHANGED pending
    /\ UNCHANGED <<pc, asked, table, online, paging>>

\* Publish to one member, its error dropped: each of the member's sockets gets
\* the event or, Redis Pub/Sub keeping nothing, does not.
Publish(r) ==
    /\ pc[r] = "publish"
    /\ \E u \in pending[r] :
       \E reached \in SUBSET {s \in online : Owner[s] = u} :
          /\ frames' = [s \in Sockets |->
                           IF s \in reached THEN Append(frames[s], r) ELSE frames[s]]
          /\ pending' = [pending EXCEPT ![r] = @ \ {u}]
    /\ UNCHANGED <<pc, asked, table, online, paging>>

Reply(r) ==
    /\ pc[r] = "publish"
    /\ pending[r] = {}
    /\ Goto(r, "done")
    /\ UNCHANGED <<asked, table, fanout, paging>>

-----------------------------------------------------------------------------
(* GET .../messages.                                                       *)

PagesOldestFirst(k, before) == \* ORDER BY created_at ASC
    LET found == {p \in stored : conv[p] = k /\ (before # None => created[p] < before)} IN
    {shown \in SUBSET found :
        /\ Cardinality(shown) = Limit \/ (Cardinality(shown) < Limit /\ shown = found)
        /\ \A p \in shown, q \in found \ shown : created[q] >= created[p]}

\* ORDER BY created_at DESC LIMIT: a page is full or has all there is, and
\* nothing left out is newer than anything on it.
Pages(k, before) ==
    LET found == {p \in stored : conv[p] = k /\ (before # None => created[p] < before)} IN
    {shown \in SUBSET found :
        /\ Cardinality(shown) = Limit \/ (Cardinality(shown) < Limit /\ shown = found)
        /\ \A p \in shown, q \in found \ shown : created[q] <= created[p]}

ListMessages(g) ==
    /\ pc[g] = "list"
    /\ \E shown \in Pages(conv[g], cursor[g]) : page' = [page EXCEPT ![g] = shown]
    /\ snapshot' = [snapshot EXCEPT ![g] = stored]
    /\ Goto(g, "mark")
    /\ UNCHANGED <<asked, table, fanout, cursor>>

MarkUncommitted(g) == \* rows of open transactions seen as well
    LET marked == {p \in Posts \ read : conv[p] = conv[g] /\ User(p) # User(g)} IN
    /\ pc[g] = "mark"
    /\ read' = read \cup marked
    /\ marker' = [p \in Posts |-> IF p \in marked THEN g ELSE marker[p]]
    /\ Goto(g, "done")
    /\ UNCHANGED <<asked, clock, created, stored, lastAt, fanout, paging>>

\* MarkMessagesRead: all of the conversation, whatever was listed.
MarkMessagesRead(g) ==
    LET marked == {p \in stored \ read : conv[p] = conv[g] /\ User(p) # User(g)} IN
    /\ pc[g] = "mark"
    /\ read' = read \cup marked
    /\ marker' = [p \in Posts |-> IF p \in marked THEN g ELSE marker[p]]
    /\ Goto(g, "done")
    /\ UNCHANGED <<asked, clock, created, stored, lastAt, fanout, paging>>

-----------------------------------------------------------------------------
\* A call fails, or a check refuses: the handler makes no other call.
Abandon(r) ==
    /\ pc[r] \in {"check", "insert", "commit", "members", "list", "mark"}
    /\ Goto(r, "done")
    /\ UNCHANGED <<asked, table, fanout, paging>>

Crash ==
    /\ InFlight \cup online # {}
    /\ pc' = [r \in Requests |-> IF r \in InFlight THEN "done" ELSE pc[r]]
    /\ online' = {}
    /\ UNCHANGED <<asked, table, pending, frames, paging>>

Waiting == InFlight = {} /\ UNCHANGED vars

Next ==
    \/ \E s \in Sockets : Subscribe(s) \/ Unsubscribe(s)
    \/ \E r \in Posts \cup Typings, s \in Sockets : ReceiveFrame(r, s)
    \/ \E p \in Posts, u \in Users : ReceivePost(p, u)
    \/ \E g \in Gets, u \in Users : ReceiveGet(g, u)
    \/ \E r \in Requests : CheckMember(r) \/ Abandon(r)
    \/ \E p \in Posts : BeginInsert(p) \/ InsertMessage(p) \/ InsertUnacknowledged(p)
    \/ \E r \in Posts \cup Typings : ListMembers(r) \/ Publish(r) \/ Reply(r)
    \/ \E g \in Gets : ListMessages(g) \/ MarkMessagesRead(g)
    \/ Crash
    \/ Waiting

Spec == Init /\ [][Next]_vars

-----------------------------------------------------------------------------
(* Properties.                                                             *)

\* Type invariant of the requests, the tables, the sockets and the history.
TypeOK ==
    /\ pc \in [Requests -> {"idle", "check", "insert", "commit", "members", "publish",
                            "list", "mark", "done"}]
    /\ from \in [Requests -> Sockets \cup Users \cup {None}]
    /\ conv \in [Requests -> Conversations \cup {None}]
    /\ clock \in Nat \ {0}
    /\ created \in [Posts -> Nat]
    /\ stored \subseteq Posts
    /\ read \subseteq stored
    /\ lastAt \in [Conversations -> Nat]
    /\ pending \in [Posts \cup Typings -> SUBSET Users]
    /\ online \subseteq Sockets
    /\ frames \in [Sockets -> Seq(Posts \cup Typings)]
    /\ cursor \in [Gets -> Nat \cup {None}]
    /\ page \in [Gets -> SUBSET Posts]
    /\ snapshot \in [Gets -> SUBSET Posts]
    /\ marker \in [Posts -> Gets \cup {None}]
    /\ earlier \in [Posts \cup Typings -> SUBSET (Posts \cup Typings)]

\* What is pushed to a socket is a stored message, or a typing event of someone
\* else, that a member of its conversation sent, and the owner is a member too.
FramesTruthful ==
    \A s \in Sockets : \A i \in DOMAIN frames[s] :
        LET r == frames[s][i] IN
        /\ {User(r), Owner[s]} \subseteq Members[conv[r]]
        /\ r \in Posts => r \in stored
        /\ r \in Typings => User(r) # Owner[s]

\* A socket is pushed every event at most once, and what came in over one socket
\* in the order it came, with created_at agreeing.
FramesInOrder ==
    \A s \in Sockets : \A i, j \in DOMAIN frames[s] : i < j =>
        LET q == frames[s][i]
            r == frames[s][j] IN
        /\ q # r
        /\ from[q] = from[r] /\ from[q] \in Sockets =>
              /\ q \in earlier[r]
              /\ {q, r} \subseteq Posts => created[q] <= created[r]

\* Only the other member makes a message read, by asking for the conversation.
\* If the page it got then lacks the message, the message was stored after the
\* page was listed, or has its place on another page.
ReadsExplained ==
    \A p \in read :
        LET g == marker[p] IN
        /\ g # None
        /\ conv[g] = conv[p]
        /\ User(g) # User(p)
        /\ {User(g), User(p)} \subseteq Members[conv[p]]
        /\ \/ p \in page[g]
           \/ p \notin snapshot[g]
           \/ cursor[g] # None /\ created[p] >= cursor[g]
           \/ Cardinality(page[g]) = Limit /\ \A q \in page[g] : created[p] <= created[q]

\* g asks for the page that follows the one f got.
Continues(g, f) ==
    /\ conv[g] = conv[f]
    /\ cursor[g] \in {created[q] : q \in page[f]}
    /\ \A q \in page[f] : cursor[g] <= created[q]

\* A walk that ends, its last page not being full, has missed a message of the
\* conversation only if that was stored after the page before was listed, has the
\* created_at the walk was continued at, or has its place before that page.
WalkMissesExplained ==
    \A f, g \in Gets : Continues(g, f) /\ Cardinality(page[g]) < Limit =>
        \A p \in snapshot[g] \ (page[f] \cup page[g]) : conv[p] = conv[g] =>
            \/ p \notin snapshot[f]
            \/ created[p] = cursor[g]
            \/ cursor[f] # None /\ created[p] >= cursor[f]

\* The code implements ChatLog: seen through the rows, the frames and is_read,
\* whatever the calls in between do.
logBar == {[id |-> p, conv |-> conv[p], sender |-> User(p)] : p \in stored}
Log == INSTANCE ChatLog WITH
    Messages <- Posts, Signals <- Typings, log <- logBar, shown <- frames
LogSpec == Log!Spec
=============================================================================
