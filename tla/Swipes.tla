------------------------------- MODULE Swipes -------------------------------
(***************************************************************************)
(* POST /v1/swipes: Server.swipe and Server.recordSwipe on PostgreSQL at   *)
(* READ COMMITTED, which is what BeginTx(ctx, pgx.TxOptions{}) gives.      *)
(*                                                                         *)
(* A request r runs at most one transaction, so a row is named by the      *)
(* request that inserted it and tx[r] says who can see it: r itself while  *)
(* the transaction is open, everyone once it is committed.  Each call to   *)
(* the database is one action; the commits, failures and crashes of the    *)
(* other requests fall between them.                                       *)
(***************************************************************************)
EXTENDS Naturals

CONSTANTS
    Users,      \* registered users; their order is the order of their uuids
    Ids,        \* ids a request body may name: the users, and uuids of nobody
    Requests,   \* requests served
    Nil         \* no row, no id

ASSUME UsersAssumption == Users \subseteq Nat /\ Users \subseteq Ids
ASSUME NilAssumption == Nil \notin Requests /\ Nil \notin Users

Actions == {"like", "pass"}
SwipeRequest == [actor : Users, target : Ids, action : Actions]

Querying == {"insert", "reciprocal", "match", "conversation", "members", "commit"}
Publishing == {"notify_actor", "notify_target"}
PC == {"idle", "done"} \cup Querying \cup Publishing
Refusals == {"rate_limit_exceeded", "invalid_swipe", "swipe_already_exists", "swipe_failed"}
Replies == {"none", "created", "matched"} \cup Refusals

VARIABLES
    pc,             \* pc[r]: the call recordSwipe makes next for r
    req,            \* req[r]: the authenticated actor and the decoded body
    tx,             \* tx[r]: state of r's transaction
    swipes,         \* requests whose row is in table swipes
    matches,        \* requests whose row is in table matches
    conversations,  \* requests whose row is in table conversations
    members,        \* rows of conversation_members, with the inserting request
    matchID,        \* matchID[r]: local variable, the match row's name
    conversationID, \* conversationID[r]: local variable, the conversation row's name
    published,      \* "match" events that reached Redis
    reply,          \* reply[r]: the answer written, by error code
    before          \* history: swipes committed when r's swipe was inserted

rows == <<swipes, matches, conversations, members>>
locals == <<matchID, conversationID>>
vars == <<pc, req, tx, rows, locals, published, reply, before>>

Init ==
    /\ pc = [r \in Requests |-> "idle"]
    /\ req = [r \in Requests |-> Nil]
    /\ tx = [r \in Requests |-> "none"]
    /\ swipes = {}
    /\ matches = {}
    /\ conversations = {}
    /\ members = {}
    /\ matchID = [r \in Requests |-> Nil]
    /\ conversationID = [r \in Requests |-> Nil]
    /\ published = {}
    /\ reply = [r \in Requests |-> "none"]
    /\ before = [r \in Requests |-> {}]

-----------------------------------------------------------------------------
(* Rows and what a statement of request r can see of them.                 *)

Committed(table) == {q \in table : tx[q] = "committed"}
Visible(table, r) == {q \in table : q = r \/ tx[q] = "committed"}

\* The key of UNIQUE (actor_user_id, target_user_id).
SameKey(q, r) == req[q].actor = req[r].actor /\ req[q].target = req[r].target

AnswersWithAnySwipe(q, r) == \* the query without AND action = 'like'
    req[q].actor = req[r].target /\ req[q].target = req[r].actor

\* The query HasReciprocalLike makes for r, as a relation between rows.
Answers(q, r) ==
    /\ req[q].actor = req[r].target
    /\ req[q].target = req[r].actor
    /\ req[q].action = "like"

\* normalizePair: both orders of two users give the one key of table matches.
normalizePair(a, b) == IF a < b THEN [low |-> a, high |-> b] ELSE [low |-> b, high |-> a]
MatchKey(r) == normalizePair(req[r].actor, req[r].target)

UpsertedWithoutReturning(holders, r) == Nil \* the id is left the zero uuid

\* INSERT ... ON CONFLICT DO UPDATE ... RETURNING id: the row of that key if
\* there is one, and the new one otherwise.
Upserted(holders, r) == IF holders = {} THEN r ELSE CHOOSE q \in holders : TRUE
MatchHolders(r) == {q \in matches : MatchKey(q) = MatchKey(r)}
ConversationHolders(r) == {q \in conversations : matchID[q] = matchID[r]}

\* The recipients of the loop at the end of recordSwipe, and the partner
\* each is told of.
Recipient(r) == IF pc[r] = "notify_actor" THEN req[r].actor ELSE req[r].target
PartnerIsRecipient(r) == Recipient(r) \* the two profiles swapped
Partner(r) == IF pc[r] = "notify_actor" THEN req[r].target ELSE req[r].actor

MatchEvent(r, partner) ==
    [to |-> Recipient(r), match |-> matchID[r], conversation |-> conversationID[r],
     partner |-> partner, by |-> r]

Goto(r, l) == pc' = [pc EXCEPT ![r] = l]
Answer(r, a) == reply' = [reply EXCEPT ![r] = a]

RollBackForgotten(r) == UNCHANGED <<tx, rows>> \* no deferred Rollback

\* The deferred tx.Rollback: every row r inserted goes with its transaction.
RollBack(r) ==
    /\ tx' = [tx EXCEPT ![r] = "aborted"]
    /\ swipes' = swipes \ {r}
    /\ matches' = matches \ {r}
    /\ conversations' = conversations \ {r}
    /\ members' = {m \in members : m.by # r}

-----------------------------------------------------------------------------
(* Server.swipe up to the call of recordSwipe.                             *)

\* The limiter refuses before the body is read; then the checks on the body.
Refuse(r, a, t) ==
    /\ pc[r] = "idle"
    /\ \E why \in {"rate_limit_exceeded"} \cup (IF t = a THEN {"invalid_swipe"} ELSE {}) :
          Answer(r, why)
    /\ Goto(r, "done")
    /\ UNCHANGED <<req, tx, rows, locals, published, before>>

BeginTx(r, a, t, d) ==
    /\ pc[r] = "idle"
    /\ t # a
    /\ req' = [req EXCEPT ![r] = [actor |-> a, target |-> t, action |-> d]]
    /\ tx' = [tx EXCEPT ![r] = "open"]
    /\ Goto(r, "insert")
    /\ UNCHANGED <<rows, locals, published, reply, before>>

-----------------------------------------------------------------------------
(* recordSwipe.                                                            *)

InsertedUnconstrained(r) == {} \* no UNIQUE (actor_user_id, target_user_id)

Inserted(r) == {q \in swipes : SameKey(q, r)}

CreateSwipeInverted(r) == \* action == "like" where the code has action != "like"
    /\ pc[r] = "insert"
    /\ req[r].target \in Users
    /\ Inserted(r) = {}
    /\ swipes' = swipes \cup {r}
    /\ before' = [before EXCEPT ![r] = Committed(swipes)]
    /\ Goto(r, IF req[r].action = "like" THEN "commit" ELSE "reciprocal")
    /\ UNCHANGED <<req, tx, matches, conversations, members, locals, published, reply>>

\* The insert waits while the key is held by a row of an open transaction.
CreateSwipe(r) ==
    /\ pc[r] = "insert"
    /\ req[r].target \in Users
    /\ Inserted(r) = {}
    /\ swipes' = swipes \cup {r}
    /\ before' = [before EXCEPT ![r] = Committed(swipes)]
    /\ Goto(r, IF req[r].action = "like" THEN "reciprocal" ELSE "commit")
    /\ UNCHANGED <<req, tx, matches, conversations, members, locals, published, reply>>

RejectInsertEagerly(r) == \* the insert refused for a row that is not committed
    /\ pc[r] = "insert"
    /\ Inserted(r) # {}
    /\ Answer(r, "swipe_already_exists")
    /\ RollBack(r)
    /\ Goto(r, "done")
    /\ UNCHANGED <<req, locals, published, before>>

\* Error 23505, the key is in a committed row, or 23503, the target is not in
\* table users.
RejectInsert(r) ==
    /\ pc[r] = "insert"
    /\ \/ /\ \E q \in Inserted(r) : tx[q] = "committed"
          /\ Answer(r, "swipe_already_exists")
       \/ /\ req[r].target \notin Users
          /\ Answer(r, "swipe_failed")
    /\ RollBack(r)
    /\ Goto(r, "done")
    /\ UNCHANGED <<req, locals, published, before>>

HasReciprocalLike(r) ==
    /\ pc[r] = "reciprocal"
    /\ Goto(r, IF \E q \in Visible(swipes, r) : Answers(q, r) THEN "match" ELSE "commit")
    /\ UNCHANGED <<req, tx, rows, locals, published, reply, before>>

UpsertMatch(r) ==
    /\ pc[r] = "match"
    /\ \A q \in MatchHolders(r) : tx[q] # "open"
    /\ LET id == Upserted(MatchHolders(r), r) IN
          /\ matchID' = [matchID EXCEPT ![r] = id]
          /\ matches' = IF id = r THEN matches \cup {r} ELSE matches
    /\ Goto(r, "conversation")
    /\ UNCHANGED <<req, tx, swipes, conversations, members, conversationID,
                   published, reply, before>>

UpsertConversationForMatch(r) ==
    /\ pc[r] = "conversation"
    /\ \A q \in ConversationHolders(r) : tx[q] # "open"
    /\ LET id == Upserted(ConversationHolders(r), r) IN
          /\ conversationID' = [conversationID EXCEPT ![r] = id]
          /\ conversations' = IF id = r THEN conversations \cup {r} ELSE conversations
    /\ Goto(r, "members")
    /\ UNCHANGED <<req, tx, swipes, matches, members, matchID, published, reply, before>>

NewMembersActorOnly(r) == \* the loop over the actor alone
    [conversation : {conversationID[r]}, user : {req[r].actor}, by : {r}]

\* The rows the two inserts of the loop add; ON CONFLICT DO NOTHING.  They
\* are one step, since nobody sees them before the commit.
NewMembers(r) ==
    {m \in [conversation : {conversationID[r]},
            user : {req[r].actor, req[r].target}, by : {r}] :
       \A n \in members : n.conversation # m.conversation \/ n.user # m.user}

AddConversationMembers(r) ==
    /\ pc[r] = "members"
    /\ members' = members \cup NewMembers(r)
    /\ Goto(r, "commit")
    /\ UNCHANGED <<req, tx, swipes, matches, conversations, locals, published, reply, before>>

Commit(r) ==
    /\ pc[r] = "commit"
    /\ tx' = [tx EXCEPT ![r] = "committed"]
    /\ IF matchID[r] = Nil
         THEN Goto(r, "done") /\ Answer(r, "created")
         ELSE Goto(r, "notify_actor") /\ UNCHANGED reply
    /\ UNCHANGED <<req, rows, locals, published, before>>

\* PostgreSQL applied the commit, the answer to the COMMIT did not come back.
CommitUnacknowledged(r) ==
    /\ pc[r] = "commit"
    /\ tx' = [tx EXCEPT ![r] = "committed"]
    /\ Answer(r, "swipe_failed")
    /\ Goto(r, "done")
    /\ UNCHANGED <<req, rows, locals, published, before>>

\* Any call of the transaction fails: the connection is lost, the request's
\* context is cancelled.
Fail(r) ==
    /\ pc[r] \in Querying
    /\ RollBack(r)
    /\ Answer(r, "swipe_failed")
    /\ Goto(r, "done")
    /\ UNCHANGED <<req, locals, published, before>>

\* After the loop's second event the handler answers.
Published(r) ==
    IF pc[r] = "notify_actor"
      THEN Goto(r, "notify_target") /\ UNCHANGED reply
      ELSE Goto(r, "done") /\ Answer(r, "matched")

\* The errors of GetPublicProfile are dropped: a failed lookup leaves the
\* zero uuid in the event.
Publish(r) ==
    /\ pc[r] \in Publishing
    /\ \E partner \in {Partner(r), Nil} :
          published' = published \cup {MatchEvent(r, partner)}
    /\ Published(r)
    /\ UNCHANGED <<req, tx, rows, locals, before>>

\* The error of Publish is dropped too.
LosePublish(r) ==
    /\ pc[r] \in Publishing
    /\ Published(r)
    /\ UNCHANGED <<req, tx, rows, locals, published, before>>

InFlight == {r \in Requests : pc[r] \in Querying \cup Publishing}
Undone == {r \in Requests : tx[r] = "open"}

\* The process stops: requests in flight get no answer, PostgreSQL rolls
\* back their open transactions.
Crash ==
    /\ InFlight # {}
    /\ pc' = [r \in Requests |-> IF r \in InFlight THEN "done" ELSE pc[r]]
    /\ tx' = [r \in Requests |-> IF r \in Undone THEN "aborted" ELSE tx[r]]
    /\ swipes' = swipes \ Undone
    /\ matches' = matches \ Undone
    /\ conversations' = conversations \ Undone
    /\ members' = {m \in members : m.by \notin Undone}
    /\ UNCHANGED <<req, locals, published, reply, before>>

-----------------------------------------------------------------------------
(* GET /v1/matches and GET /v1/conversations: which rows the lists of a    *)
(* user hold.  They read what is committed and change nothing.             *)

MembersOf(c) == {m.user : m \in {x \in members : x.conversation = c /\ tx[x.by] = "committed"}}
Listed == [match : Committed(matches), conversation : Committed(conversations), partner : Users]

MatchesAsLow(u) == \* the join with one of the two orders of the pair
    {e \in Listed :
        matchID[e.conversation] = e.match /\ MatchKey(e.match) = [low |-> u, high |-> e.partner]}

\* The match's pair, and its conversation through match_id.
ListMatchesForUser(u) ==
    {e \in Listed :
        /\ matchID[e.conversation] = e.match
        /\ MatchKey(e.match) \in {[low |-> u, high |-> e.partner], [low |-> e.partner, high |-> u]}}

\* conversation_members joined with itself.
ListConversationsForUser(u) ==
    {e \in Listed :
        /\ matchID[e.conversation] = e.match
        /\ u \in MembersOf(e.conversation)
        /\ e.partner \in MembersOf(e.conversation) \ {u}}

-----------------------------------------------------------------------------
(* The whole.                                                              *)

\* Every request has been served.
Served ==
    /\ \A r \in Requests : pc[r] = "done"
    /\ UNCHANGED vars

\* The steps recordSwipe takes as long as PostgreSQL and Redis serve it.
Handle(r) ==
    \/ CreateSwipe(r)
    \/ RejectInsert(r)
    \/ HasReciprocalLike(r)
    \/ UpsertMatch(r)
    \/ UpsertConversationForMatch(r)
    \/ AddConversationMembers(r)
    \/ Commit(r)
    \/ Publish(r)

\* What goes wrong on the way.
Disturb(r) ==
    \/ CommitUnacknowledged(r)
    \/ Fail(r)
    \/ LosePublish(r)

Receive(r) ==
    \E a \in Users, t \in Ids : Refuse(r, a, t) \/ \E d \in Actions : BeginTx(r, a, t, d)

Next ==
    \/ \E r \in Requests : Receive(r) \/ Handle(r) \/ Disturb(r)
    \/ Crash
    \/ Served

Spec == Init /\ [][Next]_vars

\* Go runs every handler, and PostgreSQL and Redis answer its calls; only an
\* insert that waits for another transaction is not answered until that one
\* ends.  Clients are free not to call, and nothing is obliged to go wrong.
ServedFairly(r) == WF_vars(Handle(r))
Fairness == \A r \in Requests : ServedFairly(r)
FairSpec == Spec /\ Fairness

-----------------------------------------------------------------------------
(* Properties.                                                             *)

RowNames == Requests \cup {Nil}
MemberRow == [conversation : Requests, user : Users, by : Requests]
Event == [to : Users, match : Requests, conversation : Requests,
          partner : Users \cup {Nil}, by : Requests]

\* Type invariant of the tables, the local variables and the events.
TypeOK ==
    /\ pc \in [Requests -> PC]
    /\ req \in [Requests -> SwipeRequest \cup {Nil}]
    /\ tx \in [Requests -> {"none", "open", "committed", "aborted"}]
    /\ swipes \subseteq Requests
    /\ matches \subseteq Requests
    /\ conversations \subseteq Requests
    /\ members \subseteq MemberRow
    /\ matchID \in [Requests -> RowNames]
    /\ conversationID \in [Requests -> RowNames]
    /\ published \subseteq Event
    /\ reply \in [Requests -> Replies]
    /\ before \in [Requests -> SUBSET Requests]

\* Two likes that answer each other.
Mutual(p, q) ==
    /\ req[p].action = "like" /\ req[q].action = "like"
    /\ req[p].actor = req[q].target /\ req[p].target = req[q].actor

\* Whatever fails, is lost or crashes, a match that can be seen was opened by
\* a like that answers a like, both of them committed: recordSwipe reads the
\* first like and commits the second one in the same transaction.
MatchOnlyMutual ==
    \A m \in Committed(matches) :
        m \in swipes /\ \E q \in Committed(swipes) : Mutual(m, q)

\* Two likes that answer each other make a match unless their transactions
\* overlapped: when one was committed before the other's insert, and the
\* other commits too, there is a match of their key.
LostMatchOnlyByOverlap ==
    \A p, q \in Committed(swipes) :
        Mutual(p, q) /\ q \in before[p]
        => \E m \in Committed(matches) : MatchKey(m) = MatchKey(p)

\* A pair has at most one match, and a match exactly one conversation, whose
\* members are exactly the two users: nobody ever sees a match without its
\* conversation or a conversation with one member or three.
OneRoomPerPair ==
    /\ \A m, n \in Committed(matches) : MatchKey(m) = MatchKey(n) => m = n
    /\ \A m \in Committed(matches) :
         \E c \in Committed(conversations) :
            /\ \A k \in Committed(conversations) : matchID[k] = m <=> k = c
            /\ \A u \in Users : u \in {req[m].actor, req[m].target}
                  <=> \E x \in members : /\ x.conversation = c /\ x.user = u
                                         /\ tx[x.by] = "committed"

\* The matches and the conversations a user can list are the same at any moment,
\* although one list reads the pair and the other the members, and the partner
\* lists the same match, with that user, and no partner twice.
ListsAgree ==
    \A u \in Users :
        /\ ListMatchesForUser(u) = ListConversationsForUser(u)
        /\ \A e \in ListMatchesForUser(u) :
              /\ [e EXCEPT !.partner = u] \in ListMatchesForUser(e.partner)
              /\ \A f \in ListMatchesForUser(u) : f.partner = e.partner => f = e

\* An event announces a committed match and its own conversation to one of
\* the two users, names the other one or nobody as the partner, and no user
\* is told twice of a match, whoever retried and whoever swiped first.
EventsTruthful ==
    /\ \A e \in published :
         /\ e.match \in Committed(matches)
         /\ e.conversation \in Committed(conversations)
         /\ matchID[e.conversation] = e.match
         /\ e.to \in {req[e.match].actor, req[e.match].target}
         /\ e.partner # Nil => {e.to, e.partner} = {req[e.match].actor, req[e.match].target}
    /\ \A e, f \in published : e.to = f.to /\ e.match = f.match => e = f

\* What the answers promise stays true for ever: "created" and "matched" only
\* for a swipe that is in the table, "matched" only with its match, and
\* swipe_already_exists only if another request's decision on the same target
\* is in the table; the refusals leave nothing behind.
RepliesTruthful ==
    \A r \in Requests :
        /\ reply[r] \in {"created", "matched"} => r \in Committed(swipes)
        /\ reply[r] = "matched" => matchID[r] \in Committed(matches)
        /\ reply[r] = "swipe_already_exists" =>
              r \notin swipes /\ \E q \in Committed(swipes) : q # r /\ SameKey(q, r)
        /\ reply[r] \in {"rate_limit_exceeded", "invalid_swipe"} => tx[r] = "none"

\* The open transactions the next statement of r waits for: rows of its key
\* that are not committed yet.
Blockers(r) ==
    {q \in Undone :
        \/ pc[r] = "insert" /\ q \in Inserted(r)
        \/ pc[r] = "match" /\ q \in MatchHolders(r)
        \/ pc[r] = "conversation" /\ q \in ConversationHolders(r)}

\* Transactions never wait for each other in a circle: only the insert of a
\* swipe waits, the two upserts never do, and whoever it waits for is a
\* request that is still served and waits for nobody itself, although a
\* transaction takes the keys of three tables one after the other.
WaitsAreShort ==
    \A r \in Requests : \A q \in Blockers(r) :
        pc[r] = "insert" /\ pc[q] \in Querying /\ Blockers(q) = {}

\* A request whose transaction was begun is finished, although inserts wait
\* for each other's transactions.
EveryRequestFinishes == \A r \in Requests : pc[r] = "insert" ~> pc[r] = "done"

\* The documentation of the endpoint: if both users gave a like, they are
\* matched.
MutualLikesMatch ==
    \A p, q \in Committed(swipes) :
        Mutual(p, q) => \E m \in Committed(matches) : MatchKey(m) = MatchKey(p)

-----------------------------------------------------------------------------
(* The ledger this module implements.                                      *)

Pair(r) == {req[r].actor, req[r].target}

decisionsBar == {req[r] : r \in Committed(swipes)}
roomsBar == {[pair |-> Pair(matchID[c]), members |-> MembersOf(c)] : c \in Committed(conversations)}
toldBar == {<<e.to, Pair(e.match)>> : e \in published}

Ledger == INSTANCE SwipeLedger WITH
    decisions <- decisionsBar, rooms <- roomsBar, told <- toldBar

\* Seen through what is committed, the transactions are atomic decisions.
LedgerSpec == Ledger!Spec
=============================================================================
