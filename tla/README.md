# Match Camp, specified in TLA+

Match Camp is the Go API of a campus dating app. One process serves HTTP and
WebSocket clients; its state is in PostgreSQL, in Redis (a presence key per
user, Pub/Sub channels for events) and in an object store for photos. There
may be several processes. This directory holds TLA+ modules of the parts where
order and failure matter, the TLC instances that check them, and TLAPS proofs
that their properties hold for every size of the instance.

## The system

| Part | Code | State | Operations | Works with |
|---|---|---|---|---|
| Accounts, sessions | `server.go` register, login, logout, google*, requireAuth; `auth.sql.go`; `auth/` | users, auth_identities, sessions | create, sign in, sign out, authenticate | every handler is behind requireAuth |
| Profile, preferences, visibility, blocks | `server.go` 442-572, 717-753; `profile.sql.go` | profiles, profile_preferences, blocks | upsert, set visible, block | discovery reads them |
| Photos | `server.go` 574-675; `storage/` | profile_photos; objects | upload, delete, list | table and store change one after the other |
| Discovery | `server.go` 755-785; `profile.sql.go` 201-266 | none | list, by offset | reads profiles, preferences, swipes, blocks |
| Lists | `server.go` 822-890; `match.sql.go` 66-213 | none | list matches, list conversations | read what swipes and chat wrote |
| Swipes, matches, rooms | `server.go` 792-820, 1166-1247; `match.sql.go` | swipes, matches, conversations, conversation_members | swipe | publishes `match` events; rooms are what chat runs in |
| Chat | `server.go` 892-1152; `chat.sql.go`; migration 00003 | messages, last_message_at | send, typing, list a page and mark it read | publishes to `user:<id>`; member checks on the rooms |
| Sockets, presence | `server.go` 962-1091 | presence keys in Redis; per socket two goroutines, a read loop, timers | connect, renew, ping, push, close | fanout of the channel `user:<id>` to the user's sockets |
| Rate limiters | `ratelimit.go` | token buckets in memory | allow | in front of register, login, swipe, POST message |
| The rest | `apperror`, `config`, `docs`, `database`, `cmd/api` | | texts, environment, pool, start, shutdown | |

What is hard to test in it:

* Transactions run at READ COMMITTED (`BeginTx(ctx, pgx.TxOptions{})`) and
  decide on what other transactions committed: two of them can miss each other.
* Almost every call after the decisive one has its error dropped (`_ =`):
  publishing, presence, marking as read, removing objects.
* A call can be applied and its answer lost, and the process can stop between
  any two calls.
* A user has several sockets and one presence key, with deferred deletion,
  periodic renewal, expiry, pings and read deadlines racing over it.
* `created_at` and `updated_at` are the time a statement begins, not the time it
  is committed, and pages are cut by the one and ordered by the other.
* A token bucket is asked after the map's lock is given up, with a time read
  before the bucket's own lock is taken.
* What one process puts into the object store another one may have to remove,
  after its configuration was changed.

`PROJECT.json` lists each such hazard at its line, with the properties that
would notice it.

What makes each part correct: matches only for likes that answer each other,
one room per pair with both members and never half of it, answers and events
that stay true (swipes); online while connected and only then, up to bounded
delays (presence); a shown photo has its object, a replaced one never returns,
garbage only where something went wrong (photos); events only to members,
after the fact, once and in a sender's order, and read marks only by the other
member (chat); nobody signed in as somebody else, sessions that last until
logout or expiry, one user per Google account (accounts); no answered block,
hiding or swipe overlooked by a page, and nobody skipped or repeated without a
change that explains it (profiles, discovery); both lists of both users in
agreement (lists); no more requests let through than burst and refill, and
nobody refused who keeps to that (limiters).

## Modules

| Module | What it is |
|---|---|
| `SwipeLedger` | what the swipe endpoint promises: atomic decisions, rooms, who was told |
| `Swipes` | `Server.swipe` and `recordSwipe`, one action per call, and the lists of matches and conversations; implements `SwipeLedger` |
| `Presence` | the connections of one user over one key, with time |
| `Photos` | upload and deletion over a table and object stores, with the urls and keys of both drivers |
| `ChatLog` | what chat promises: a log, events and signals shown once, read marks |
| `Chat` | createMessage, typing, fanout, pages and MarkMessagesRead; implements `ChatLog` |
| `AccountBook` | what sign-up and sign-in promise: accounts, passwords, links, sessions |
| `Accounts` | register, login, Google sign-in, requireAuth and logout, one action per call; implements `AccountBook` |
| `Discovery` | profiles, visibility, preferences, blocks and swipes, and the pages GET /v1/discovery makes of them |
| `RateLimit` | `keyedLimiter.allow` over token buckets, under concurrent requests |
| `MC*` | instances for TLC |
| `*_proofs` | theorems and their proofs |

The modules are parts of one system, cut where they share only what one of
them guarantees. `Swipes` shows that a conversation appears with both of its
members (OneRoomPerPair) and never changes (the theorem RoomsStay); `Chat` takes
that as its constant `Members`. `Accounts` shows which user a guarded handler runs for
(AdmissionsTruthful); the others take the user of a request as given. `Chat` has
the fanout of a socket, `Presence` its timers and key; neither reads the
other's state. `Discovery` takes a committed swipe as one step, which is what
`Swipes` shows it to be (LedgerSpec). Where `Swipes`, `Chat` and `Accounts` let a
request be refused at will, `RateLimit` says when the limiter does.

### Swipes

A request runs at most one transaction, so a row is named after the request
that inserted it, and `tx[r]` says who sees it: `Visible(table, r)` is what a
statement of `r` sees at READ COMMITTED. `pc[r]` is the next call. The actions
follow `recordSwipe` line by line: BeginTx, CreateSwipe (which waits while an
open transaction holds the key and is rejected when a committed one does),
HasReciprocalLike, UpsertMatch, UpsertConversationForMatch,
AddConversationMembers, Commit, and one Publish per recipient. Fail is an error
of any call with the deferred rollback, CommitUnacknowledged a commit that
happened and was reported failed, LosePublish a dropped event, and Crash the
end of the process with every open transaction rolled back. The two inserts of
members are one step, since nothing shows between them. The limiter, the checks
on the body and unknown users are in Refuse and RejectInsert.

ListMatchesForUser and ListConversationsForUser are the joins of the two
queries over the rows committed, one through the pair of a match, the other
through the members of a conversation. They read one snapshot each, so they are
operators and not actions, and ListsAgree holds them against each other in
every state: the same rooms in both, for both users, each partner once.

The ledger is seen through what is committed: decisions are the committed
swipes, rooms the committed conversations with their committed members, told
the events published. A commit is the step that decides; everything else
stutters. The ledger *may* open a room for the second of two likes; it cannot
be obliged to, because the code can lose it (MutualLikesMatch below).

### Presence

One unit of time is five seconds. Timers count down and Tick passes over
nothing that is due, so a goroutine reacts within the unit, in any order with
the others. A handler goes from none to reading, closing (the read failed),
deleted (the deferred Del ran) and back, its goroutine (`ticking`) living until
the cancel, which runs after Del: a renewal fits between them. `peer` are the
connections with a client still there; one that vanished answers no ping, so
its read deadline passes. WriteFails ends the goroutines and leaves the read
loop. Stop is the end of the process, with no deferred call. SETs may fail up
to MaxLost times in a row, the Del at will.

### Photos

An upload reads the old url, puts the object under a new key, upserts the row
and removes the old object, or removes its own when the upsert failed. Keys
are random, so an object is named after its upload. Each call may fail, those
that write with or without effect. `successor` and `unconfirmed` are history:
which request took a url out of its row, and which upserts were applied though
reported failed.

Every request is served by a process with a store of its own configuration
(`store[r]`: driver, host and path of the public base url), since urls stay in
the table when the configuration changes. Prefix is the path Put places before
the key; KeyFromURL says whether the store that removes an object reads the key
back from the url. Hosts are compared as names and paths segment by segment.
OrphansExplained lists what is left behind when no call fails: objects of a
store that is configured differently now, and every object of a local store
whose public base url has a path, because LocalStore.KeyFromURL looks for
`/uploads/` at the root of the path while Put writes it after the base.

### Chat

A message, a typing frame and a GET are requests with a `pc`. A frame is taken
from a socket when the frame before it is done with (the read loop serves one
at a time); HTTP requests run concurrently. An insert takes `created_at` from
the clock when it begins and becomes visible when it commits, in the order of
the trigger's row lock; so begin and commit are two actions. Publish delivers
to any subset of the member's sockets, which covers lost publishes, a
subscription that is not yet there, a full channel and a reconnect. A page is
any set that ORDER BY created_at DESC LIMIT may give, ties broken at will. The
cursor is the created_at of a stored message, and two GETs are a walk when the
second one's cursor is the oldest created_at of the first one's page (Continues).
WalkMissesExplained lists what such a walk can miss: what was stored after the
earlier page was listed (also with an older created_at, from an insert that took
long), what shares the created_at the walk was continued at, and what lies
before its first page. The trigger keeps last_message_at (`lastAt`); no query
reads it.
Abandon is a refused check or a failed call. A socket whose write failed has
left `online`; its read loop still takes frames, but its context is cancelled
and every call of theirs fails, so they change nothing and are left out. Frames of
a socket are not asked for by the message limiter.

In the log a message is stored once and shown to sockets of members, at most
once each; a typing event is a signal one member gives the others and leaves no
trace; marks are set for all of the other's messages that are stored.

### Accounts

A request is a registration, a login, the callback of a Google sign-in or a
request behind requireAuth, which may turn out to be a logout; which one is
chosen when it comes in. Accounts are named by their email, passwords by the
registration that brings them, tokens by the sign-in that draws them. `who[r]`
is the user the handler acts for. What an open Google transaction has written
is told from its `pc` (Held, `linking`): an insert of the same email waits for
it, LinkGoogleIdentity waits for another transaction that links the same Google
user, and Committed makes the rows visible. CreateSession may store the session
and lose the answer. Expire lets `expires_at` pass at any time, which covers
every length of a session. Fail is an error of any call with the deferred
rollback. RefuseLogin also answers when the query failed: login looks at the
password's validity before it looks at `err`, so `login_failed` is only
reachable when a row was read all the same. Requests the limiter, a check on
the body, `emailAllowed` or Google refuses change nothing and are left out.

In the book, sign-up, Google sign-up, the beginning and the end of a session
are single steps; a Google transaction happens when it commits. The book lets a
session begin for *any* account: that it is the right one is SignInsTruthful,
which needs the request, so it is stated on the code.

### Discovery

The tables are functions and sets; each write is one statement and one step,
and takes one unit of the clock. `updated_at` is the time the statement began,
at most Overlap writes earlier, because it can have waited for the row. A save
leaves `visible` alone; UpdateProfileVisibility changes rows with course and
campus only, in either direction, and answers profile_incomplete otherwise.
ListDiscoveryProfiles is one query, hence one step: Candidates is its WHERE,
Orders its ORDER BY with ties in any order, Page its LIMIT and OFFSET. The order
of the whole result is kept in `rank`, so that pages can be compared.

`told` is what was asked, answered and not taken back, and PagesAsTold holds
every page against it: against the blocks of *both* users, of which each one
takes back only his own. Writes are taken as answered; one whose answer was lost
promises less. SkipsExplained and RepeatsExplained compare two pages of a walk:
a profile the viewer never gets to see, or sees twice, has moved, or one ahead
of it has come, gone or moved, or was stamped with the same time. None of these
causes can be left out: TLC finds a walk for each. The viewer's own swipes
between two pages are the most ordinary cause of a skip. IncompleteBySaveOnly
says how a visible profile without course and campus comes about, and that its
owner, whom updateVisibility refuses, gets out of it only by saving them.

An age is stored as a number, where the code has a birth date: birthdays while
the system runs are not modelled. `interested_in` is stored and never read.

### RateLimit

Tokens are counted in time, a request costing Period of it, so that nothing is
rounded; the library counts in floating point. Lookup is the map under its
mutex. ReadClock and Allow or Refuse are the two halves of `Limiter.Allow`, an
external library: the clock is read first, the bucket's lock is taken later, so
requests of one key are decided in any order of their times. A request that
brings an older time sets the bucket back to it, and that stretch is refilled a
second time; `rewound` counts it. GrantsBounded is the bound of a token bucket, with
that term: by how much requests overtake each other, so much more is let
through. RefusalsJustified is its converse. A limiter is named by the request
that made it; Restart drops the map (Allowed counts within one process).
With several processes each has its own buckets.

## Runs

| Run | Instance | Question |
|---|---|---|
| `swipes` | 3 users and an unknown id, 3 requests | are matches mutual, rooms whole, events and answers true, do the lists agree, do transactions ever wait in a circle, is it the ledger, and does waiting for keys end? |
| `swipes_lost` | 2 users, 2 requests | do two likes always match? No. |
| `presence` | 2 connections, one lost SET in a row | do the periods of the code fit together? |
| `presence_two_tabs` | 2 connections, no call lost | is a connected user online? No. |
| `photos` | 2 uploads, 2 deletions, 2 slots, 3 configurations of the store | rows without object, objects without row |
| `chat_events` | 2 members, 1 outsider, 2 messages, 1 typing frame, 2 sockets | who is pushed what, and in which order |
| `chat_reads` | the same users, 2 messages, 2 GETs with pages of 1 | who marks what as read, and what does a walk miss |
| `accounts` | 2 emails, 2 Google users, 3 requests of any kind | who is signed in and let in as whom, what ends a session, and is it the book? |
| `accounts_logout` | 1 email, 2 requests, no call lost | does a logout end its session? No. |
| `rate_limit` | 4 requests, 2 keys, buckets of 2 refilled in 2 units, 4 times | how many are let through, and who is refused |
| `rate_limit_minute` | 3 requests, 1 key, a bucket of 2 refilled in a minute of 2 units | are there ever more in a minute than documented? Yes. |
| `discovery` | 1 viewer, 2 others, 5 writes, 2 pages of 1 | who is shown, skipped and repeated |

Bounds. Three swipe requests are enough for two overlapping likes with a third
swipe that repeats one of them or involves a third user; a match needs two, and
keys tie requests only in pairs. That run checks liveness too, so it does without
SYMMETRY; `NamedSpec` in MCSwipes numbers the requests in the order they come in
and takes the first swipe to be of user 1 on user 2, which is one naming of every
behaviour, and lets only the last request be about an id that no user has. Two
connections are enough for one to take the key from the other, and each may come and go without end; `Forgotten` caps the
count of silent time where it no longer matters. Two uploads race for a slot
while a deletion replaces the winner, and each may be served with another of the
three stores: the local one as it comes, the local one behind a path, a bucket
published under a path. Two messages are the least
that can be ordered or overlap; a page of one makes the second message fall off
it; the clock goes on only when an insert begins, so it is bounded by the
number of messages. Three account requests are two sign-ins that collide and
one that meets the result, or two sessions and a logout, or a session, its end
and a request with its token. Of four requests two can share a bucket of two
with a third that is refused or rewinds it, and one can have the other key;
three units of time are more than a refill. Of five writes, two save and two
show the others, which leaves one between the pages; a page of one makes the
other profile the next page. The proofs have none of these bounds. Requests that
differ only in name are symmetric; `swipes` and the runs with a counterexample use
no symmetry. Deadlock is checked in every run: a system with
nothing left to do takes Served (Waiting in Chat), and Presence can always tick
or act.

Fairness is assumed in `swipes` only: weak fairness of each request's
next successful step. Go schedules every goroutine, PostgreSQL and Redis answer
or the call fails (a failure also ends the request), and an insert that waits
is answered when the transaction it waits for ends. Clients owe nothing, and
nothing is obliged to fail.

## What the violated runs show

* `swipes_lost`: both users like each other, each transaction looks for the
  other's like before it is committed, both commit without a match, and the
  unique key refuses any later swipe. The documentation of the endpoint promises
  `matched` when both gave a like. LostMatchOnlyByOverlap, which holds, says
  that only overlapping transactions can do this.
* `presence_two_tabs`: two tabs, one is closed, its deferred Del removes the
  key of both. `online`, documented as having an active connection, is false
  until the other's next renewal (HealsByRenewal bounds that).
* `accounts_logout`: requireAuth lets a client in with its Bearer token, logout
  deletes the session of the cookie only, finds none, and answers 204, which the
  documentation calls a session that is ended. SessionsLast, which holds, is the
  other direction: a logout ends no session but that of its cookie.
* `rate_limit_minute`: `docs/openapi.yaml` gives flat limits, 60 swipes a minute
  and the like, and so does the comment in `New` for swipes. A bucket begins with
  its burst, though, and is refilled beside: of three swipes where two a minute are
  documented, two are let through at once and the third when half of the minute
  is over, with no race and no restart. In the code's numbers that is up to 119
  swipes (60 documented), 14 registrations (5), 29 logins (10) and 89 messages (30)
  in a minute. GrantsBounded, which holds, is the bound the code does keep, and has
  the burst in it; BurstComesOnTop proves that this is all by which the
  documentation is exceeded as long as no requests overtake each other.

## What is proved

Every theorem holds for any sets of users, requests, connections or sockets.
Each component has an inductive invariant `IInv`; the proofs are that Init
implies it, that every action preserves it, one step per action, and that it
implies the property. Every property of a passing run is proved this way but
one, EveryRequestFinishes. The rest of the theorems say what no run could, or
what a run refutes only in part.

* `Swipes_proofs`: all invariants and the refinement. Why it is needed: that a
  match is mutual says nothing of the like that was *read*, so `MatchInv` ties
  an open transaction past its read to the like it found, which is committed
  and stays so. The upserts are shown never to meet an existing row:
  `OneMatching` says that of all requests at most one can have got to the match
  of a key, because a second one would need the same unique swipe row or the
  reciprocal like inserted before and after its own. That gives whole rooms and
  the refinement. ListsAgree follows from whole rooms: a conversation's members
  are the pair of its match. WaitsEnd follows from `OneMatching` too: of the
  inserts into swipes, matches and conversations only the first can meet another
  transaction's row, and that transaction is past its own insert, so nobody
  waits for somebody who waits. RoomsStay is an action property: a visible
  conversation keeps its members for good. Assumptions: users are ordered, Nil is
  none of them.
* `Presence_proofs`: the types and the three timed properties, for all periods with
  `(MaxLost + 1) * RenewEvery < TTL` and `PingEvery < PongWait`, which 20, 45,
  30 and 60 seconds satisfy with MaxLost = 1. `KeptInv` says that the key has
  at least TTL minus the time since the last SET left to live. OnlineOneByOne is
  what is true of the documented meaning of `online`: it holds as long as no two
  handlers of the user overlap, deferred calls included, and no SET is lost. So
  the second connection in `presence_two_tabs` is needed.
* `Photos_proofs`: the types, both invariants and the action property. `RowInv`
  says a url is only ever in its upload's own slot, and then not yet replaced;
  `OldInv` that what a request read before is either still in the row or has
  been replaced, so removing it late is safe. That the store which put an object
  reads its key back, unless it is local with a path, is the lemma
  OwnUrlsAreRead, on which OrphansExplained rests. RowsShareNothing: no two rows
  show the same object. CalmStoresAgree is the converse of the invariants that
  explain damage: while no call fails, the requests of a slot do not overlap and
  all stores read each other's urls (`Calm`), table and store agree whenever
  nothing is in flight.
* `Chat_proofs`: all invariants and the refinement.
  `FramesInv` says that a member whose sockets have an event is not pending for
  it any more, hence at most once; `SocketInv` that a socket's earlier frames
  are done, hence the order; `PageInv` keeps the reason a message is off a page
  from the SELECT on, which gives ReadsExplained at the UPDATE and
  WalkMissesExplained for two pages. In the refinement a commit of the insert is
  Store, answered or not, a Publish shows a message or signals typing, the UPDATE
  is Read, and every other step stutters. HistoryStays: no message is lost,
  dated anew, given to somebody else or marked unread, and a socket's frames are
  only added to. WalksAreComplete extends WalkMissesExplained from two pages to
  any number: a walk from the newest page to a short one shows every message that
  was stored before it, but those that share their created_at with a cursor. The
  walk has no bound, so the proof needs an induction, made as a least-element
  argument: some page's cursor lies after a missed message while the next one's
  does not, and so the first of the two would have shown it, were it not for a tie
  with the second one's cursor.
* `Accounts_proofs`: all invariants and the refinement. SignInsTruthful has to
  survive the sign-ins of others: `SignInInv` carries the shown password or link
  from the check to the session and uses that neither ever changes. That a link
  never changes is `LinkInv`: of the open transactions at most one is about to
  link a Google user, and only one that has no link. `OverlapInv` is what makes
  SplitOnlyByOverlap inductive: a transaction that missed a link which is there
  now was open while the linking one was, so neither had ended when the other
  looked. `GuardInv` says that a token that was over stays over. Three action
  properties follow: a token that is over never admits anybody again
  (TokensEndForGood) and never changes its user (TokensStayTheirUsers); accounts,
  passwords and links stay (AccountsAreKept, which is read off the refinement:
  the book has no step that changes them). CookieLogoutsEndSessions is the
  positive side of `accounts_logout`: where no call fails, a logout has ended the
  session of its cookie.
* `RateLimit_proofs`: both bounds. `LookupInv` says that the requests of a key
  in one process share one limiter. `DrainedInv` is the potential argument: what
  a window took and what the bucket still holds were there at its start, or came
  since, or twice; the bound follows because tokens are not negative. `SpentInv`
  is its converse: what the bucket lacks was taken since it was last full.
  GrantsBounded has the term `rewound`, which is a history; RewindsAreBounded
  says what it can be. If no request is decided more than D after it read the
  clock (`DecidedWithin(D)`, a condition on the scheduler, assumed in every
  state), each decision sets a bucket back by at most D, so a window sees at most
  the burst, the refill and D for each request its limiter ever granted
  (DelayBoundsGrants), and with D = 0, were Allow atomic, the bound of the
  textbook (AtomicAllow), which exceeds the documented limit by less than one burst
  (BurstComesOnTop).
  Assumptions: burst and period are at least 1.
* `Discovery_proofs`: all properties. `ToldInv` says that answers which were not
  taken back are what the tables say, `BarredInv` that the query excludes them,
  `OrderInv` that ranks count the profiles ahead. SkipsExplained is then a count:
  a profile whose rank fell below the offset has fewer ahead of it than before,
  so one that was ahead is gone or has come behind, and since both kept their
  times, these are the same. ShortPagesAreLast: a page with fewer profiles than
  asked for has nobody behind it, so a client may stop there; it follows from
  ranks being a bijection onto an initial piece of the numbers.

Progress. NoCallTwice says that every step of a request is towards its end.
Under `FairSpec`, TransactionsEnd and WaitsAreOver conclude that a transaction
past its insert ends, and that an insert does not wait for ever for one
transaction. The provers do not look into ENABLED, so both take as a hypothesis
(`CanGoOn`) what the guards of `recordSwipe` amount to: past the insert, a
request can always make its next call. It is a hypothesis about the shape of the
actions and not about the environment, and `swipes` would show a request
stuck if it were false.

Only model-checked: EveryRequestFinishes itself. An insert can find its key
taken again each time it is freed, by at most every other request once; going
from one transaction to all of them is a temporal induction over a finite set,
which is beyond this prover. And the properties that the code violates, which
are refuted by a run and cannot be proved; the theorems named above say under
which conditions two of them hold, and by how much a third one is missed.

## What is not modelled

* Texts, formats and logging, the checks on the form of a body, bcrypt, the
  reading of the configuration, health and documentation pages, the seed
  program, the migrations as such (their constraints are in the modules that
  rely on them). Nothing in them has a state or an order a model could tell
  apart.
* The fields of a list row that are single reads (photo, last message,
  unread_count, online), and the order of the rows.
* `safeLocalPath` and the detection of image types: functions of one string.
* What the code does not do: blocks do not bind swipes, messages and public
  profiles (IsBlocked is never called), frames of a socket do not pass the
  message limiter, a socket outlives the session that opened it. The modules
  have no such guard either; no document promises one, so there is no
  property for it. They are listed as hazards.
* Events of two matches: published after the commit, in any order.
* The buckets are never dropped from the map; memory is not modelled.
