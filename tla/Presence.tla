------------------------------ MODULE Presence ------------------------------
(***************************************************************************)
(* The key presence:<user> in Redis and the handlers (Server.websocket) of *)
(* one user's WebSocket connections.  A handler sets the key when it       *)
(* starts, its ticker goroutine renews it, and its deferred calls delete   *)
(* it, whichever other connections the user has.                           *)
(*                                                                         *)
(* Time is discrete.  The timers count down; Tick is one unit of time and  *)
(* does not pass over a timer that is due, nor over a handler that is in   *)
(* its deferred calls: reactions take no time compared with the periods.   *)
(* The calls of one reaction still interleave with the other goroutines.   *)
(***************************************************************************)
EXTENDS Naturals

CONSTANTS
    Conns,       \* the user's connections, one at a time per element
    TTL,         \* life of the key: 45 s
    RenewEvery,  \* period of presenceTicker: 20 s
    PingEvery,   \* wsPingInterval: 30 s
    PongWait,    \* wsPongWait: 60 s
    MaxLost      \* bound: SETs of the key that may fail in a row

ASSUME PeriodsAssumption ==
    /\ {TTL, RenewEvery, PingEvery, PongWait} \subseteq Nat \ {0}
    /\ MaxLost \in Nat
    /\ (MaxLost + 1) * RenewEvery < TTL
    /\ PingEvery < PongWait

VARIABLES
    presence,   \* time the key has left to live, 0 when there is no key
    handler,    \* handler[c]: none, reading, closing or deleted
    ticking,    \* connections whose ping and presence goroutine runs
    peer,       \* connections whose client is still there
    renewIn,    \* renewIn[c]: time to the next tick of presenceTicker
    pingIn,     \* pingIn[c]: time to the next tick of pingTicker
    readIn,     \* readIn[c]: time to the read deadline
    lost,       \* SETs that failed since the last that succeeded
    kept,       \* history: connections that set the key and saw no Del since
    silent,     \* history: time since a client was connected
    absent      \* history, absent[c]: how long c's goroutine has run without key

timers == <<renewIn, pingIn, readIn>>
history == <<kept, silent, absent>>
vars == <<presence, handler, ticking, peer, timers, lost, history>>

\* The longest a silence can matter; silent counts no further.
Forgotten == PongWait + TTL

Init ==
    /\ presence = 0
    /\ handler = [c \in Conns |-> "none"]
    /\ ticking = {}
    /\ peer = {}
    /\ renewIn = [c \in Conns |-> 0]
    /\ pingIn = [c \in Conns |-> 0]
    /\ readIn = [c \in Conns |-> 0]
    /\ lost = 0
    /\ kept = {}
    /\ silent = Forgotten
    /\ absent = [c \in Conns |-> 0]

Running == {c \in Conns : handler[c] # "none"}
Served == {c \in Conns : handler[c] = "reading" /\ c \in peer}

-----------------------------------------------------------------------------
(* Calls to Redis, whose errors the handler drops.                         *)

SetPresenceForPongWait(c) == \* the expiry taken from wsPongWait
    /\ presence' = PongWait
    /\ lost' = 0
    /\ kept' = kept \cup {c}
    /\ absent' = [d \in Conns |-> 0]

SetSucceeds(c) ==
    /\ presence' = TTL
    /\ lost' = 0
    /\ kept' = kept \cup {c}
    /\ absent' = [d \in Conns |-> 0]

SetIsLost ==
    /\ lost < MaxLost
    /\ lost' = lost + 1
    /\ UNCHANGED <<presence, kept, absent>>

SetPresence(c) == SetSucceeds(c) \/ SetIsLost

DelSucceeds ==
    /\ presence' = 0
    /\ kept' = {}

DelPresence == DelSucceeds \/ UNCHANGED <<presence, kept>>

-----------------------------------------------------------------------------
(* The handler and its goroutines.                                         *)

Connect(c) ==
    /\ handler[c] = "none"
    /\ handler' = [handler EXCEPT ![c] = "reading"]
    /\ ticking' = ticking \cup {c}
    /\ peer' = peer \cup {c}
    /\ renewIn' = [renewIn EXCEPT ![c] = RenewEvery]
    /\ pingIn' = [pingIn EXCEPT ![c] = PingEvery]
    /\ readIn' = [readIn EXCEPT ![c] = PongWait]
    /\ SetPresence(c)
    /\ silent' = 0

RenewNever(c) == \* the key set once, when the connection opens
    /\ c \in ticking /\ renewIn[c] = 0
    /\ renewIn' = [renewIn EXCEPT ![c] = RenewEvery]
    /\ UNCHANGED <<presence, handler, ticking, peer, pingIn, readIn, lost, history>>

RenewByExpire(c) == \* EXPIRE, which does nothing to a deleted key, in place of SET
    /\ c \in ticking /\ renewIn[c] = 0
    /\ renewIn' = [renewIn EXCEPT ![c] = RenewEvery]
    /\ IF presence > 0 THEN SetPresence(c) ELSE UNCHANGED <<presence, lost, kept, absent>>
    /\ UNCHANGED <<handler, ticking, peer, pingIn, readIn, silent>>

\* The goroutine runs until the context is cancelled, so a renewal can come
\* after the handler has deleted the key.
Renew(c) ==
    /\ c \in ticking /\ renewIn[c] = 0
    /\ renewIn' = [renewIn EXCEPT ![c] = RenewEvery]
    /\ SetPresence(c)
    /\ UNCHANGED <<handler, ticking, peer, pingIn, readIn, silent>>

PingExtending(c) == \* the deadline moved by the ping itself, not by the pong
    /\ c \in ticking /\ pingIn[c] = 0
    /\ pingIn' = [pingIn EXCEPT ![c] = PingEvery]
    /\ readIn' = [readIn EXCEPT ![c] = PongWait]
    /\ UNCHANGED <<presence, handler, ticking, peer, renewIn, lost, history>>

\* A client that is there answers with a pong, which moves the read deadline.
Ping(c) ==
    /\ c \in ticking /\ pingIn[c] = 0
    /\ pingIn' = [pingIn EXCEPT ![c] = PingEvery]
    /\ readIn' = IF c \in Served THEN [readIn EXCEPT ![c] = PongWait] ELSE readIn
    /\ UNCHANGED <<presence, handler, ticking, peer, renewIn, lost, history>>

\* A ping or an event cannot be written within wsWriteWait: the goroutines
\* end, the read loop does not notice and waits for its deadline.
WriteFails(c) ==
    /\ c \in ticking /\ handler[c] = "reading"
    /\ ticking' = ticking \ {c}
    /\ absent' = [absent EXCEPT ![c] = 0]
    /\ UNCHANGED <<presence, handler, peer, timers, lost, kept, silent>>

\* The client vanishes without closing the connection.
PeerVanishes(c) ==
    /\ c \in Served
    /\ peer' = peer \ {c}
    /\ UNCHANGED <<presence, handler, ticking, timers, lost, history>>

\* ReadMessage fails: the client closed the connection, the connection was
\* reset, or the deadline passed; when it passes, Tick waits for this step.
ReadFails(c) ==
    /\ handler[c] = "reading"
    /\ handler' = [handler EXCEPT ![c] = "closing"]
    /\ peer' = peer \ {c}
    /\ UNCHANGED <<presence, ticking, timers, lost, history>>

\* The deferred calls run last to first: Close of the subscription, Del,
\* cancel, Close of the connection.
Del(c) ==
    /\ handler[c] = "closing"
    /\ handler' = [handler EXCEPT ![c] = "deleted"]
    /\ DelPresence
    /\ UNCHANGED <<ticking, peer, timers, lost, silent, absent>>

Cancel(c) ==
    /\ handler[c] = "deleted"
    /\ handler' = [handler EXCEPT ![c] = "none"]
    /\ ticking' = ticking \ {c}
    /\ kept' = kept \ {c}
    /\ absent' = [absent EXCEPT ![c] = 0]
    /\ UNCHANGED <<presence, peer, timers, lost, silent>>

\* The process stops: main does not wait for hijacked connections, so no
\* deferred call runs, and the key stays.
Stop ==
    /\ Running # {}
    /\ handler' = [c \in Conns |-> "none"]
    /\ ticking' = {}
    /\ peer' = {}
    /\ kept' = {}
    /\ absent' = [c \in Conns |-> 0]
    /\ UNCHANGED <<presence, timers, lost, silent>>

-----------------------------------------------------------------------------
Due(c) ==
    \/ c \in ticking /\ (renewIn[c] = 0 \/ pingIn[c] = 0)
    \/ handler[c] = "reading" /\ readIn[c] = 0
    \/ handler[c] \in {"closing", "deleted"}

Less(n) == IF n = 0 THEN 0 ELSE n - 1

Tick ==
    /\ \A c \in Conns : ~ Due(c)
    /\ presence' = Less(presence)
    /\ renewIn' = [c \in Conns |-> IF c \in ticking THEN Less(renewIn[c]) ELSE 0]
    /\ pingIn' = [c \in Conns |-> IF c \in ticking THEN Less(pingIn[c]) ELSE 0]
    /\ readIn' = [c \in Conns |-> IF handler[c] = "reading" THEN Less(readIn[c]) ELSE 0]
    /\ silent' = IF Served # {} THEN 0
                 ELSE IF silent = Forgotten THEN silent ELSE silent + 1
    /\ absent' = [c \in Conns |->
                    IF c \in ticking /\ presence = 0 THEN absent[c] + 1 ELSE absent[c]]
    /\ UNCHANGED <<handler, ticking, peer, lost, kept>>

Handler(c) ==
    \/ Connect(c)
    \/ Renew(c)
    \/ Ping(c)
    \/ WriteFails(c)
    \/ PeerVanishes(c)
    \/ ReadFails(c)
    \/ Del(c)
    \/ Cancel(c)

Next == (\E c \in Conns : Handler(c)) \/ Stop \/ Tick

Spec == Init /\ [][Next]_vars

-----------------------------------------------------------------------------
(* Properties.                                                             *)

\* Type invariant of the key, the handlers, the timers and the history.
TypeOK ==
    /\ presence \in 0 .. TTL
    /\ handler \in [Conns -> {"none", "reading", "closing", "deleted"}]
    /\ ticking \subseteq Conns
    /\ peer \subseteq Conns
    /\ renewIn \in [Conns -> 0 .. RenewEvery]
    /\ pingIn \in [Conns -> 0 .. PingEvery]
    /\ readIn \in [Conns -> 0 .. PongWait]
    /\ lost \in 0 .. MaxLost
    /\ kept \subseteq Conns
    /\ silent \in 0 .. Forgotten
    /\ absent \in [Conns -> Nat]

\* The life of the key outlasts MaxLost lost renewals: once a handler has set
\* it, and as long as no other handler deletes it, its user stays online.
StaysOnline == ticking \cap kept # {} => presence > 0

\* A key deleted under a connection that is still open is back with the next
\* renewal that reaches Redis.
HealsByRenewal == \A c \in Conns : absent[c] <= (MaxLost + 1) * RenewEvery

\* A user whose last client is gone, without a word, in a crash, or with the
\* deletion of the key lost or overtaken by a renewal, is not shown online
\* longer than the read deadline and the life of one more key.
GhostFades == silent = Forgotten => presence = 0

\* The documentation of `online`: true if the partner has an active WebSocket
\* connection.  In particular, it is true as long as one is open.
OnlineWhileConnected == Served \cap ticking # {} => presence > 0
=============================================================================
