------------------------------- MODULE Sockets -------------------------------
(***************************************************************************)
(* The WebSocket side of the servers: the upgrade handler and heartbeat of *)
(* server.ts and the gateway, one Redis between the processes.  A process  *)
(* has two Redis connections: commands on redisSub are applied in order,   *)
(* publishes on redisPub in order, the two without order between them.     *)
(* Presence holds exactly the registered sockets of a case (every one is   *)
(* authenticated) and is not kept apart from them.                         *)
(***************************************************************************)
EXTENDS Integers, Sequences, FiniteSets

CONSTANTS
  Instance,               \* server processes
  Case,
  Socket,                 \* connections that may be open at once
  Broadcast,              \* messages published once each
  GLOBAL_CONNECTION_CAP,
  MaxClosed,              \* bound on how far the connection counter may fall
  MaxCommands             \* bound on the commands waiting on redisSub

ASSUME CapAssumption == GLOBAL_CONNECTION_CAP \in Nat \ {0}
ASSUME SocketAssumption == IsFiniteSet(Socket)
ASSUME MaxClosedAssumption == MaxClosed \in Nat

VARIABLES
  socket,             \* each connection: its process, case and what became of it
  activeConnections,  \* the counter of each process
  subscribedCases,    \* the flags of each process
  subQueue,           \* commands on redisSub that Redis has yet to apply
  channels,           \* Redis: the processes subscribed to each case
  published,          \* envelopes on redisPub that Redis has yet to pass on
  inbox,              \* envelopes on their way from Redis to each process
  received            \* how often each connection was sent each broadcast

socketVars == <<socket, activeConnections, subscribedCases, subQueue, channels,
                published, inbox, received>>
redisVars == <<subscribedCases, subQueue, channels, published, inbox>>

NoSocket == [state |-> "none", peer |-> "here", isAlive |-> "undefined"]

SocketInit ==
  /\ socket = [s \in Socket |-> NoSocket]
  /\ activeConnections = [i \in Instance |-> 0]
  /\ subscribedCases = [i \in Instance |-> {}]
  /\ subQueue = [i \in Instance |-> <<>>]
  /\ channels = [c \in Case |-> {}]
  /\ published = {}
  /\ inbox = {}
  /\ received = [s \in Socket |-> <<>>]

Registered(i, c) ==
  { s \in Socket : socket[s].state \in {"open", "closing"} /\ socket[s].at = i /\ socket[s].case = c }
Open(i, c) == { s \in Registered(i, c) : socket[s].state = "open" }

TimesSent(s, b) == IF b \in DOMAIN received[s] THEN received[s][b] ELSE 0

Send(sockets, b) ==
  received' = [s \in Socket |->
    IF s \in sockets THEN [x \in DOMAIN received[s] \cup {b} |-> IF x = b THEN TimesSent(s, b) + 1 ELSE received[s][x]]
    ELSE received[s]]

\* server.on("upgrade"): the cap comes first; the rate limit, the origin, the URL, the
\* cookie and the case of the tenant are awaited and may refuse.
StartUpgrade(s, i, c) ==
  /\ socket[s].state = "none"
  /\ activeConnections[i] < GLOBAL_CONNECTION_CAP
  /\ socket' = [socket EXCEPT ![s] = [state |-> "upgrading", peer |-> "here",
                                      isAlive |-> "undefined", at |-> i, case |-> c]]
  /\ received' = [received EXCEPT ![s] = <<>>]
  /\ UNCHANGED <<activeConnections, redisVars>>

RefuseUpgrade(s) ==
  /\ socket[s].state = "upgrading"
  /\ socket' = [socket EXCEPT ![s] = NoSocket]
  /\ UNCHANGED <<activeConnections, received, redisVars>>

\* handleUpgrade() calls back without emitting "connection": its handler, which would count
\* the connection and listen to pongs, never runs.
OnUpgrade(i) == UNCHANGED activeConnections

\* registerSocket(): joins the sockets of the case and subscribes unless the flag is set.
RegisterSocket(s) ==
  /\ socket[s].state = "upgrading"
  /\ Len(subQueue[socket[s].at]) < MaxCommands
  /\ LET i == socket[s].at
         c == socket[s].case
     IN  /\ socket' = [socket EXCEPT ![s].state = "open"]
         /\ OnUpgrade(i)
         /\ \/ /\ c \in subscribedCases[i]
               /\ UNCHANGED <<subscribedCases, subQueue>>
            \/ /\ c \notin subscribedCases[i]
               /\ subscribedCases' = [subscribedCases EXCEPT ![i] = @ \cup {c}]
               /\ subQueue' = [subQueue EXCEPT ![i] = Append(@, <<"subscribe", c>>)]
  /\ UNCHANGED <<channels, published, inbox, received>>

\* The client goes away; a close frame or the end of the stream may or may not reach us.
PeerLeaves(s) ==
  /\ socket[s].state = "open" /\ socket[s].peer = "here"
  /\ \/ socket' = [socket EXCEPT ![s].peer = "gone"]
     \/ socket' = [socket EXCEPT ![s].peer = "gone", ![s].state = "closing"]
  /\ UNCHANGED <<activeConnections, received, redisVars>>

\* The counter less n, down to the bound.
Less(count, n) == IF count - n < 0 - MaxClosed THEN 0 - MaxClosed ELSE count - n

\* Variant: the interval pings and forgets to mark.
Unmarked(s) == socket[s]

Marked(s) == [socket[s] EXCEPT !.isAlive = "false"]

\* The interval: a socket still marked not alive is terminated and counted off, any other is
\* marked and pinged; the pong that answers has no listener.  A closing socket is
\* out of wss.clients well before the next tick.  With no socket open a tick changes nothing.
Heartbeat(i) ==
  LET clients == { s \in Socket : socket[s].state = "open" /\ socket[s].at = i }
      dead == { s \in clients : socket[s].isAlive = "false" }
  IN  /\ clients # {}
      /\ activeConnections' = [activeConnections EXCEPT ![i] = Less(@, Cardinality(dead))]
      /\ socket' = [s \in Socket |->
           IF s \in dead THEN [socket[s] EXCEPT !.state = "closing"]
           ELSE IF s \in clients THEN Marked(s)
           ELSE socket[s]]
      /\ UNCHANGED <<received, redisVars>>

\* Variant: the flag of the case is not cleared.
LeaveCaseFlagKept(i, c) ==
  /\ subQueue' = [subQueue EXCEPT ![i] = Append(@, <<"unsubscribe", c>>)]
  /\ UNCHANGED subscribedCases

\* The last socket of a case has left: unsubscribe and clear the flag.
LeaveCase(i, c) ==
  /\ subQueue' = [subQueue EXCEPT ![i] = Append(@, <<"unsubscribe", c>>)]
  /\ subscribedCases' = [subscribedCases EXCEPT ![i] = @ \ {c}]

\* socket.on("close").
CloseSocket(s) ==
  /\ socket[s].state = "closing"
  /\ socket' = [socket EXCEPT ![s] = NoSocket]
  /\ IF Registered(socket[s].at, socket[s].case) = {s}
       THEN LeaveCase(socket[s].at, socket[s].case)
       ELSE UNCHANGED <<subscribedCases, subQueue>>
  /\ UNCHANGED <<activeConnections, received, channels, published, inbox>>

\* publish(): an envelope to Redis, and at once to the open sockets of this process.
Publish(i, c, b) ==
  /\ \A s \in Socket : b \notin DOMAIN received[s]
  /\ \A e \in published \cup inbox : e.payload # b
  /\ published' = published \cup {[instanceId |-> i, caseId |-> c, payload |-> b]}
  /\ Send(Open(i, c), b)
  /\ UNCHANGED <<socket, activeConnections, subscribedCases, subQueue, channels, inbox>>

\* A process ends: its connections and its memory are gone, Redis drops its subscriptions.
InstanceCrash(i) ==
  LET lost == { s \in Socket : socket[s].state # "none" /\ socket[s].at = i }
  IN  /\ lost # {}
      /\ socket' = [s \in Socket |-> IF s \in lost THEN NoSocket ELSE socket[s]]
      /\ activeConnections' = [activeConnections EXCEPT ![i] = 0]
      /\ subscribedCases' = [subscribedCases EXCEPT ![i] = {}]
      /\ subQueue' = [subQueue EXCEPT ![i] = <<>>]
      /\ channels' = [c \in Case |-> channels[c] \ {i}]
      /\ inbox' = { e \in inbox : e.to # i }
      /\ UNCHANGED <<published, received>>

\* Redis applies the next command of a process.
RedisSubscription(i) ==
  /\ subQueue[i] # <<>>
  /\ LET c == Head(subQueue[i])[2]
     IN  channels' = [channels EXCEPT ![c] =
           IF Head(subQueue[i])[1] = "subscribe" THEN @ \cup {i} ELSE @ \ {i}]
  /\ subQueue' = [subQueue EXCEPT ![i] = Tail(@)]
  /\ UNCHANGED <<socket, activeConnections, subscribedCases, published, inbox, received>>

\* Redis passes an envelope on to the processes subscribed at that moment.
RedisPublish(e) ==
  /\ published' = published \ {e}
  /\ inbox' = inbox \cup { [instanceId |-> e.instanceId, caseId |-> e.caseId, payload |-> e.payload, to |-> i] :
                           i \in channels[e.caseId] }
  /\ UNCHANGED <<socket, activeConnections, subscribedCases, subQueue, channels, received>>

\* Variant: a process listens to its own envelopes.
Recipients(e) == Open(e.to, e.caseId)

\* A process ignores its own envelopes: it has sent them to its sockets already.
Audience(e) == IF e.instanceId = e.to THEN {} ELSE Open(e.to, e.caseId)

\* redisSub.on("message").
ReceiveEnvelope(e) ==
  /\ inbox' = inbox \ {e}
  /\ Send(Audience(e), e.payload)
  /\ UNCHANGED <<socket, activeConnections, subscribedCases, subQueue, channels, published>>

SocketNext ==
  \/ \E s \in Socket :
       \/ \E i \in Instance, c \in Case : StartUpgrade(s, i, c)
       \/ RefuseUpgrade(s) \/ RegisterSocket(s) \/ PeerLeaves(s) \/ CloseSocket(s)
  \/ \E i \in Instance :
       \/ Heartbeat(i) \/ RedisSubscription(i) \/ InstanceCrash(i)
       \/ \E c \in Case, b \in Broadcast : Publish(i, c, b)
  \/ \E e \in published : RedisPublish(e)
  \/ \E e \in inbox : ReceiveEnvelope(e)

\* The interval ticks for ever; Node delivers "close" after a terminate.
SocketFairness ==
  /\ \A i \in Instance : WF_socketVars(Heartbeat(i))
  /\ \A s \in Socket : WF_socketVars(CloseSocket(s))

SocketSpec == SocketInit /\ [][SocketNext]_socketVars /\ SocketFairness
-----------------------------------------------------------------------------
SocketRow == [state: {"upgrading", "open", "closing"}, peer: {"here", "gone"},
              isAlive: {"undefined", "false"}, at: Instance, case: Case]

Command == {"subscribe", "unsubscribe"} \X Case

SocketTypeOK ==
  /\ socket \in [Socket -> SocketRow \cup {NoSocket}]
  /\ activeConnections \in [Instance -> Int]
  /\ subscribedCases \in [Instance -> SUBSET Case]
  /\ subQueue \in [Instance -> Seq(Command)]
  /\ channels \in [Case -> SUBSET Instance]
  /\ published \subseteq [instanceId: Instance, caseId: Case, payload: Broadcast]
  /\ inbox \subseteq [instanceId: Instance, caseId: Case, payload: Broadcast, to: Instance]
  /\ DOMAIN received = Socket
  /\ \A s \in Socket : DOMAIN received[s] \subseteq Broadcast

(***************************************************************************)
(* ensureRedisSubscription and the close handler together: when Redis has  *)
(* applied what a process asked for, the process is subscribed to exactly  *)
(* the cases its sockets are in, in whatever order sockets came and went.  *)
(***************************************************************************)
SubscriptionFollowsSockets ==
  \A i \in Instance, c \in Case :
    subQueue[i] = <<>> => (i \in channels[c] <=> Registered(i, c) # {})

(***************************************************************************)
(* The local send and the way over Redis together: no connection is sent a *)
(* broadcast twice, whichever process published it.                        *)
(***************************************************************************)
DeliveredAtMostOnce ==
  \A s \in Socket : \A b \in DOMAIN received[s] : received[s][b] = 1

(***************************************************************************)
(* "Heartbeat": a socket whose peer is gone without a word does not stay   *)
(* registered for ever.                                                    *)
(***************************************************************************)
DeadSocketIsClosed ==
  \A s \in Socket : (socket[s].state = "open" /\ socket[s].peer = "gone") ~> (socket[s].state = "none")
=============================================================================
