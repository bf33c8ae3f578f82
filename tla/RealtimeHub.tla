---------------------------- MODULE RealtimeHub ----------------------------
(***************************************************************************)
(* GET /users/me/videos/ws: a snapshot of the user's videos, then their    *)
(* status events as they happen.                                           *)
(*                                                                         *)
(*   publishers  commit a status change, then PUBLISH it (Redis pub/sub)   *)
(*   subscriber  one task per API process; for each message it runs        *)
(*               fanout_to_user: under the hub's mutex it queues the event *)
(*               for connections still bootstrapping and collects the live *)
(*               ones, sends to those without the mutex, and takes the     *)
(*               mutex again to drop the ones it could not send to         *)
(*   connection  register, load and send the snapshot, take what became    *)
(*               pending meanwhile, then forward from its bounded channel  *)
(*   client      reads what it is sent, or stops reading: no send has a    *)
(*               timeout, so the handler then waits inside the send        *)
(*                                                                         *)
(* An event is the number of the status change it announces, counted per   *)
(* user; the order of `log` is the order of fan-out, which need not be the *)
(* order of commits (publishers do not coordinate).                        *)
(***************************************************************************)
EXTENDS Naturals, Sequences, FiniteSets

CONSTANTS User,
          Conn,         \* connection ids, one per websocket ever opened
          Owner,        \* the user a connection belongs to
          NoUser,       \* fan-out target of an idle subscriber
          MaxPerUser,   \* VIDEO_WS_MAX_CONN_PER_USER
          MaxGlobal,    \* VIDEO_WS_MAX_CONN_GLOBAL
          SendBuffer,   \* VIDEO_WS_SEND_BUFFER
          MaxVersion    \* bound: status changes per user

\* mpsc::channel(0) panics, so a hub that runs has a buffer.
ASSUME HubAssumption ==
  /\ Owner \in [Conn -> User]
  /\ NoUser \notin User
  /\ MaxPerUser \in Nat /\ MaxGlobal \in Nat
  /\ SendBuffer \in Nat \ {0}
  /\ MaxVersion \in Nat

VARIABLES
  version,        \* committed status changes of the user's videos
  outbox,         \* changes whose PUBLISH is still to come
  channel,        \* messages on their way to the subscriber
  unheard,        \* history: changes whose message never reached the subscriber
  log,            \* history: the events given to fanout_to_user
  registered,     \* the connections with an entry in the hub
  bootstrapping,  \* those whose entry says bootstrapping
  pending,        \* entry.pending
  buffer,         \* the mpsc channel between entry.sender and rx
  fanUser,        \* user_id of the fan-out in progress
  fanEvent,       \* its payload
  targets,        \* send_targets not tried yet
  failed,         \* failed_ids
  phase,          \* where each connection's handler stands
  snapshot,       \* the version the snapshot shows, once it is loaded
  snapped,        \* history: connections whose client was sent a snapshot
  flush,          \* events the handler has taken and not yet sent
  got,            \* the events the client received, in order
  first,          \* history: length of the log at registration
  expired,        \* connections whose access token is past its exp
  stalled,        \* connections whose client takes in nothing: sends wait
  control         \* connections whose handler is sending a ping or a pong

dbVars == <<version, outbox>>
hubVars == <<registered, bootstrapping, pending>>
fanVars == <<fanUser, fanEvent, targets, failed>>
clientVars == <<expired, stalled, control>>
conVars == <<phase, snapshot, snapped, flush, got, first, clientVars>>
vars == <<dbVars, channel, unheard, log, hubVars, buffer, fanVars, conVars>>

Event == 1 .. MaxVersion
Of(u) == {c \in Conn : Owner[c] = u}
Phase == {"new", "upgrading", "loaded", "unloaded", "sent", "live", "closing",
          "closed", "abandoned"}

DataType ==
  /\ version \in [User -> 0 .. MaxVersion]
  /\ outbox \in [User -> SUBSET Event]
  /\ channel \in Seq(User \X Event)
  /\ unheard \in [User -> SUBSET Event]
  /\ log \in [User -> Seq(Event)]

HubType ==
  /\ registered \subseteq Conn
  /\ bootstrapping \subseteq registered
  /\ pending \in [Conn -> Seq(Event)]
  /\ buffer \in [Conn -> Seq(Event)]
  /\ \A c \in Conn : Len(pending[c]) <= SendBuffer /\ Len(buffer[c]) <= SendBuffer

FanType ==
  /\ fanUser \in User \cup {NoUser}
  /\ fanEvent \in 0 .. MaxVersion
  /\ targets \subseteq Conn /\ failed \subseteq Conn

ConnType ==
  /\ phase \in [Conn -> Phase]
  /\ snapshot \in [Conn -> 0 .. MaxVersion]
  /\ snapped \subseteq Conn
  /\ flush \in [Conn -> Seq(Event)]
  /\ got \in [Conn -> Seq(Event)]
  /\ first \in [Conn -> Nat]
  /\ expired \subseteq Conn /\ stalled \subseteq Conn /\ control \subseteq Conn

\* Every variable has its type, and only entries of the hub bootstrap.
TypeOK == DataType /\ HubType /\ FanType /\ ConnType

Init ==
  /\ version = [u \in User |-> 0]
  /\ outbox = [u \in User |-> {}]
  /\ channel = <<>>
  /\ unheard = [u \in User |-> {}]
  /\ log = [u \in User |-> <<>>]
  /\ registered = {} /\ bootstrapping = {}
  /\ pending = [c \in Conn |-> <<>>]
  /\ buffer = [c \in Conn |-> <<>>]
  /\ fanUser = NoUser /\ fanEvent = 0
  /\ targets = {} /\ failed = {}
  /\ phase = [c \in Conn |-> "new"]
  /\ snapshot = [c \in Conn |-> 0]
  /\ snapped = {}
  /\ flush = [c \in Conn |-> <<>>]
  /\ got = [c \in Conn |-> <<>>]
  /\ first = [c \in Conn |-> 0]
  /\ expired = {} /\ stalled = {} /\ control = {}

----------------------------------------------------------------------------
(* Publishers and the subscriber. *)

\* A status change of one of the user's videos is committed.
CommitStatus(u) ==
  /\ version[u] < MaxVersion
  /\ version' = [version EXCEPT ![u] = @ + 1]
  /\ outbox' = [outbox EXCEPT ![u] = @ \cup {version[u] + 1}]
  /\ UNCHANGED <<channel, unheard, log, hubVars, buffer, fanVars, conVars>>

\* publish_video_status_event.  Nobody hears it while the subscriber is not
\* subscribed, or when the call fails (the error is only logged).
PublishStatus(u, n) ==
  /\ n \in outbox[u]
  /\ outbox' = [outbox EXCEPT ![u] = @ \ {n}]
  /\ \/ channel' = Append(channel, <<u, n>>) /\ UNCHANGED unheard
     \/ unheard' = [unheard EXCEPT ![u] = @ \cup {n}] /\ UNCHANGED channel
  /\ UNCHANGED <<version, log, hubVars, buffer, fanVars, conVars>>

\* The pub/sub connection drops: what was under way is gone.
SubscriberDisconnects ==
  /\ fanUser = NoUser
  /\ channel # <<>>
  /\ unheard' = [u \in User |->
                   unheard[u] \cup {n \in Event :
                     \E i \in DOMAIN channel : channel[i] = <<u, n>>}]
  /\ channel' = <<>>
  /\ UNCHANGED <<dbVars, log, hubVars, buffer, fanVars, conVars>>

\* The entries of these connections leave the hub, pending events and all.
Evict(gone) ==
  /\ registered' = registered \ gone
  /\ bootstrapping' = bootstrapping \ gone

\* Mutant: the queue of a bootstrapping connection has no limit.
FanoutCollectUnbounded ==
  /\ fanUser = NoUser
  /\ channel # <<>>
  /\ LET u == Head(channel)[1]
         n == Head(channel)[2]
         mine == registered \cap Of(u)
     IN /\ pending' = [c \in Conn |-> IF c \in mine \cap bootstrapping
                                      THEN Append(pending[c], n) ELSE pending[c]]
        /\ targets' = mine \ bootstrapping
        /\ fanUser' = u /\ fanEvent' = n
        /\ log' = [log EXCEPT ![u] = Append(@, n)]
  /\ failed' = {}
  /\ channel' = Tail(channel)
  /\ UNCHANGED <<dbVars, unheard, registered, bootstrapping, buffer, conVars>>

\* fanout_to_user, first locked section: queue the event for bootstrapping
\* connections, evict those whose queue is full, collect the live ones.
FanoutCollect ==
  /\ fanUser = NoUser
  /\ channel # <<>>
  /\ LET u == Head(channel)[1]
         n == Head(channel)[2]
         mine == registered \cap Of(u)
         stale == {c \in mine \cap bootstrapping : Len(pending[c]) >= SendBuffer}
     IN /\ pending' = [c \in Conn |->
                         IF c \in stale THEN <<>>
                         ELSE IF c \in mine \cap bootstrapping THEN Append(pending[c], n)
                         ELSE pending[c]]
        /\ Evict(stale)
        /\ targets' = mine \ bootstrapping
        /\ fanUser' = u /\ fanEvent' = n
        /\ log' = [log EXCEPT ![u] = Append(@, n)]
  /\ failed' = {}
  /\ channel' = Tail(channel)
  /\ UNCHANGED <<dbVars, unheard, buffer, conVars>>

\* try_send, with the mutex released: fails when the buffer is full or the
\* handler is gone and its receiver with it.
FanoutSend(c) ==
  /\ c \in targets
  /\ targets' = targets \ {c}
  /\ IF Len(buffer[c]) < SendBuffer /\ phase[c] # "closed"
       THEN buffer' = [buffer EXCEPT ![c] = Append(@, fanEvent)] /\ UNCHANGED failed
       ELSE failed' = failed \cup {c} /\ UNCHANGED buffer
  /\ UNCHANGED <<dbVars, channel, unheard, log, hubVars, fanUser, fanEvent, conVars>>

\* Mutant: connections that could not be sent to stay registered.
FanoutFinishKeeping ==
  /\ fanUser # NoUser
  /\ targets = {}
  /\ fanUser' = NoUser
  /\ failed' = {}
  /\ UNCHANGED <<dbVars, channel, unheard, log, hubVars, buffer, fanEvent, targets,
                 conVars>>

\* The second locked section drops the connections that could not be sent to.
FanoutFinish ==
  /\ fanUser # NoUser
  /\ targets = {}
  /\ Evict(failed)
  /\ pending' = [c \in Conn |-> IF c \in failed THEN <<>> ELSE pending[c]]
  /\ fanUser' = NoUser
  /\ failed' = {}
  /\ UNCHANGED <<dbVars, channel, unheard, log, buffer, fanEvent, targets, conVars>>

----------------------------------------------------------------------------
(* A connection. *)

\* register_connection; at a limit the request is refused with 429.
Register(c) ==
  /\ phase[c] = "new"
  /\ Cardinality(registered) < MaxGlobal
  /\ Cardinality(registered \cap Of(Owner[c])) < MaxPerUser
  /\ registered' = registered \cup {c}
  /\ bootstrapping' = bootstrapping \cup {c}
  /\ first' = [first EXCEPT ![c] = Len(log[Owner[c]])]
  /\ phase' = [phase EXCEPT ![c] = "upgrading"]
  /\ UNCHANGED <<dbVars, channel, unheard, log, pending, buffer, fanVars, snapshot,
                 snapped, flush, got, clientVars>>

\* The protocol upgrade fails: on_upgrade never calls the handler, and the
\* entry stays in the hub with nobody behind it.
UpgradeFails(c) ==
  /\ phase[c] = "upgrading"
  /\ phase' = [phase EXCEPT ![c] = "abandoned"]
  /\ UNCHANGED <<dbVars, channel, unheard, log, hubVars, buffer, fanVars, snapshot,
                 snapped, flush, got, first, clientVars>>

\* load_user_videos_snapshot; when the query fails the handler goes on
\* without a snapshot.
LoadSnapshot(c) ==
  /\ phase[c] = "upgrading"
  /\ \/ /\ snapshot' = [snapshot EXCEPT ![c] = version[Owner[c]]]
        /\ phase' = [phase EXCEPT ![c] = "loaded"]
     \/ /\ phase' = [phase EXCEPT ![c] = "unloaded"]
        /\ UNCHANGED snapshot
  /\ UNCHANGED <<dbVars, channel, unheard, log, hubVars, buffer, fanVars, snapped, flush,
                 got, first, clientVars>>

\* The snapshot goes out once the client reads, or the socket is gone.
SendSnapshot(c) ==
  /\ phase[c] = "loaded"
  /\ \/ /\ c \notin stalled
        /\ phase' = [phase EXCEPT ![c] = "sent"] /\ snapped' = snapped \cup {c}
     \/ phase' = [phase EXCEPT ![c] = "closing"] /\ UNCHANGED snapped
  /\ UNCHANGED <<dbVars, channel, unheard, log, hubVars, buffer, fanVars, snapshot,
                 flush, got, first, clientVars>>

\* Mutant: bootstrapping ends before what became pending is taken over.
BootstrappedForgetting(c) ==
  /\ phase[c] \in {"sent", "unloaded"}
  /\ bootstrapping' = bootstrapping \ {c}
  /\ pending' = [pending EXCEPT ![c] = <<>>]
  /\ phase' = [phase EXCEPT ![c] = "live"]
  /\ UNCHANGED <<dbVars, channel, unheard, log, registered, buffer, fanVars, snapshot,
                 snapped, flush, got, first, clientVars>>

\* mark_bootstrapped_and_take_pending; an evicted entry has nothing to take.
Bootstrapped(c) ==
  /\ phase[c] \in {"sent", "unloaded"}
  /\ bootstrapping' = bootstrapping \ {c}
  /\ flush' = [flush EXCEPT ![c] = pending[c]]
  /\ pending' = [pending EXCEPT ![c] = <<>>]
  /\ phase' = [phase EXCEPT ![c] = "live"]
  /\ UNCHANGED <<dbVars, channel, unheard, log, registered, buffer, fanVars, snapshot,
                 snapped, got, first, clientVars>>

\* ws_sender.send of the pending events one by one, and of each event that
\* rx.recv() returned: it ends when the client reads, or with an error that
\* ends the handler.
SendEvent(c) ==
  /\ phase[c] = "live"
  /\ flush[c] # <<>>
  /\ flush' = [flush EXCEPT ![c] = Tail(@)]
  /\ \/ /\ c \notin stalled
        /\ got' = [got EXCEPT ![c] = Append(@, Head(flush[c]))] /\ UNCHANGED phase
     \/ phase' = [phase EXCEPT ![c] = "closing"] /\ UNCHANGED got
  /\ UNCHANGED <<dbVars, channel, unheard, log, hubVars, buffer, fanVars, snapshot,
                 snapped, first, clientVars>>

\* select! waits only while the handler is not inside a send.
InLoop(c) == phase[c] = "live" /\ flush[c] = <<>> /\ c \notin control

\* rx.recv() returns an event; its arm goes on to send it.
Receive(c) ==
  /\ InLoop(c)
  /\ buffer[c] # <<>>
  /\ buffer' = [buffer EXCEPT ![c] = Tail(@)]
  /\ flush' = [flush EXCEPT ![c] = <<Head(buffer[c])>>]
  /\ UNCHANGED <<dbVars, channel, unheard, log, hubVars, fanVars, phase, snapshot, snapped,
                 got, first, clientVars>>

\* Mutant: None is skipped like an empty poll.
ReceiveNoneIgnored(c) ==
  /\ InLoop(c)
  /\ buffer[c] = <<>>
  /\ c \notin registered /\ c \notin targets
  /\ UNCHANGED vars

\* rx.recv() returns None: the entry is gone and so is the clone of its sender.
ReceiveNone(c) ==
  /\ InLoop(c)
  /\ buffer[c] = <<>>
  /\ c \notin registered /\ c \notin targets
  /\ phase' = [phase EXCEPT ![c] = "closing"]
  /\ UNCHANGED <<dbVars, channel, unheard, log, hubVars, buffer, fanVars, snapshot,
                 snapped, flush, got, first, clientVars>>

\* The client closes or its socket fails, its pongs stop, or its token is revoked.
HangUp(c) ==
  /\ InLoop(c)
  /\ phase' = [phase EXCEPT ![c] = "closing"]
  /\ UNCHANGED <<dbVars, channel, unheard, log, hubVars, buffer, fanVars, snapshot,
                 snapped, flush, got, first, clientVars>>

\* A heartbeat tick finds the token expired.
HeartbeatExpired(c) ==
  /\ InLoop(c)
  /\ c \in expired
  /\ phase' = [phase EXCEPT ![c] = "closing"]
  /\ UNCHANGED <<dbVars, channel, unheard, log, hubVars, buffer, fanVars, snapshot,
                 snapped, flush, got, first, clientVars>>

\* A heartbeat tick, or a ping of the client, begins a send of a ping or pong.
BeginControl(c) ==
  /\ InLoop(c)
  /\ control' = control \cup {c}
  /\ UNCHANGED <<dbVars, channel, unheard, log, hubVars, buffer, fanVars, phase, snapshot,
                 snapped, flush, got, first, expired, stalled>>

\* It ends like the other sends.
SendControl(c) ==
  /\ c \in control
  /\ control' = control \ {c}
  /\ \/ c \notin stalled /\ UNCHANGED phase
     \/ phase' = [phase EXCEPT ![c] = "closing"]
  /\ UNCHANGED <<dbVars, channel, unheard, log, hubVars, buffer, fanVars, snapshot,
                 snapped, flush, got, first, expired, stalled>>

\* remove_connection, on every way out of the handler; its locals and its
\* socket are dropped with it.
RemoveConnection(c) ==
  /\ phase[c] = "closing"
  /\ Evict({c})
  /\ pending' = [pending EXCEPT ![c] = <<>>]
  /\ buffer' = [buffer EXCEPT ![c] = <<>>]
  /\ flush' = [flush EXCEPT ![c] = <<>>]
  /\ expired' = expired \ {c} /\ stalled' = stalled \ {c}
  /\ phase' = [phase EXCEPT ![c] = "closed"]
  /\ UNCHANGED <<dbVars, channel, unheard, log, fanVars, snapshot, snapped, got, first,
                 control>>

HasSocket(c) == phase[c] \notin {"new", "closed", "abandoned"}

\* The exp of the access token that opened the connection passes.
TokenExpires(c) ==
  /\ HasSocket(c) /\ c \notin expired
  /\ expired' = expired \cup {c}
  /\ UNCHANGED <<dbVars, channel, unheard, log, hubVars, buffer, fanVars, phase,
                 snapshot, snapped, flush, got, first, stalled, control>>

\* The client stops taking in what it is sent, and the buffers between fill; or
\* it reads again.
StopReading(c) ==
  /\ HasSocket(c) /\ c \notin stalled
  /\ stalled' = stalled \cup {c}
  /\ UNCHANGED <<dbVars, channel, unheard, log, hubVars, buffer, fanVars, phase,
                 snapshot, snapped, flush, got, first, expired, control>>

ReadAgain(c) ==
  /\ HasSocket(c) /\ c \in stalled
  /\ stalled' = stalled \ {c}
  /\ UNCHANGED <<dbVars, channel, unheard, log, hubVars, buffer, fanVars, phase,
                 snapshot, snapped, flush, got, first, expired, control>>

----------------------------------------------------------------------------
SubscriberStep == FanoutCollect \/ (\E c \in Conn : FanoutSend(c)) \/ FanoutFinish

\* The handler's own work, the sends it waits for, and the arms of its select!.
Work(c) == LoadSnapshot(c) \/ Bootstrapped(c) \/ RemoveConnection(c)
Send(c) == SendSnapshot(c) \/ SendEvent(c) \/ SendControl(c)
RecvArm(c) == Receive(c) \/ ReceiveNone(c)
HandlerStep(c) ==
  Work(c) \/ Send(c) \/ RecvArm(c) \/ HangUp(c) \/ HeartbeatExpired(c) \/ BeginControl(c)

Next ==
  \/ \E u \in User : CommitStatus(u) \/ \E n \in Event : PublishStatus(u, n)
  \/ SubscriberDisconnects \/ SubscriberStep
  \/ \E c \in Conn :
       \/ Register(c) \/ UpgradeFails(c) \/ HandlerStep(c)
       \/ TokenExpires(c) \/ StopReading(c) \/ ReadAgain(c)

Spec == Init /\ [][Next]_vars

\* The runtime polls every task that is ready, the subscriber's and each
\* handler's.  select! picks among ready arms at random and a tick that was not
\* taken stays ready, so an arm that is ready again and again gets its turn.  A
\* send makes progress each time the client reads, and owes nothing otherwise:
\* no timeout bounds it.
Fairness ==
  /\ WF_vars(SubscriberStep)
  /\ \A c \in Conn :
       /\ WF_vars(Work(c))
       /\ SF_vars(c \notin stalled /\ Send(c))
       /\ SF_vars(RecvArm(c)) /\ SF_vars(HeartbeatExpired(c))

FairSpec == Spec /\ Fairness
----------------------------------------------------------------------------
(* Properties. *)

\* What the hub has for a connection and what it has already handed over, in
\* the order in which the client gets it.
Stream(c) == got[c] \o flush[c] \o pending[c] \o buffer[c]

\* A client receives a gap-free run of what was fanned out since it
\* registered, in that order and each event once: being too slow costs it the
\* rest of the stream and the connection, never an event in the middle.
GapFreeInOrder ==
  \A c \in Conn : phase[c] # "new" =>
    /\ Len(got[c]) <= Len(log[Owner[c]]) - first[c]
    /\ \A i \in DOMAIN got[c] : got[c][i] = log[Owner[c]][first[c] + i]

\* Nothing falls between the snapshot and the live events: while a connection
\* that got its snapshot is in the hub, every committed change is in the
\* snapshot, in the connection's stream, or has not got past Redis.
SnapshotPlusEvents ==
  \A c \in registered :
    phase[c] \in {"sent", "live"} /\ c \in snapped =>
      \A n \in 1 .. version[Owner[c]] :
        \/ n <= snapshot[c]
        \/ n \in outbox[Owner[c]] \cup unheard[Owner[c]]
        \/ \E i \in DOMAIN channel : channel[i] = <<Owner[c], n>>
        \/ \E i \in DOMAIN Stream(c) : Stream(c)[i] = n
        \/ n = fanEvent /\ c \in targets \cup failed

\* The handler is inside a send and the client takes in nothing.
Stuck(c) ==
  c \in stalled /\ (phase[c] = "loaded" \/ flush[c] # <<>> \/ c \in control)

\* A live connection that the hub dropped as too slow, or whose access token
\* has expired, is closed, unless its handler is stuck for good in a send: its
\* client reconnects and gets a fresh snapshot, or has to log in.  It is enough
\* that the client reads now and then, or that no send is under way.
DoomedIsClosed ==
  \A c \in Conn :
    ([]<>~Stuck(c)) =>
      (phase[c] = "live" /\ (c \notin registered \/ c \in expired) ~> phase[c] = "closed")
=============================================================================
