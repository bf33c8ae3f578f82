------------------------- MODULE RealtimeHubProofs -------------------------
(***************************************************************************)
(* Proofs about RealtimeHub, for any users, connections, limits and        *)
(* buffer.                                                                 *)
(*                                                                         *)
(* Neither property is inductive alone.  What the client received is only  *)
(* the front of a connection's stream: the whole stream is a run of the    *)
(* log (StreamInv), and as long as the connection is in the hub the run    *)
(* reaches the end of the log, or lacks only the event of the fan-out in   *)
(* progress.  That takes knowing where the events of a connection can be   *)
(* at each stage of its handler (PlaceInv).  The snapshot's property must  *)
(* hold from the moment the snapshot is loaded, before it is sent          *)
(* (SnapshotInv).                                                          *)
(***************************************************************************)
EXTENDS RealtimeHub, SequenceTheorems, TLAPS

Early == {"new", "upgrading", "loaded", "unloaded", "sent", "abandoned"}

\* The connections the fan-out in progress has still to send to, or could not.
Waiting == targets \cup failed

\* s is a run of the log l that begins behind its first f events.
Run(s, l, f) == Len(s) <= Len(l) - f /\ \A i \in 1 .. Len(s) : s[i] = l[f + i]

\* While an event is fanned out it is the last one of the log.
FanInv ==
  fanUser # NoUser =>
    log[fanUser] # <<>> /\ fanEvent = log[fanUser][Len(log[fanUser])]

\* Where the events of a connection can be: until it goes live they are pending
\* and it is no target of a fan-out, afterwards nothing is pending.
PlaceInv(c) ==
  /\ c \in Waiting => Owner[c] = fanUser
  /\ c \in targets => c \notin failed
  /\ phase[c] = "new" => c \notin registered
  /\ phase[c] \in Early =>
       /\ got[c] = <<>> /\ flush[c] = <<>> /\ buffer[c] = <<>>
       /\ c \notin Waiting
       /\ c \in registered => c \in bootstrapping
  /\ phase[c] = "live" => c \notin bootstrapping /\ (c \in Waiting => c \in registered)
  /\ c \notin bootstrapping => pending[c] = <<>>
  /\ phase[c] \in Early \ {"sent"} => c \notin snapped

\* The stream of a connection that is not closing is a run of the log, which
\* misses at most the event being fanned out while the connection is in the hub.
StreamInv(c) ==
  /\ first[c] <= Len(log[Owner[c]])
  /\ Run(got[c], log[Owner[c]], first[c])
  /\ phase[c] \in Early \cup {"live"} =>
       Run(Stream(c), log[Owner[c]], first[c])
  /\ phase[c] \in Early \cup {"live"} /\ c \in registered =>
       Len(Stream(c)) = Len(log[Owner[c]]) - first[c] - (IF c \in Waiting THEN 1 ELSE 0)

\* Change n of the user is in the connection's snapshot, in its stream, on its
\* way to the hub, or lost before the hub.
Accounted(c, n) ==
  \/ n <= snapshot[c]
  \/ n \in outbox[Owner[c]] \cup unheard[Owner[c]]
  \/ \E i \in DOMAIN channel : channel[i] = <<Owner[c], n>>
  \/ \E i \in DOMAIN Stream(c) : Stream(c)[i] = n
  \/ n = fanEvent /\ c \in Waiting

\* The connection is in the hub and its snapshot is loaded, or sent.
Showing(c) ==
  /\ c \in registered
  /\ phase[c] = "loaded" \/ (phase[c] \in {"sent", "live"} /\ c \in snapped)

\* From the load of the snapshot on, every change is accounted for.
SnapshotInv(c) ==
  Showing(c) => \A n \in 1 .. version[Owner[c]] : Accounted(c, n)

Inv ==
  /\ TypeOK /\ FanInv
  /\ \A c \in Conn : PlaceInv(c) /\ StreamInv(c) /\ SnapshotInv(c)

-----------------------------------------------------------------------------
(* Sequences and runs. *)

\* Taking the head of b over to the end of a leaves their concatenation alone.
LEMMA HeadMoves ==
  ASSUME NEW S, NEW a \in Seq(S), NEW b \in Seq(S), b # <<>>
  PROVE  Append(a, Head(b)) \o Tail(b) = a \o b
<1>1. Head(b) \in S /\ Tail(b) \in Seq(S) /\ b = <<Head(b)>> \o Tail(b)
  BY HeadTailProperties
<1>2. Append(a, Head(b)) = a \o <<Head(b)>> /\ <<Head(b)>> \in Seq(S)
  BY <1>1, AppendIsConcat
<1> QED
  BY <1>1, <1>2, ConcatAssociative, ConcatProperties

LEMMA HeadMovesType ==
  ASSUME NEW S, NEW a \in Seq(S), NEW b \in Seq(S), b # <<>>
  PROVE  Append(a, Head(b)) \in Seq(S) /\ Tail(b) \in Seq(S)
BY HeadTailProperties, AppendProperties

\* Appending to the second of two sequences appends to both.
LEMMA AppendMoves ==
  ASSUME NEW S, NEW a \in Seq(S), NEW b \in Seq(S), NEW e \in S
  PROVE  a \o Append(b, e) = Append(a \o b, e)
<1>1. /\ <<e>> \in Seq(S) /\ a \o b \in Seq(S)
      /\ Append(b, e) = b \o <<e>>
      /\ Append(a \o b, e) = (a \o b) \o <<e>>
  BY AppendIsConcat, ConcatProperties
<1> QED
  BY <1>1, ConcatAssociative

\* A run stays one when the log grows, and grows with the log if it reached its
\* end; the front of a run is a run.
LEMMA RunFacts ==
  ASSUME NEW S, NEW s \in Seq(S), NEW l \in Seq(S), NEW f \in Nat, NEW e \in S, f <= Len(l)
  PROVE  /\ Run(<<>>, l, f)
         /\ Run(s, l, f) => Run(s, Append(l, e), f)
         /\ Run(s, l, f) /\ Len(s) = Len(l) - f => Run(Append(s, e), Append(l, e), f)
         /\ Run(s, l, f) /\ Len(s) = Len(l) - f - 1 /\ l # <<>> /\ e = l[Len(l)] =>
              Run(Append(s, e), l, f)
<1>1. /\ Len(s) \in Nat /\ Len(l) \in Nat
      /\ Len(Append(s, e)) = Len(s) + 1 /\ Len(Append(l, e)) = Len(l) + 1
      /\ Append(s, e)[Len(s) + 1] = e /\ Append(l, e)[Len(l) + 1] = e
      /\ \A i \in 1 .. Len(s) : Append(s, e)[i] = s[i]
      /\ \A i \in 1 .. Len(l) : Append(l, e)[i] = l[i]
  BY AppendProperties
<1>2. Run(<<>>, l, f)
  BY <1>1, EmptySeq DEF Run
<1>3. Run(s, l, f) => Run(s, Append(l, e), f)
  <2>1. ASSUME Run(s, l, f), NEW i \in 1 .. Len(s)
        PROVE  s[i] = Append(l, e)[f + i]
    <3>1. s[i] = l[f + i] /\ f + i \in 1 .. Len(l)
      BY <1>1, <2>1 DEF Run
    <3> QED
      BY <1>1, <3>1
  <2>2. Run(s, l, f) => Len(s) <= Len(Append(l, e)) - f
    BY <1>1 DEF Run
  <2> QED
    BY <2>1, <2>2 DEF Run
<1>4. ASSUME Run(s, l, f), Len(s) = Len(l) - f
      PROVE  Run(Append(s, e), Append(l, e), f)
  <2>1. Len(Append(s, e)) <= Len(Append(l, e)) - f
    BY <1>1, <1>4
  <2>2. ASSUME NEW i \in 1 .. Len(s) + 1
        PROVE  Append(s, e)[i] = Append(l, e)[f + i]
    <3>1. CASE i = Len(s) + 1
      <4>1. f + i = Len(l) + 1
        BY <1>1, <1>4, <3>1
      <4> QED
        BY <1>1, <3>1, <4>1
    <3>2. CASE i # Len(s) + 1
      <4> /\ Len(s) \in Nat /\ Len(l) \in Nat
        BY <1>1
      <4>1. i \in 1 .. Len(s) /\ f + i \in 1 .. Len(l)
        BY <1>4, <3>2
      <4>2. Append(s, e)[i] = s[i] /\ s[i] = l[f + i] /\ Append(l, e)[f + i] = l[f + i]
        BY <1>1, <1>4, <4>1 DEF Run
      <4> QED
        BY <4>2
    <3> QED
      BY <3>1, <3>2
  <2> QED
    BY <1>1, <2>1, <2>2 DEF Run
<1>5. ASSUME Run(s, l, f), Len(s) = Len(l) - f - 1, e = l[Len(l)]
      PROVE  Run(Append(s, e), l, f)
  <2>1. Len(Append(s, e)) <= Len(l) - f
    BY <1>1, <1>5
  <2>2. ASSUME NEW i \in 1 .. Len(s) + 1
        PROVE  Append(s, e)[i] = l[f + i]
    <3>1. CASE i = Len(s) + 1
      <4>1. f + i = Len(l)
        BY <1>1, <1>5, <3>1
      <4> QED
        BY <1>1, <1>5, <3>1, <4>1
    <3>2. CASE i # Len(s) + 1
      <4> Len(s) \in Nat
        BY <1>1
      <4>1. i \in 1 .. Len(s)
        BY <3>2
      <4>2. Append(s, e)[i] = s[i] /\ s[i] = l[f + i]
        BY <1>1, <1>5, <4>1 DEF Run
      <4> QED
        BY <4>2
    <3> QED
      BY <3>1, <3>2
  <2> QED
    BY <1>1, <2>1, <2>2 DEF Run
<1> QED
  BY <1>2, <1>3, <1>4, <1>5

LEMMA RunFront ==
  ASSUME NEW S, NEW s \in Seq(S), NEW t \in Seq(S), NEW l \in Seq(S), NEW f \in Nat,
         Run(s \o t, l, f)
  PROVE  Run(s, l, f)
<1>1. Len(s) \in Nat /\ Len(t) \in Nat /\ Len(l) \in Nat /\ Len(s \o t) = Len(s) + Len(t)
  BY ConcatProperties
<1>2. \A i \in 1 .. Len(s) : (s \o t)[i] = s[i] /\ i \in 1 .. Len(s \o t)
  BY <1>1, ConcatProperties
<1> QED
  BY <1>1, <1>2 DEF Run

-----------------------------------------------------------------------------
(* Types. *)

\* The message at the head of the channel.
LEMMA HeadFacts ==
  ASSUME DataType, channel # <<>>
  PROVE  /\ Head(channel)[1] \in User /\ Head(channel)[2] \in Event
         /\ Head(channel) = <<Head(channel)[1], Head(channel)[2]>>
         /\ Tail(channel) \in Seq(User \X Event)
<1>1. Head(channel) \in User \X Event /\ Tail(channel) \in Seq(User \X Event)
  BY HeadTailProperties DEF DataType
<1> QED
  BY <1>1

\* The event of a fan-out in progress is an event.
LEMMA FanEventFacts ==
  ASSUME TypeOK, FanInv, NEW c \in Conn, PlaceInv(c), c \in Waiting
  PROVE  fanUser \in User /\ fanUser = Owner[c] /\ fanEvent \in Event
<1>1. fanUser \in User /\ fanUser = Owner[c] /\ fanUser # NoUser
  BY HubAssumption DEF PlaceInv
<1>2. log[fanUser] \in Seq(Event) /\ log[fanUser] # <<>>
  BY <1>1 DEF FanInv, TypeOK, DataType
<1>3. Len(log[fanUser]) \in 1 .. Len(log[fanUser])
  BY <1>2, EmptySeq
<1>4. log[fanUser][Len(log[fanUser])] \in Event
  BY <1>2, <1>3, ElementOfSeq
<1> QED
  BY <1>1, <1>4 DEF FanInv

LEMMA DataNext == ASSUME TypeOK, [Next]_vars PROVE DataType'
<1> USE HubAssumption DEF TypeOK, DataType
<1>1. CASE UNCHANGED <<dbVars, channel, unheard, log>>
  BY <1>1 DEF dbVars
<1>2. ASSUME NEW u \in User, CommitStatus(u) PROVE DataType'
  BY <1>2 DEF CommitStatus, Event
<1>3. ASSUME NEW u \in User, NEW n \in Event, PublishStatus(u, n) PROVE DataType'
  <2>1. <<u, n>> \in User \X Event
    BY <1>3
  <2>2. Append(channel, <<u, n>>) \in Seq(User \X Event)
    BY <2>1, AppendProperties
  <2>3. channel' \in Seq(User \X Event)
    BY <1>3, <2>2 DEF PublishStatus
  <2>4. outbox' \in [User -> SUBSET Event] /\ version' = version /\ log' = log
    BY <1>3 DEF PublishStatus
  <2>5. unheard' \in [User -> SUBSET Event]
    <3>1. unheard' = unheard \/ unheard' = [unheard EXCEPT ![u] = @ \cup {n}]
      BY <1>3 DEF PublishStatus
    <3>2. unheard[u] \cup {n} \in SUBSET Event
      BY <1>3
    <3>3. CASE unheard' = [unheard EXCEPT ![u] = @ \cup {n}]
      BY <3>2, <3>3
    <3> QED
      BY <3>1, <3>3
  <2> QED
    BY <2>3, <2>4, <2>5
<1>4. CASE SubscriberDisconnects
  BY <1>4, EmptySeq DEF SubscriberDisconnects, dbVars
<1>5. CASE FanoutCollect
  BY <1>5, HeadFacts DEF FanoutCollect, dbVars
<1>6. ASSUME [Next]_vars, ~ \E u \in User : CommitStatus(u) \/ \E n \in Event : PublishStatus(u, n),
             ~SubscriberDisconnects, ~FanoutCollect
      PROVE  UNCHANGED <<dbVars, channel, unheard, log>>
  BY <1>6 DEF Next, SubscriberStep, HandlerStep, Work, Send, RecvArm, FanoutSend, FanoutFinish, Register, UpgradeFails,
     LoadSnapshot, SendSnapshot, Bootstrapped, SendEvent, Receive, ReceiveNone, HangUp,
     HeartbeatExpired, RemoveConnection, BeginControl, SendControl, TokenExpires, StopReading, ReadAgain, vars
<1> QED
  BY <1>1, <1>2, <1>3, <1>4, <1>5, <1>6

LEMMA HubNext ==
  ASSUME TypeOK, FanInv, \A c \in Conn : PlaceInv(c), [Next]_vars
  PROVE  HubType'
<1> USE HubAssumption DEF TypeOK, HubType
<1>1. <<>> \in Seq(Event) /\ Len(<<>>) <= SendBuffer
  BY EmptySeq
<1>2. CASE UNCHANGED <<hubVars, buffer>>
  BY <1>2 DEF hubVars
<1>3. CASE FanoutCollect
  <2> DEFINE u == Head(channel)[1]
             n == Head(channel)[2]
             mine == registered \cap Of(u)
             stale == {c \in mine \cap bootstrapping : Len(pending[c]) >= SendBuffer}
  <2>1. u \in User /\ n \in Event
    BY <1>3, HeadFacts DEF FanoutCollect
  <2>2. /\ DOMAIN pending' = Conn
        /\ \A c \in Conn : pending'[c] = IF c \in stale THEN <<>>
                             ELSE IF c \in mine \cap bootstrapping THEN Append(pending[c], n)
                             ELSE pending[c]
        /\ pending' = [c \in Conn |-> pending'[c]]
    BY <1>3 DEF FanoutCollect
  <2>3. \A c \in Conn : pending'[c] \in Seq(Event) /\ Len(pending'[c]) <= SendBuffer
    <3> SUFFICES ASSUME NEW c \in Conn
                 PROVE  pending'[c] \in Seq(Event) /\ Len(pending'[c]) <= SendBuffer
      OBVIOUS
    <3>1. /\ Append(pending[c], n) \in Seq(Event)
          /\ Len(Append(pending[c], n)) = Len(pending[c]) + 1 /\ Len(pending[c]) \in Nat
      BY <2>1, AppendProperties
    <3>2. c \in mine \cap bootstrapping /\ c \notin stale => Len(pending[c]) < SendBuffer
      BY <3>1
    <3> HIDE DEF mine, stale, n
    <3>3. \/ pending'[c] = <<>> \/ pending'[c] = pending[c]
          \/ pending'[c] = Append(pending[c], n) /\ Len(pending[c]) < SendBuffer
      BY <2>2, <3>2
    <3>4. pending[c] \in Seq(Event) /\ Len(pending[c]) <= SendBuffer
      OBVIOUS
    <3>5. CASE pending'[c] = Append(pending[c], n) /\ Len(pending[c]) < SendBuffer
      BY <3>1, <3>5
    <3> QED
      BY <1>1, <3>3, <3>4, <3>5
  <2>4. buffer' = buffer /\ registered' \subseteq Conn /\ bootstrapping' \subseteq registered'
    BY <1>3 DEF FanoutCollect, Evict
  <2> QED
    BY <2>2, <2>3, <2>4
<1>4. ASSUME NEW c \in Conn, FanoutSend(c) PROVE HubType'
  <2>1. fanEvent \in Event
    BY <1>4, FanEventFacts DEF FanoutSend, Waiting
  <2>2. Append(buffer[c], fanEvent) \in Seq(Event) /\ Len(Append(buffer[c], fanEvent)) = Len(buffer[c]) + 1
    BY <2>1, AppendProperties
  <2>3. buffer' \in [Conn -> Seq(Event)] /\ \A d \in Conn : Len(buffer'[d]) <= SendBuffer
    <3>1. CASE buffer' = [buffer EXCEPT ![c] = Append(@, fanEvent)] /\ Len(buffer[c]) < SendBuffer
      <4>1. \A d \in Conn : buffer'[d] = IF d = c THEN Append(buffer[c], fanEvent) ELSE buffer[d]
        BY <3>1
      <4>2. Len(buffer[c]) \in Nat
        OBVIOUS
      <4> QED
        BY <2>2, <3>1, <4>1, <4>2
    <3>2. CASE buffer' = buffer
      BY <3>2
    <3> QED
      BY <1>4, <3>1, <3>2 DEF FanoutSend
  <2> QED
    BY <1>4, <2>3 DEF FanoutSend, hubVars
<1>5. CASE FanoutFinish
  <2>1. \A c \in Conn : pending'[c] \in {<<>>, pending[c]}
    BY <1>5 DEF FanoutFinish
  <2>2. pending' = [c \in Conn |-> pending'[c]]
    BY <1>5 DEF FanoutFinish
  <2>3. buffer' = buffer /\ registered' \subseteq Conn /\ bootstrapping' \subseteq registered'
    BY <1>5 DEF FanoutFinish, Evict
  <2>4. \A c \in Conn : pending'[c] \in Seq(Event) /\ Len(pending'[c]) <= SendBuffer
    BY <1>1, <2>1
  <2> QED
    BY <2>2, <2>3, <2>4
<1>6. ASSUME NEW c \in Conn, Register(c) PROVE HubType'
  BY <1>6 DEF Register
<1>7. ASSUME NEW c \in Conn, Bootstrapped(c) PROVE HubType'
  BY <1>1, <1>7 DEF Bootstrapped
<1>8. ASSUME NEW c \in Conn, Receive(c) PROVE HubType'
  BY <1>8, HeadTailProperties DEF Receive, hubVars
<1>9. ASSUME NEW c \in Conn, RemoveConnection(c) PROVE HubType'
  BY <1>1, <1>9 DEF RemoveConnection, Evict
<1>10. ASSUME [Next]_vars, ~SubscriberStep,
              ~ \E c \in Conn : Register(c) \/ Bootstrapped(c) \/ Receive(c) \/ RemoveConnection(c)
       PROVE  UNCHANGED <<hubVars, buffer>>
  BY <1>10 DEF Next, HandlerStep, Work, Send, RecvArm, CommitStatus, PublishStatus, SubscriberDisconnects, UpgradeFails,
     LoadSnapshot, SendSnapshot, SendEvent, ReceiveNone, HangUp, HeartbeatExpired,
     BeginControl, SendControl, TokenExpires, StopReading, ReadAgain, vars
<1> QED
  BY <1>2, <1>3, <1>4, <1>5, <1>6, <1>7, <1>8, <1>9, <1>10 DEF SubscriberStep

LEMMA FanNext == ASSUME TypeOK, [Next]_vars PROVE FanType'
<1> USE HubAssumption DEF TypeOK, FanType
<1>1. CASE UNCHANGED fanVars
  BY <1>1 DEF fanVars
<1>2. CASE FanoutCollect
  BY <1>2, HeadFacts DEF FanoutCollect, HubType, Event
<1>3. CASE FanoutFinish \/ \E c \in Conn : FanoutSend(c)
  BY <1>3 DEF FanoutFinish, FanoutSend
<1>4. ASSUME [Next]_vars, ~SubscriberStep
      PROVE  UNCHANGED fanVars
  BY <1>4 DEF Next, HandlerStep, Work, Send, RecvArm, CommitStatus, PublishStatus, SubscriberDisconnects, UpgradeFails,
     LoadSnapshot, SendSnapshot, SendEvent, ReceiveNone, HangUp, HeartbeatExpired,
     BeginControl, SendControl, TokenExpires, StopReading, ReadAgain,
     Register, Bootstrapped, Receive, RemoveConnection, vars
<1> QED
  BY <1>1, <1>2, <1>3, <1>4 DEF SubscriberStep

LEMMA ConnNext == ASSUME TypeOK, [Next]_vars PROVE ConnType'
<1> USE HubAssumption DEF TypeOK, ConnType, Phase, clientVars
<1>1. CASE UNCHANGED conVars
  BY <1>1 DEF conVars, clientVars
<1>2. ASSUME NEW c \in Conn, Register(c) PROVE ConnType'
  <2>1. log[Owner[c]] \in Seq(Event) /\ Len(log[Owner[c]]) \in Nat
    BY DEF DataType
  <2> QED
    BY <1>2, <2>1 DEF Register
<1>3. ASSUME NEW c \in Conn, UpgradeFails(c) \/ SendSnapshot(c) PROVE ConnType'
  BY <1>3 DEF UpgradeFails, SendSnapshot
<1>4. ASSUME NEW c \in Conn, LoadSnapshot(c) PROVE ConnType'
  BY <1>4 DEF LoadSnapshot, DataType
<1>5. ASSUME NEW c \in Conn, Bootstrapped(c) PROVE ConnType'
  BY <1>5 DEF Bootstrapped, HubType
<1>6. ASSUME NEW c \in Conn, SendEvent(c) PROVE ConnType'
  <2>1. Tail(flush[c]) \in Seq(Event) /\ Append(got[c], Head(flush[c])) \in Seq(Event)
    BY <1>6, HeadMovesType DEF SendEvent
  <2>2. flush' \in [Conn -> Seq(Event)]
    BY <1>6, <2>1 DEF SendEvent
  <2>3. got' \in [Conn -> Seq(Event)]
    BY <1>6, <2>1 DEF SendEvent
  <2> QED
    BY <1>6, <2>2, <2>3 DEF SendEvent
<1>7. ASSUME NEW c \in Conn, Receive(c) PROVE ConnType'
  <2>1. buffer[c] \in Seq(Event) /\ buffer[c] # <<>>
    BY <1>7 DEF Receive, HubType
  <2>2. Head(buffer[c]) \in Event
    BY <2>1, HeadTailProperties
  <2>3. <<Head(buffer[c])>> \in Seq(Event)
    BY <2>2
  <2>4. flush' \in [Conn -> Seq(Event)]
    BY <1>7, <2>3 DEF Receive
  <2> QED
    BY <1>7, <2>4 DEF Receive
<1>8. ASSUME NEW c \in Conn,
             \/ ReceiveNone(c) \/ HangUp(c) \/ HeartbeatExpired(c)
             \/ BeginControl(c) \/ SendControl(c)
             \/ TokenExpires(c) \/ StopReading(c) \/ ReadAgain(c)
      PROVE  ConnType'
  BY <1>8 DEF ReceiveNone, HangUp, HeartbeatExpired, BeginControl, SendControl,
     TokenExpires, StopReading, ReadAgain
<1>9. ASSUME NEW c \in Conn, RemoveConnection(c) PROVE ConnType'
  <2>1. flush' \in [Conn -> Seq(Event)]
    BY <1>9, EmptySeq DEF RemoveConnection
  <2> QED
    BY <1>9, <2>1 DEF RemoveConnection
<1>10. ASSUME [Next]_vars,
              ~ \E c \in Conn : Register(c) \/ UpgradeFails(c) \/ HandlerStep(c) \/ TokenExpires(c)
                                  \/ StopReading(c) \/ ReadAgain(c)
       PROVE  UNCHANGED conVars
  BY <1>10 DEF Next, CommitStatus, PublishStatus, SubscriberDisconnects, SubscriberStep, FanoutCollect,
     FanoutSend, FanoutFinish, vars
<1> QED
  BY <1>1, <1>2, <1>3, <1>4, <1>5, <1>6, <1>7, <1>8, <1>10, <1>9 DEF HandlerStep, Work, Send, RecvArm

-----------------------------------------------------------------------------
(* Where events are. *)

\* The event under way stays the last one of its log: nothing else is fanned out
\* before it is done.
LEMMA FanInvNext == ASSUME TypeOK, FanInv, [Next]_vars PROVE FanInv'
<1> USE HubAssumption DEF TypeOK, FanInv
<1>1. CASE UNCHANGED <<log, fanUser, fanEvent>>
  BY <1>1
<1>2. CASE FanoutCollect
  <2> DEFINE u == Head(channel)[1]
             n == Head(channel)[2]
  <2>1. u \in User /\ n \in Event /\ log[u] \in Seq(Event)
    BY <1>2, HeadFacts DEF FanoutCollect, DataType
  <2>2. fanUser' = u /\ fanEvent' = n /\ log'[u] = Append(log[u], n)
    BY <1>2, <2>1 DEF FanoutCollect, DataType
  <2> HIDE DEF u, n
  <2>3. Append(log[u], n) # <<>> /\ Append(log[u], n)[Len(Append(log[u], n))] = n
    BY <2>1, AppendProperties
  <2> QED
    BY <2>2, <2>3
<1>3. CASE FanoutFinish
  BY <1>3 DEF FanoutFinish
<1>4. ASSUME [Next]_vars, ~FanoutCollect, ~FanoutFinish
      PROVE  UNCHANGED <<log, fanUser, fanEvent>>
  BY <1>4 DEF Next, SubscriberStep, FanoutSend, HandlerStep, Work, Send, RecvArm, CommitStatus, PublishStatus,
     SubscriberDisconnects, UpgradeFails, LoadSnapshot, SendSnapshot, SendEvent, ReceiveNone, HangUp, HeartbeatExpired,
     BeginControl, SendControl, TokenExpires, StopReading, ReadAgain, Register, Bootstrapped, Receive, RemoveConnection, vars, fanVars
<1> QED
  BY <1>1, <1>2, <1>3, <1>4

\* Nothing of connection c has changed.
Same(c) ==
  /\ got'[c] = got[c] /\ flush'[c] = flush[c] /\ pending'[c] = pending[c] /\ buffer'[c] = buffer[c]
  /\ phase'[c] = phase[c] /\ first'[c] = first[c] /\ snapshot'[c] = snapshot[c]
  /\ c \in registered' <=> c \in registered
  /\ c \in bootstrapping' <=> c \in bootstrapping
  /\ c \in targets' <=> c \in targets
  /\ c \in failed' <=> c \in failed
  /\ c \in snapped' <=> c \in snapped

\* What one connection does, or what is sent to it, concerns no other.
LEMMA OthersSame ==
  ASSUME TypeOK, NEW c \in Conn, NEW d \in Conn, c # d,
         \/ FanoutSend(d) \/ Register(d) \/ UpgradeFails(d) \/ HandlerStep(d)
         \/ TokenExpires(d) \/ StopReading(d) \/ ReadAgain(d)
  PROVE  Same(c) /\ UNCHANGED <<dbVars, channel, unheard, log, fanUser, fanEvent>>
<1> USE DEF TypeOK, HubType, FanType, ConnType, Same, dbVars, hubVars, fanVars, conVars
<1>1. CASE FanoutSend(d)
  BY <1>1 DEF FanoutSend
<1>2. CASE Register(d) \/ UpgradeFails(d)
  BY <1>2 DEF Register, UpgradeFails
<1>3. CASE LoadSnapshot(d) \/ SendSnapshot(d)
  BY <1>3 DEF LoadSnapshot, SendSnapshot
<1>4. CASE Bootstrapped(d) \/ RemoveConnection(d)
  BY <1>4 DEF Bootstrapped, RemoveConnection, Evict
<1>5. CASE SendEvent(d) \/ Receive(d)
  BY <1>5 DEF SendEvent, Receive
<1>6. CASE \/ ReceiveNone(d) \/ HangUp(d) \/ HeartbeatExpired(d) \/ BeginControl(d) \/ SendControl(d)
           \/ TokenExpires(d) \/ StopReading(d) \/ ReadAgain(d)
  BY <1>6 DEF ReceiveNone, HangUp, HeartbeatExpired, BeginControl, SendControl, TokenExpires, StopReading,
     ReadAgain
<1> QED
  BY <1>1, <1>2, <1>3, <1>4, <1>5, <1>6 DEF HandlerStep, Work, Send, RecvArm

\* What changes about a connection without moving an event.
ClientStep(c) == TokenExpires(c) \/ StopReading(c) \/ ReadAgain(c) \/ BeginControl(c)

\* Publishers, the loss of a subscription, a token's clock and a client that
\* stops reading move no event of a connection.
LEMMA OutsideSame ==
  ASSUME TypeOK, NEW c \in Conn,
         \/ \E u \in User : CommitStatus(u) \/ \E n \in Event : PublishStatus(u, n)
         \/ SubscriberDisconnects \/ ClientStep(c) \/ UNCHANGED vars
  PROVE  Same(c) /\ UNCHANGED <<log, fanUser, fanEvent>>
BY DEF Same, CommitStatus, PublishStatus, SubscriberDisconnects, ClientStep, TokenExpires, StopReading,
   ReadAgain, BeginControl, vars, dbVars, hubVars,
   fanVars, conVars

LEMMA PlaceNext ==
  ASSUME TypeOK, NEW c \in Conn, PlaceInv(c), [Next]_vars
  PROVE  PlaceInv(c)'
<1> USE HubAssumption DEF TypeOK, HubType, FanType, ConnType, PlaceInv, Waiting, Early
<1>1. ASSUME Same(c), fanUser' = fanUser PROVE PlaceInv(c)'
  BY <1>1 DEF Same
<1>2. CASE FanoutCollect
  BY <1>2 DEF FanoutCollect, Evict, Of, conVars
<1>3. CASE FanoutSend(c)
  BY <1>3 DEF FanoutSend, hubVars, conVars
<1>4. CASE FanoutFinish
  BY <1>4 DEF FanoutFinish, Evict, conVars
<1>5. CASE Register(c)
  BY <1>5 DEF Register, fanVars
<1>6. CASE UpgradeFails(c) \/ LoadSnapshot(c) \/ SendSnapshot(c)
  BY <1>6 DEF UpgradeFails, LoadSnapshot, SendSnapshot, fanVars, hubVars
<1>7. CASE Bootstrapped(c)
  BY <1>7 DEF Bootstrapped, fanVars
<1>8. CASE SendEvent(c) \/ Receive(c)
  BY <1>8 DEF SendEvent, Receive, InLoop, fanVars, hubVars
<1>9. CASE ReceiveNone(c) \/ HangUp(c) \/ HeartbeatExpired(c)
  BY <1>9 DEF ReceiveNone, HangUp, HeartbeatExpired, InLoop, fanVars, hubVars
<1>10. CASE RemoveConnection(c) \/ SendControl(c)
  BY <1>10 DEF RemoveConnection, SendControl, Evict, fanVars, hubVars
<1> HIDE DEF TypeOK, HubType, FanType, ConnType, PlaceInv, Waiting, Early
<1>11. CASE \E d \in Conn : d # c /\ (\/ FanoutSend(d) \/ Register(d) \/ UpgradeFails(d)
              \/ HandlerStep(d) \/ TokenExpires(d) \/ StopReading(d) \/ ReadAgain(d))
  BY <1>1, <1>11, OthersSame
<1>12. CASE \/ \E u \in User : CommitStatus(u) \/ \E n \in Event : PublishStatus(u, n)
            \/ SubscriberDisconnects \/ ClientStep(c) \/ UNCHANGED vars
  BY <1>1, <1>12, OutsideSame
<1> QED
  BY <1>2, <1>3, <1>4, <1>5, <1>6, <1>7, <1>8, <1>9, <1>10, <1>11, <1>12
     DEF Next, SubscriberStep, HandlerStep, Work, Send, RecvArm, ClientStep

-----------------------------------------------------------------------------
(* Streams. *)

\* The front of a stream of four parts.
LEMMA StreamFront ==
  ASSUME NEW S, NEW p \in Seq(S), NEW q \in Seq(S), NEW r \in Seq(S), NEW s \in Seq(S),
         NEW l \in Seq(S), NEW f \in Nat, Run(p \o q \o r \o s, l, f)
  PROVE  Run(p, l, f)
<1>1. p \o q \in Seq(S) /\ p \o q \o r \in Seq(S)
  BY ConcatProperties
<1>2. Run(p \o q \o r, l, f)
  BY <1>1, RunFront
<1>3. Run(p \o q, l, f)
  BY <1>1, <1>2, RunFront
<1> QED
  BY <1>3, RunFront

LEMMA StreamType == ASSUME TypeOK, NEW c \in Conn PROVE Stream(c) \in Seq(Event)
<1>1. got[c] \in Seq(Event) /\ flush[c] \in Seq(Event) /\ pending[c] \in Seq(Event) /\ buffer[c] \in Seq(Event)
  BY DEF TypeOK, HubType, ConnType
<1>2. got[c] \o flush[c] \in Seq(Event) /\ got[c] \o flush[c] \o pending[c] \in Seq(Event)
  BY <1>1, ConcatProperties
<1> QED
  BY <1>1, <1>2, ConcatProperties DEF Stream

\* Until the connection goes live its stream is what is pending.
LEMMA EarlyStream ==
  ASSUME TypeOK, NEW c \in Conn, PlaceInv(c), phase[c] \in Early
  PROVE  Stream(c) = pending[c]
<1>1. got[c] = <<>> /\ flush[c] = <<>> /\ buffer[c] = <<>> /\ pending[c] \in Seq(Event)
  BY DEF PlaceInv, TypeOK, HubType
<1>2. <<>> \o <<>> = <<>> /\ <<>> \o pending[c] = pending[c] /\ pending[c] \o <<>> = pending[c]
  BY <1>1, EmptySeq, ConcatEmptySeq
<1> QED
  BY <1>1, <1>2 DEF Stream

LEMMA SameStream == ASSUME NEW c, Same(c) PROVE Stream(c)' = Stream(c)
BY DEF Same, Stream

\* What is flushed or received was the next event of the stream.
LEMMA FlushStream ==
  ASSUME TypeOK, NEW c \in Conn, SendEvent(c), phase'[c] = "live"
  PROVE  Stream(c)' = Stream(c)
<1>1. /\ got[c] \in Seq(Event) /\ flush[c] \in Seq(Event) /\ flush[c] # <<>>
      /\ flush'[c] = Tail(flush[c]) /\ pending'[c] = pending[c] /\ buffer'[c] = buffer[c]
  BY DEF TypeOK, ConnType, SendEvent, hubVars
<1>2. got'[c] = Append(got[c], Head(flush[c]))
  BY DEF TypeOK, ConnType, SendEvent
<1>3. got'[c] \o flush'[c] = got[c] \o flush[c]
  <2>1. Append(got[c], Head(flush[c])) \o Tail(flush[c]) = got[c] \o flush[c]
    BY <1>1, HeadMoves, Zenon
  <2> QED
    BY <1>1, <1>2, <2>1, Zenon
<1> QED
  BY <1>1, <1>3, Zenon DEF Stream

LEMMA ReceiveStream ==
  ASSUME TypeOK, NEW c \in Conn, PlaceInv(c), Receive(c)
  PROVE  Stream(c)' = Stream(c)
<1>1. /\ got[c] \in Seq(Event) /\ buffer[c] \in Seq(Event) /\ buffer[c] # <<>>
      /\ flush[c] = <<>> /\ pending[c] = <<>> /\ got'[c] = got[c] /\ pending'[c] = <<>>
  BY DEF TypeOK, HubType, ConnType, PlaceInv, Receive, InLoop, hubVars
<1>2. buffer'[c] = Tail(buffer[c]) /\ flush'[c] = <<Head(buffer[c])>>
  BY DEF TypeOK, HubType, ConnType, Receive
<1>3. /\ Head(buffer[c]) \in Event /\ Tail(buffer[c]) \in Seq(Event)
      /\ Append(got[c], Head(buffer[c])) = got[c] \o <<Head(buffer[c])>>
      /\ Append(got[c], Head(buffer[c])) \in Seq(Event)
  <2>1. Head(buffer[c]) \in Event /\ Tail(buffer[c]) \in Seq(Event)
    BY <1>1, HeadTailProperties
  <2>2. Append(got[c], Head(buffer[c])) = got[c] \o <<Head(buffer[c])>>
    BY <1>1, <2>1, AppendIsConcat
  <2> QED
    BY <1>1, <2>1, <2>2, HeadMovesType
<1>4. got[c] \o <<>> = got[c] /\ (got[c] \o <<Head(buffer[c])>>) \o <<>> = got[c] \o <<Head(buffer[c])>>
  BY <1>1, <1>3, ConcatEmptySeq
<1>5. Stream(c) = got[c] \o buffer[c]
  BY <1>1, <1>4, Zenon DEF Stream
<1>6. Stream(c)' = (got[c] \o <<Head(buffer[c])>>) \o Tail(buffer[c])
  BY <1>1, <1>2, <1>4, Zenon DEF Stream
<1>7. Append(got[c], Head(buffer[c])) \o Tail(buffer[c]) = got[c] \o buffer[c]
  BY <1>1, HeadMoves, Zenon
<1> QED
  BY <1>3, <1>5, <1>6, <1>7, Zenon

\* Going live hands what is pending over to the handler.
LEMMA BootstrappedStream ==
  ASSUME TypeOK, NEW c \in Conn, PlaceInv(c), Bootstrapped(c)
  PROVE  Stream(c)' = Stream(c)
<1>1. /\ Stream(c) = pending[c] /\ pending[c] \in Seq(Event)
      /\ got[c] = <<>> /\ buffer[c] = <<>>
  BY EarlyStream DEF TypeOK, HubType, PlaceInv, Early, Bootstrapped
<1>2. got'[c] = <<>> /\ flush'[c] = pending[c] /\ pending'[c] = <<>> /\ buffer'[c] = <<>>
  BY <1>1 DEF TypeOK, HubType, ConnType, Bootstrapped
<1>3. <<>> \o pending[c] = pending[c] /\ pending[c] \o <<>> = pending[c]
  BY <1>1, ConcatEmptySeq
<1> QED
  BY <1>1, <1>2, <1>3 DEF Stream

\* A sent event is the next one of the stream.
LEMMA SendStream ==
  ASSUME TypeOK, FanInv, NEW c \in Conn, PlaceInv(c), FanoutSend(c), c \notin failed'
  PROVE  Stream(c)' = Append(Stream(c), fanEvent)
<1>1. /\ buffer'[c] = Append(buffer[c], fanEvent)
      /\ got'[c] = got[c] /\ flush'[c] = flush[c] /\ pending'[c] = pending[c]
  BY DEF TypeOK, HubType, FanoutSend, hubVars, conVars
<1>2. fanEvent \in Event
  BY FanEventFacts DEF FanoutSend, Waiting
<1>3. buffer[c] \in Seq(Event) /\ got[c] \o flush[c] \o pending[c] \in Seq(Event)
  BY ConcatProperties DEF TypeOK, HubType, ConnType
<1> DEFINE front == got[c] \o flush[c] \o pending[c]
           rest == buffer[c]
<1>4. front \o Append(rest, fanEvent) = Append(front \o rest, fanEvent)
  <2>1. front \in Seq(Event) /\ rest \in Seq(Event)
    BY <1>3
  <2> HIDE DEF front, rest
  <2> QED
    BY <1>2, <2>1, AppendMoves
<1> QED
  BY <1>1, <1>4, Zenon DEF Stream

Open == Early \cup {"live"}

\* A step that leaves log and stream alone.
LEMMA StreamKept ==
  ASSUME NEW c \in Conn, StreamInv(c),
         log' = log, first'[c] = first[c], got'[c] = got[c],
         phase'[c] \in Open =>
           /\ phase[c] \in Open /\ Stream(c)' = Stream(c)
           /\ c \in registered' => c \in registered /\ (c \in Waiting' <=> c \in Waiting)
  PROVE  StreamInv(c)'
BY DEF StreamInv, Open, Run

\* A fan-out begins.  A bootstrapping connection of the user has the event
\* pending or is evicted, a live one waits for it.
LEMMA CollectStream ==
  ASSUME TypeOK, NEW c \in Conn, PlaceInv(c), StreamInv(c), FanoutCollect
  PROVE  StreamInv(c)'
<1> USE HubAssumption
<1> DEFINE u == Head(channel)[1]
           n == Head(channel)[2]
           l == log[Owner[c]]
           f == first[c]
<1>1. /\ u \in User /\ n \in Event /\ l \in Seq(Event) /\ f \in Nat
      /\ Len(l) \in Nat /\ f <= Len(l)
      /\ got[c] \in Seq(Event) /\ pending[c] \in Seq(Event)
      /\ Len(pending[c]) \in Nat
      /\ Stream(c) \in Seq(Event) /\ Len(Stream(c)) \in Nat
  <2>1. u \in User /\ n \in Event
    BY HeadFacts DEF TypeOK, FanoutCollect
  <2>2. Stream(c) \in Seq(Event)
    BY StreamType
  <2> QED
    BY <2>1, <2>2, LenProperties DEF TypeOK, DataType, HubType, ConnType, StreamInv
<1>2. /\ got'[c] = got[c] /\ flush'[c] = flush[c] /\ buffer'[c] = buffer[c]
      /\ phase'[c] = phase[c] /\ first'[c] = first[c]
      /\ c \notin Waiting
      /\ c \in Waiting' <=> c \in registered /\ Owner[c] = u /\ c \notin bootstrapping
      /\ c \in registered' => c \in registered
  BY DEF FanoutCollect, conVars, Waiting, Of, Evict, PlaceInv
<1>3. log'[Owner[c]] = IF Owner[c] = u THEN Append(l, n) ELSE l
  BY <1>1 DEF FanoutCollect, TypeOK, DataType
<1>4. Len(Append(l, n)) = Len(l) + 1
  BY <1>1, AppendProperties
<1>5. first'[c] <= Len(log'[Owner[c]])
  <2> HIDE DEF u, n, l
  <2> QED
    BY <1>1, <1>2, <1>3, <1>4
<1>6. Run(got'[c], log'[Owner[c]], first'[c])
  <2>1. Run(got[c], l, f)
    BY DEF StreamInv
  <2> HIDE DEF u, n, l, f
  <2>2. Run(got[c], Append(l, n), f)
    BY <1>1, <2>1, RunFacts
  <2> QED
    BY <1>2, <1>3, <2>1, <2>2 DEF f
<1>7. ASSUME phase'[c] \in Open
      PROVE  /\ Run(Stream(c)', log'[Owner[c]], first'[c])
             /\ c \in registered' =>
                  Len(Stream(c)') = Len(log'[Owner[c]]) - first'[c] - (IF c \in Waiting' THEN 1 ELSE 0)
  <2>1. /\ Run(Stream(c), l, f)
        /\ c \in registered => Len(Stream(c)) = Len(l) - f
    BY <1>1, <1>2, <1>7 DEF StreamInv, Open
  <2>2. CASE c \in registered /\ Owner[c] = u /\ c \in bootstrapping
    <3>1. phase[c] \in Early
      BY <1>2, <1>7, <2>2 DEF Open, PlaceInv
    <3>2. Stream(c) = pending[c] /\ got[c] = <<>> /\ flush[c] = <<>> /\ buffer[c] = <<>>
      BY <3>1, EarlyStream DEF PlaceInv
    <3>3. ASSUME pending'[c] \in Seq(Event) PROVE Stream(c)' = pending'[c]
      <4>1. <<>> \o <<>> = <<>> /\ <<>> \o pending'[c] = pending'[c] /\ pending'[c] \o <<>> = pending'[c]
        BY <3>3, EmptySeq, ConcatEmptySeq
      <4> QED
        BY <1>2, <3>2, <4>1, Zenon DEF Stream
    <3>4. CASE Len(pending[c]) >= SendBuffer
      <4>1. pending'[c] = <<>> /\ c \notin registered'
        BY <2>2, <3>4 DEF FanoutCollect, Evict, Of
      <4>2. Stream(c)' = <<>>
        BY <3>3, <4>1, EmptySeq
      <4>3. Run(<<>>, Append(l, n), f)
        <5> HIDE DEF u, n, l, f
        <5> QED
          BY <1>1, RunFacts, AppendProperties, EmptySeq DEF Run
      <4> QED
        BY <1>2, <1>3, <2>2, <4>1, <4>2, <4>3
    <3>5. CASE ~(Len(pending[c]) >= SendBuffer)
      <4>1. pending'[c] = Append(pending[c], n)
        BY <2>2, <3>5 DEF FanoutCollect, Of
      <4>2. Stream(c)' = Append(Stream(c), n)
        BY <1>1, <3>2, <3>3, <4>1, AppendProperties
      <4>3. Run(Append(Stream(c), n), Append(l, n), f) /\ Len(Append(Stream(c), n)) = Len(Stream(c)) + 1
        <5> HIDE DEF u, n, l, f
        <5> QED
          BY <1>1, <2>1, <2>2, RunFacts, AppendProperties
      <4>4. c \notin Waiting'
        BY <1>2, <2>2
      <4>5. Len(log'[Owner[c]]) = Len(l) + 1 /\ log'[Owner[c]] = Append(l, n)
        BY <1>3, <1>4, <2>2
      <4> HIDE DEF u, n, l
      <4> QED
        BY <1>1, <1>2, <2>1, <2>2, <4>2, <4>3, <4>4, <4>5
    <3> QED
      BY <3>4, <3>5
  <2>3. CASE ~(c \in registered /\ Owner[c] = u /\ c \in bootstrapping)
    <3>1. pending'[c] = pending[c]
      BY <2>3 DEF FanoutCollect, Of
    <3>2. Stream(c)' = Stream(c)
      BY <1>2, <3>1 DEF Stream
    <3>3. Run(Stream(c), Append(l, n), f)
      <4> HIDE DEF u, n, l, f
      <4> QED
        BY <1>1, <2>1, RunFacts
    <3>4. CASE Owner[c] = u
      <4>1. log'[Owner[c]] = Append(l, n) /\ Len(log'[Owner[c]]) = Len(l) + 1
        BY <1>3, <1>4, <3>4
      <4>2. c \in registered' => c \in registered /\ c \in Waiting'
        BY <1>2, <2>3, <3>4
      <4> HIDE DEF u, n, l
      <4> QED
        BY <1>1, <1>2, <2>1, <3>2, <3>3, <4>1, <4>2
    <3>5. CASE Owner[c] # u
      <4>1. log'[Owner[c]] = l /\ c \notin Waiting'
        BY <1>2, <1>3, <3>5
      <4> HIDE DEF u, n, l
      <4> QED
        BY <1>1, <1>2, <2>1, <3>2, <4>1
    <3> QED
      BY <3>4, <3>5
  <2> QED
    BY <2>2, <2>3
<1> QED
  BY <1>5, <1>6, <1>7 DEF StreamInv, Open

\* An event is sent to a live connection that waits for it, or is not.
LEMMA SendKeeps ==
  ASSUME TypeOK, FanInv, NEW c \in Conn, PlaceInv(c), StreamInv(c), FanoutSend(c)
  PROVE  StreamInv(c)'
<1> USE HubAssumption
<1>1. /\ log' = log /\ first'[c] = first[c] /\ got'[c] = got[c] /\ flush'[c] = flush[c]
      /\ pending'[c] = pending[c] /\ phase'[c] = phase[c] /\ registered' = registered
      /\ c \in Waiting
  BY DEF FanoutSend, conVars, hubVars, Waiting
<1>2. CASE c \in failed'
  <2>1. buffer'[c] = buffer[c] /\ c \in Waiting'
    BY <1>2 DEF FanoutSend, PlaceInv, Waiting
  <2>2. Stream(c)' = Stream(c)
    BY <1>1, <2>1 DEF Stream
  <2> QED
    BY <1>1, <2>1, <2>2, StreamKept
<1>3. CASE c \notin failed'
  <2> DEFINE l == log[Owner[c]]
             f == first[c]
  <2>1. Stream(c)' = Append(Stream(c), fanEvent) /\ c \notin Waiting'
    BY <1>3, SendStream DEF FanoutSend, Waiting
  <2>2. /\ Stream(c) \in Seq(Event) /\ l \in Seq(Event) /\ f \in Nat /\ f <= Len(l)
        /\ Len(Stream(c)) \in Nat /\ Len(l) \in Nat
        /\ fanEvent \in Event
    BY <1>1, StreamType, FanEventFacts, LenProperties DEF TypeOK, DataType, ConnType, StreamInv
  <2>3. l # <<>> /\ fanEvent = l[Len(l)]
    BY <1>1, FanEventFacts DEF FanInv
  <2>4. ASSUME phase[c] \in Open
        PROVE  Run(Append(Stream(c), fanEvent), l, f) /\ Len(Append(Stream(c), fanEvent)) = Len(l) - f
    <3>1. Run(Stream(c), l, f) /\ Len(Stream(c)) = Len(l) - f - 1
      BY <1>1, <2>4 DEF StreamInv, PlaceInv, Open
    <3> HIDE DEF l, f
    <3>2. Run(Append(Stream(c), fanEvent), l, f)
      BY <2>2, <2>3, <3>1, RunFacts
    <3>3. Len(Append(Stream(c), fanEvent)) = Len(Stream(c)) + 1
      BY <2>2, AppendProperties
    <3> QED
      BY <2>2, <3>1, <3>2, <3>3
  <2>5. f <= Len(l) /\ Run(got[c], l, f)
    BY DEF StreamInv
  <2>6. phase'[c] \in Open => Run(Stream(c)', log'[Owner[c]], first'[c])
    BY <1>1, <2>1, <2>4
  <2>7. phase'[c] \in Open => Len(Stream(c)') = Len(log'[Owner[c]]) - first'[c] - 0
    BY <1>1, <2>1, <2>2, <2>4
  <2> QED
    BY <1>1, <2>1, <2>5, <2>6, <2>7 DEF StreamInv, Open
<1> QED
  BY <1>2, <1>3

LEMMA StreamNext ==
  ASSUME TypeOK, FanInv, NEW c \in Conn, PlaceInv(c), StreamInv(c), [Next]_vars, ConnType', HubType'
  PROVE  StreamInv(c)'
<1> USE HubAssumption
<1>1. ASSUME Same(c), log' = log PROVE StreamInv(c)'
  <2>1. Stream(c)' = Stream(c)
    BY <1>1, SameStream
  <2> QED
    BY <1>1, <2>1, StreamKept DEF Same, Waiting
<1>2. CASE FanoutCollect
  BY <1>2, CollectStream
<1>3. CASE FanoutSend(c)
  BY <1>3, SendKeeps
<1>4. CASE FanoutFinish
  <2>1. /\ log' = log /\ first' = first /\ got' = got /\ flush' = flush /\ buffer' = buffer /\ phase' = phase
        /\ c \in registered' => c \in registered /\ c \notin Waiting /\ c \notin Waiting'
    BY <1>4 DEF FanoutFinish, Evict, conVars, Waiting
  <2>2. phase[c] \in Open => pending'[c] = pending[c]
    BY <1>4 DEF FanoutFinish, Open, Early, PlaceInv, Waiting
  <2>3. phase[c] \in Open => Stream(c)' = Stream(c)
    BY <2>1, <2>2 DEF Stream
  <2> QED
    BY <2>1, <2>3, StreamKept
<1>5. CASE Register(c)
  <2>1. /\ log' = log /\ first'[c] = Len(log[Owner[c]])
        /\ got'[c] = got[c] /\ flush'[c] = flush[c] /\ buffer'[c] = buffer[c] /\ pending'[c] = pending[c]
        /\ phase[c] = "new" /\ c \notin registered /\ c \notin Waiting' /\ got[c] = <<>>
    BY <1>5 DEF Register, fanVars, TypeOK, ConnType, PlaceInv, Early, Waiting
  <2>2. Stream(c) = <<>>
    BY <2>1, EarlyStream DEF PlaceInv, Early, TypeOK, HubType
  <2>3. Stream(c)' = <<>>
    BY <2>1, <2>2 DEF Stream
  <2>4. log[Owner[c]] \in Seq(Event) /\ Len(log[Owner[c]]) \in Nat /\ Len(<<>>) = 0
    BY LenProperties, EmptySeq DEF TypeOK, DataType
  <2>5. Run(<<>>, log[Owner[c]], Len(log[Owner[c]]))
    BY <2>4 DEF Run
  <2>6. Run(got'[c], log'[Owner[c]], first'[c]) /\ Run(Stream(c)', log'[Owner[c]], first'[c])
    BY <2>1, <2>3, <2>5
  <2>7. first'[c] <= Len(log'[Owner[c]]) /\ Len(Stream(c)') = Len(log'[Owner[c]]) - first'[c] - 0
    BY <2>1, <2>3, <2>4
  <2> QED
    BY <2>1, <2>6, <2>7 DEF StreamInv
<1>6. CASE UpgradeFails(c) \/ LoadSnapshot(c) \/ SendSnapshot(c)
  <2>1. /\ log' = log /\ first' = first /\ got' = got /\ flush' = flush /\ buffer' = buffer /\ pending' = pending
        /\ phase[c] \in Open /\ registered' = registered /\ Waiting' = Waiting
    BY <1>6 DEF UpgradeFails, LoadSnapshot, SendSnapshot, fanVars, hubVars, Waiting, Open, Early
  <2>2. Stream(c)' = Stream(c)
    BY <2>1 DEF Stream
  <2> QED
    BY <2>1, <2>2, StreamKept
<1>7. CASE Bootstrapped(c)
  <2>1. /\ log' = log /\ first' = first /\ got' = got /\ phase[c] \in Open
        /\ registered' = registered /\ Waiting' = Waiting
    BY <1>7 DEF Bootstrapped, fanVars, Waiting, Open, Early
  <2> QED
    BY <1>7, <2>1, BootstrappedStream, StreamKept
<1>8. CASE SendEvent(c) \/ Receive(c)
  <2>1. /\ log' = log /\ first' = first /\ phase[c] = "live"
        /\ registered' = registered /\ Waiting' = Waiting
    BY <1>8 DEF SendEvent, Receive, InLoop, fanVars, hubVars, Waiting
  <2>2. CASE phase'[c] = "live"
    <3>1. Stream(c)' = Stream(c)
      BY <1>8, <2>2, FlushStream, ReceiveStream
    <3>2. /\ first[c] <= Len(log[Owner[c]]) /\ first[c] \in Nat /\ log[Owner[c]] \in Seq(Event)
          /\ Run(Stream(c), log[Owner[c]], first[c])
          /\ c \in registered =>
               Len(Stream(c)) = Len(log[Owner[c]]) - first[c] - (IF c \in Waiting THEN 1 ELSE 0)
      BY <2>1 DEF StreamInv, TypeOK, DataType, ConnType
    <3>3. Run(got'[c], log[Owner[c]], first[c])
      <4> DEFINE g == got'[c]
                 h == flush'[c]
                 p == pending'[c]
                 b == buffer'[c]
      <4>1. g \in Seq(Event) /\ h \in Seq(Event)
        BY DEF ConnType
      <4>2. p \in Seq(Event) /\ b \in Seq(Event)
        BY DEF HubType
      <4>3. Run(g \o h \o p \o b, log[Owner[c]], first[c])
        BY <3>1, <3>2 DEF Stream
      <4> HIDE DEF g, h, p, b
      <4>4. Run(g, log[Owner[c]], first[c])
        BY <3>2, <4>1, <4>2, <4>3, StreamFront
      <4> QED
        BY <4>4 DEF g
    <3> QED
      BY <2>1, <3>1, <3>2, <3>3 DEF StreamInv
  <2>3. CASE phase'[c] # "live"
    <3>1. phase'[c] = "closing" /\ got'[c] = got[c]
      BY <1>8, <2>1, <2>3 DEF SendEvent, Receive, TypeOK, ConnType
    <3> QED
      BY <2>1, <3>1, StreamKept DEF Open, Early
  <2> QED
    BY <2>2, <2>3
<1>9. CASE ReceiveNone(c) \/ HangUp(c) \/ HeartbeatExpired(c) \/ RemoveConnection(c)
  <2>1. log' = log /\ first' = first /\ got' = got /\ phase'[c] \in {"closing", "closed"}
    BY <1>9 DEF ReceiveNone, HangUp, HeartbeatExpired, RemoveConnection, TypeOK, ConnType
  <2> QED
    BY <2>1, StreamKept DEF Open, Early
<1>10. CASE SendControl(c)
  <2>1. /\ log' = log /\ first' = first /\ got' = got /\ flush' = flush /\ buffer' = buffer /\ pending' = pending
        /\ registered' = registered /\ Waiting' = Waiting
        /\ phase'[c] \in Open => phase[c] \in Open
    BY <1>10 DEF SendControl, fanVars, hubVars, Waiting, Open, Early, TypeOK, ConnType
  <2>2. Stream(c)' = Stream(c)
    BY <2>1 DEF Stream
  <2> QED
    BY <2>1, <2>2, StreamKept
<1>11. CASE \E d \in Conn : d # c /\ (\/ FanoutSend(d) \/ Register(d) \/ UpgradeFails(d)
              \/ HandlerStep(d) \/ TokenExpires(d) \/ StopReading(d) \/ ReadAgain(d))
  BY <1>1, <1>11, OthersSame
<1>12. CASE \/ \E u \in User : CommitStatus(u) \/ \E n \in Event : PublishStatus(u, n)
            \/ SubscriberDisconnects \/ ClientStep(c) \/ UNCHANGED vars
  BY <1>1, <1>12, OutsideSame
<1> QED
  BY <1>2, <1>3, <1>4, <1>5, <1>6, <1>7, <1>8, <1>9, <1>11, <1>12, <1>10
     DEF Next, SubscriberStep, HandlerStep, Work, Send, RecvArm, ClientStep

-----------------------------------------------------------------------------
(* The snapshot and what follows it. *)

\* A step that moves nothing between database, channel and stream.
LEMMA SnapshotKept ==
  ASSUME NEW c \in Conn, SnapshotInv(c), UNCHANGED <<dbVars, channel, unheard, fanEvent>>,
         Showing(c)' => /\ Showing(c) /\ Stream(c)' = Stream(c) /\ snapshot'[c] = snapshot[c]
                        /\ c \in Waiting => c \in Waiting'
  PROVE  SnapshotInv(c)'
BY DEF SnapshotInv, Accounted, dbVars

\* A publisher commits or publishes, or the subscription is lost.
LEMMA PublisherKeeps ==
  ASSUME TypeOK, NEW c \in Conn, SnapshotInv(c),
         \/ \E u \in User : CommitStatus(u) \/ \E n \in Event : PublishStatus(u, n)
         \/ SubscriberDisconnects
  PROVE  SnapshotInv(c)'
<1> USE HubAssumption
<1>1. Same(c) /\ fanEvent' = fanEvent
  BY OutsideSame
<1>2. Stream(c)' = Stream(c)
  BY <1>1, SameStream
<1> SUFFICES ASSUME Showing(c)', NEW n \in 1 .. version'[Owner[c]]
             PROVE  Accounted(c, n)'
  BY DEF SnapshotInv
<1>3. Showing(c)
  BY <1>1 DEF Showing, Same
<1>4. snapshot'[c] = snapshot[c] /\ (c \in Waiting => c \in Waiting')
  BY <1>1 DEF Same, Waiting
<1>5. ASSUME NEW u \in User, CommitStatus(u) PROVE Accounted(c, n)'
  <2>1. n \in 1 .. version[Owner[c]] \/ n \in outbox'[Owner[c]]
    BY <1>5 DEF CommitStatus, TypeOK, DataType
  <2>2. outbox[Owner[c]] \subseteq outbox'[Owner[c]] /\ UNCHANGED <<channel, unheard>>
    BY <1>5 DEF CommitStatus, TypeOK, DataType
  <2> QED
    BY <1>1, <1>2, <1>3, <1>4, <2>1, <2>2 DEF SnapshotInv, Accounted
<1>6. ASSUME NEW u \in User, NEW m \in Event, PublishStatus(u, m) PROVE Accounted(c, n)'
  <2>1. n \in 1 .. version[Owner[c]] /\ Accounted(c, n)
    BY <1>3, <1>6 DEF PublishStatus, SnapshotInv
  <2>2. /\ \A x \in outbox[Owner[c]] : x \in outbox'[Owner[c]] \/ (Owner[c] = u /\ x = m)
        /\ unheard[Owner[c]] \subseteq unheard'[Owner[c]]
    BY <1>6 DEF PublishStatus, TypeOK, DataType
  <2>3. \A i \in DOMAIN channel : i \in DOMAIN channel' /\ channel'[i] = channel[i]
    <3>1. <<u, m>> \in User \X Event /\ channel \in Seq(User \X Event)
      BY <1>6 DEF TypeOK, DataType
    <3>2. CASE channel' = Append(channel, <<u, m>>)
      BY <3>1, <3>2, AppendProperties
    <3> QED
      BY <1>6, <3>2 DEF PublishStatus
  <2>4. m \in unheard'[u] \/ \E i \in DOMAIN channel' : channel'[i] = <<u, m>>
    <3>1. <<u, m>> \in User \X Event /\ channel \in Seq(User \X Event)
      BY <1>6 DEF TypeOK, DataType
    <3>2. CASE channel' = Append(channel, <<u, m>>)
      <4>1. Len(channel) + 1 \in DOMAIN channel' /\ channel'[Len(channel) + 1] = <<u, m>>
        BY <3>1, <3>2, AppendProperties, LenProperties
      <4> QED
        BY <4>1
    <3>3. CASE unheard' = [unheard EXCEPT ![u] = @ \cup {m}]
      BY <1>6, <3>3 DEF TypeOK, DataType
    <3> QED
      BY <1>6, <3>2, <3>3 DEF PublishStatus
  <2> QED
    BY <1>1, <1>2, <1>4, <2>1, <2>2, <2>3, <2>4 DEF Accounted
<1>7. ASSUME SubscriberDisconnects PROVE Accounted(c, n)'
  <2>1. n \in 1 .. version[Owner[c]] /\ Accounted(c, n) /\ outbox' = outbox
    BY <1>3, <1>7 DEF SubscriberDisconnects, SnapshotInv, dbVars
  <2>2. n \in Event /\ Owner[c] \in User
    BY <2>1 DEF Event, TypeOK, DataType
  <2>3. \A x \in Event : x \in unheard[Owner[c]] \/ (\E i \in DOMAIN channel : channel[i] = <<Owner[c], x>>)
          => x \in unheard'[Owner[c]]
    BY <1>7, <2>2 DEF SubscriberDisconnects
  <2> QED
    BY <1>1, <1>2, <1>4, <2>1, <2>2, <2>3 DEF Accounted
<1> QED
  BY <1>5, <1>6, <1>7

\* The message at the head of the channel goes to the connection's stream, or the
\* connection waits for it.
LEMMA CollectAccounted ==
  ASSUME TypeOK, NEW c \in Conn, PlaceInv(c), SnapshotInv(c), FanoutCollect
  PROVE  SnapshotInv(c)'
<1> USE HubAssumption
<1> DEFINE u == Head(channel)[1]
           m == Head(channel)[2]
<1> SUFFICES ASSUME Showing(c)', NEW n \in 1 .. version'[Owner[c]]
             PROVE  Accounted(c, n)'
  BY DEF SnapshotInv
<1>1. /\ u \in User /\ m \in Event /\ Head(channel) = <<u, m>>
      /\ channel \in Seq(User \X Event) /\ channel # <<>> /\ channel' = Tail(channel)
  BY HeadFacts DEF TypeOK, DataType, FanoutCollect
<1>2. /\ UNCHANGED <<version, outbox, unheard, snapshot, phase, snapped>> /\ fanEvent' = m
      /\ got'[c] = got[c] /\ flush'[c] = flush[c] /\ buffer'[c] = buffer[c]
      /\ c \in registered /\ c \notin Waiting
  BY DEF FanoutCollect, dbVars, conVars, Showing, Evict, PlaceInv, Waiting
<1>3. Accounted(c, n)
  BY <1>2 DEF Showing, SnapshotInv
<1>4. \A i \in DOMAIN channel : channel[i] = <<u, m>> \/ \E j \in DOMAIN channel' : channel'[j] = channel[i]
  <2>1. channel[1] = <<u, m>>
    <3>1. Head(channel) = channel[1]
      BY <1>1
    <3> QED
      BY <1>1, <3>1
  <2> SUFFICES ASSUME NEW i \in DOMAIN channel, i # 1
               PROVE  \E j \in DOMAIN channel' : channel'[j] = channel[i]
    BY <2>1
  <2>2. Tail(channel) \in Seq(User \X Event) /\ Len(Tail(channel)) = Len(channel) - 1
        /\ \A k \in 1 .. Len(Tail(channel)) : Tail(channel)[k] = channel[k + 1]
    BY <1>1, HeadTailProperties
  <2>3. i \in 1 .. Len(channel) /\ Len(channel) \in Nat
    BY <1>1, LenProperties
  <2>4. i - 1 \in DOMAIN Tail(channel) /\ Tail(channel)[i - 1] = channel[i]
    BY <2>2, <2>3
  <2> QED
    BY <1>1, <2>4
<1>5. CASE Owner[c] = u /\ c \in bootstrapping
  <2>1. Stream(c) = pending[c] /\ got[c] = <<>> /\ flush[c] = <<>> /\ buffer[c] = <<>>
    BY <1>2, <1>5, EarlyStream DEF PlaceInv, Showing, Early
  <2>2. pending'[c] = Append(pending[c], m)
    BY <1>2, <1>5 DEF FanoutCollect, Of, Showing, Evict
  <2>3. pending[c] \in Seq(Event) /\ pending'[c] \in Seq(Event)
    BY <1>1, <2>2, AppendProperties DEF TypeOK, HubType
  <2>4. <<>> \o <<>> = <<>> /\ <<>> \o pending'[c] = pending'[c] /\ pending'[c] \o <<>> = pending'[c]
    BY <2>3, EmptySeq, ConcatEmptySeq
  <2>5. Stream(c)' = pending'[c]
    BY <1>2, <2>1, <2>4, Zenon DEF Stream
  <2>6. \A i \in DOMAIN pending[c] : i \in DOMAIN pending'[c] /\ pending'[c][i] = pending[c][i]
    BY <1>1, <2>2, <2>3, AppendProperties, LenProperties
  <2>7. Len(pending[c]) + 1 \in DOMAIN pending'[c] /\ pending'[c][Len(pending[c]) + 1] = m
    BY <1>1, <2>2, <2>3, AppendProperties, LenProperties
  <2>8. /\ \E i \in DOMAIN Stream(c)' : Stream(c)'[i] = m
        /\ (\E i \in DOMAIN Stream(c) : Stream(c)[i] = n) => \E i \in DOMAIN Stream(c)' : Stream(c)'[i] = n
    BY <2>1, <2>5, <2>6, <2>7
  <2>9. CASE n = m
    BY <2>8, <2>9 DEF Accounted
  <2>10. CASE n # m
    <3>1. <<Owner[c], n>> # <<u, m>>
      BY <2>10
    <3> HIDE DEF u, m
    <3> QED
      BY <1>2, <1>3, <1>4, <2>8, <3>1 DEF Accounted
  <2> QED
    BY <2>9, <2>10
<1>6. CASE ~(Owner[c] = u /\ c \in bootstrapping)
  <2>1. pending'[c] = pending[c] /\ (Owner[c] = u => c \in Waiting')
    BY <1>2, <1>6 DEF FanoutCollect, Of, Waiting
  <2>2. Stream(c)' = Stream(c)
    BY <1>2, <2>1 DEF Stream
  <2>3. <<Owner[c], n>> = <<u, m>> => n = fanEvent' /\ c \in Waiting'
    BY <1>2, <2>1
  <2> HIDE DEF u, m
  <2> QED
    BY <1>2, <1>3, <1>4, <2>2, <2>3 DEF Accounted
<1> QED
  BY <1>5, <1>6

LEMMA SnapshotNext ==
  ASSUME TypeOK, FanInv, NEW c \in Conn, PlaceInv(c), SnapshotInv(c), [Next]_vars
  PROVE  SnapshotInv(c)'
<1> USE HubAssumption
<1>1. ASSUME Same(c), UNCHANGED <<dbVars, channel, unheard, fanEvent>> PROVE SnapshotInv(c)'
  <2>1. Stream(c)' = Stream(c)
    BY <1>1, SameStream
  <2> QED
    BY <1>1, <2>1, SnapshotKept DEF Same, Waiting, Showing
<1>2. CASE FanoutCollect
  BY <1>2, CollectAccounted
<1>3. CASE FanoutSend(c)
  <2>1. /\ UNCHANGED <<dbVars, channel, unheard, fanEvent, registered, phase, snapped, snapshot>>
        /\ got' = got /\ flush' = flush /\ pending' = pending /\ c \in targets
    BY <1>3 DEF FanoutSend, hubVars, conVars
  <2>2. Showing(c)' => Showing(c)
    BY <2>1 DEF Showing
  <2>3. CASE c \in failed'
    <3>1. buffer'[c] = buffer[c] /\ c \in Waiting'
      BY <1>3, <2>3 DEF FanoutSend, PlaceInv, Waiting
    <3>2. Stream(c)' = Stream(c)
      BY <2>1, <3>1 DEF Stream
    <3> QED
      BY <2>1, <2>2, <3>1, <3>2, SnapshotKept
  <2>4. CASE c \notin failed'
    <3>1. Stream(c)' = Append(Stream(c), fanEvent) /\ fanEvent \in Event /\ Stream(c) \in Seq(Event)
      BY <1>3, <2>1, <2>4, SendStream, StreamType, FanEventFacts DEF Waiting
    <3>2. Len(Stream(c)) + 1 \in DOMAIN Stream(c)' /\ Stream(c)'[Len(Stream(c)) + 1] = fanEvent
      BY <3>1, AppendProperties, LenProperties
    <3>3. \A i \in DOMAIN Stream(c) : i \in DOMAIN Stream(c)' /\ Stream(c)'[i] = Stream(c)[i]
      BY <3>1, AppendProperties, LenProperties
    <3> QED
      BY <2>1, <2>2, <3>2, <3>3 DEF SnapshotInv, Accounted, dbVars
  <2> QED
    BY <2>3, <2>4
<1>4. CASE FanoutFinish
  <2>1. /\ UNCHANGED <<dbVars, channel, unheard, fanEvent, phase, snapped, snapshot, got, flush, buffer>>
        /\ c \in registered' => c \in registered /\ c \notin Waiting
    BY <1>4 DEF FanoutFinish, Evict, conVars, Waiting
  <2>2. c \in registered' => pending'[c] = pending[c]
    BY <1>4 DEF FanoutFinish, Evict
  <2>3. c \in registered' => Stream(c)' = Stream(c)
    BY <2>1, <2>2 DEF Stream
  <2> QED
    BY <2>1, <2>3, SnapshotKept DEF Showing
<1>5. CASE LoadSnapshot(c)
  <2>1. CASE phase'[c] = "loaded"
    <3>1. snapshot'[c] = version[Owner[c]] /\ version' = version
      BY <1>5, <2>1 DEF LoadSnapshot, dbVars, TypeOK, ConnType
    <3>2. version[Owner[c]] \in Nat
      BY DEF TypeOK, DataType
    <3>3. \A n \in 1 .. version'[Owner[c]] : n <= snapshot'[c]
      BY <3>1, <3>2
    <3> QED
      BY <3>3 DEF SnapshotInv, Accounted
  <2>2. CASE phase'[c] # "loaded"
    <3>1. phase'[c] = "unloaded"
      BY <1>5, <2>2 DEF LoadSnapshot, TypeOK, ConnType
    <3> QED
      BY <3>1 DEF SnapshotInv, Showing
  <2> QED
    BY <2>1, <2>2
<1>6. CASE SendSnapshot(c)
  <2>1. /\ UNCHANGED <<dbVars, channel, unheard, fanEvent, registered, snapshot, got, flush, pending, buffer>>
        /\ phase[c] = "loaded" /\ Waiting' = Waiting
    BY <1>6 DEF SendSnapshot, fanVars, hubVars, Waiting
  <2>2. Stream(c)' = Stream(c)
    BY <2>1 DEF Stream
  <2> QED
    BY <2>1, <2>2, SnapshotKept DEF Showing
<1>7. CASE Bootstrapped(c)
  <2>1. UNCHANGED <<dbVars, channel, unheard, fanEvent, registered, snapshot, snapped>> /\ Waiting' = Waiting
    BY <1>7 DEF Bootstrapped, fanVars, Waiting
  <2>2. Showing(c)' => Showing(c)
    BY <1>7, <2>1 DEF Bootstrapped, Showing, PlaceInv, Early
  <2> QED
    BY <1>7, <2>1, <2>2, BootstrappedStream, SnapshotKept
<1>8. CASE SendEvent(c) \/ Receive(c)
  <2>1. /\ UNCHANGED <<dbVars, channel, unheard, fanEvent, registered, snapshot, snapped>> /\ Waiting' = Waiting
        /\ phase[c] = "live" /\ phase'[c] \in {"live", "closing"}
    BY <1>8 DEF SendEvent, Receive, InLoop, fanVars, hubVars, Waiting, TypeOK, ConnType
  <2>2. Showing(c)' => Showing(c) /\ phase'[c] = "live"
    BY <2>1 DEF Showing
  <2> QED
    BY <1>8, <2>1, <2>2, FlushStream, ReceiveStream, SnapshotKept
<1>9. CASE \/ Register(c) \/ UpgradeFails(c) \/ ReceiveNone(c) \/ HangUp(c) \/ HeartbeatExpired(c)
           \/ RemoveConnection(c)
  <2>1. phase'[c] \in {"upgrading", "abandoned", "closing", "closed"}
    BY <1>9 DEF Register, UpgradeFails, ReceiveNone, HangUp, HeartbeatExpired, RemoveConnection, TypeOK, ConnType
  <2> QED
    BY <2>1 DEF SnapshotInv, Showing
<1>10. CASE \E d \in Conn : d # c /\ (\/ FanoutSend(d) \/ Register(d) \/ UpgradeFails(d)
              \/ HandlerStep(d) \/ TokenExpires(d) \/ StopReading(d) \/ ReadAgain(d))
  BY <1>1, <1>10, OthersSame
<1>11. CASE ClientStep(c) \/ UNCHANGED vars
  <2>1. UNCHANGED <<dbVars, channel, unheard, fanEvent>>
    BY <1>11 DEF ClientStep, TokenExpires, StopReading, ReadAgain, BeginControl, vars, fanVars
  <2> QED
    BY <1>1, <1>11, <2>1, OutsideSame
<1>12. CASE \/ \E u \in User : CommitStatus(u) \/ \E n \in Event : PublishStatus(u, n)
            \/ SubscriberDisconnects
  BY <1>12, PublisherKeeps
<1>13. CASE SendControl(c)
  <2>1. /\ UNCHANGED <<dbVars, channel, unheard, fanEvent, registered, snapshot, snapped, got, flush, pending, buffer>>
        /\ Waiting' = Waiting /\ (phase'[c] = phase[c] \/ phase'[c] = "closing")
    BY <1>13 DEF SendControl, fanVars, hubVars, Waiting, TypeOK, ConnType
  <2>2. Stream(c)' = Stream(c)
    BY <2>1 DEF Stream
  <2> QED
    BY <2>1, <2>2, SnapshotKept DEF Showing
<1> QED
  BY <1>2, <1>3, <1>4, <1>5, <1>6, <1>7, <1>8, <1>9, <1>10, <1>11, <1>12, <1>13
     DEF Next, SubscriberStep, HandlerStep, Work, Send, RecvArm, ClientStep

-----------------------------------------------------------------------------
LEMMA InitInv == Init => Inv
<1> SUFFICES ASSUME Init PROVE Inv
  OBVIOUS
<1> USE HubAssumption DEF Init
<1>1. TypeOK
  BY EmptySeq DEF TypeOK, DataType, HubType, FanType, ConnType, Phase
<1>2. FanInv
  BY DEF FanInv
<1>3. ASSUME NEW c \in Conn PROVE PlaceInv(c) /\ StreamInv(c) /\ SnapshotInv(c)
  <2>1. PlaceInv(c)
    BY <1>3 DEF PlaceInv, Waiting, Early
  <2>2. Stream(c) = <<>>
    BY <1>1, <1>3, <2>1, EarlyStream DEF Early
  <2>3. /\ got[c] = <<>> /\ log[Owner[c]] = <<>> /\ first[c] = 0 /\ c \notin registered /\ Len(<<>>) = 0
        /\ Run(<<>>, <<>>, 0)
    BY <1>3, EmptySeq DEF Run
  <2> QED
    BY <2>1, <2>2, <2>3 DEF StreamInv, SnapshotInv, Showing
<1> QED
  BY <1>1, <1>2, <1>3 DEF Inv

\* The inductive invariant: where the events of a connection are, that its stream
\* is a run of the log, and that from its snapshot on no change is missing.
THEOREM HubInvariant == Spec => []Inv
<1>1. Inv /\ [Next]_vars => Inv'
  <2> SUFFICES ASSUME Inv, [Next]_vars PROVE Inv'
    OBVIOUS
  <2> USE DEF Inv
  <2>1. TypeOK'
    BY DataNext, HubNext, FanNext, ConnNext DEF TypeOK
  <2>2. FanInv'
    BY FanInvNext
  <2>3. ASSUME NEW c \in Conn PROVE (PlaceInv(c) /\ StreamInv(c) /\ SnapshotInv(c))'
    <3>1. ConnType' /\ HubType'
      BY <2>1 DEF TypeOK
    <3> QED
      BY <2>3, <3>1, PlaceNext, StreamNext, SnapshotNext
  <2> QED
    BY <2>1, <2>2, <2>3
<1> QED
  BY <1>1, InitInv, PTL DEF Spec

\* Type correctness of the hub, the channel and the connections' handlers; no
\* queue of a connection exceeds its buffer.
THEOREM TypeCorrect == Spec => []TypeOK
<1>1. Inv => TypeOK
  BY DEF Inv
<1> QED
  BY <1>1, HubInvariant, PTL

\* Whatever the timing of fanout_to_user and handle_ws_connection, a client gets a
\* gap-free run of what was fanned out since it registered.
THEOREM GapFree == Spec => []GapFreeInOrder
<1>1. Inv => GapFreeInOrder
  <2> SUFFICES ASSUME Inv, NEW c \in Conn
               PROVE  /\ Len(got[c]) <= Len(log[Owner[c]]) - first[c]
                      /\ \A i \in DOMAIN got[c] : got[c][i] = log[Owner[c]][first[c] + i]
    BY DEF GapFreeInOrder
  <2>1. Run(got[c], log[Owner[c]], first[c]) /\ got[c] \in Seq(Event)
    BY DEF Inv, StreamInv, TypeOK, ConnType
  <2> QED
    BY <2>1, LenProperties DEF Run
<1> QED
  BY <1>1, HubInvariant, PTL

\* Nothing falls between the snapshot and the live events of a connection in the hub.
THEOREM NothingBetween == Spec => []SnapshotPlusEvents
<1>1. Inv => SnapshotPlusEvents
  BY DEF Inv, SnapshotInv, Showing, Accounted, Waiting, SnapshotPlusEvents, TypeOK, HubType
<1> QED
  BY <1>1, HubInvariant, PTL
=============================================================================
