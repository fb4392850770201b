---------------------------- MODULE SessionProofs ----------------------------
(***************************************************************************)
(* Proofs about module Session for every limit of the queues, every        *)
(* timeout, and any number of connections, messages and failures.          *)
(***************************************************************************)
EXTENDS Session, FiniteSetTheorems, TLAPS

-----------------------------------------------------------------------------
(* The inductive invariant.                                                *)

Searching == discPc \in {"localhost", "cached", "broadcast"}

\* The notifications poll() has swapped out and not handled yet.
Taken == IF At("notes") THEN drained ELSE <<>>

AllOf(e, s) == \A i \in DOMAIN s : s[i].epoch = e
NoneOf(kind, s) == \A i \in DOMAIN s : s[i].kind # kind
OnlyErrors(s) == \A i \in DOMAIN s : s[i].kind = "error"

\* What stop() and the joins have achieved by each step of a call: the joins
\* come before the reset, and the swapped-out queue is the poll's alone.
CallInv ==
    /\ At("net") \/ At("join") \/ At("reset") => discPc = "off"
    /\ At("disc") \/ At("net") \/ At("join") \/ At("reset") => ~discovering
    /\ At("join") => netPc # "off" /\ netStop /\ outbox = <<>>
    /\ At("reset") => netPc = "off"
    /\ netPc = "off" => ~running /\ outbox = <<>>
    /\ netPc # "off" => running
    /\ ~At("notes") /\ ~At("payloads") => drained = <<>>

\* Every thread belongs to the present connection, and so does everything that
\* the threads have pushed.
EpochInv ==
    /\ discPc # "off" => discEpoch = epoch
    /\ netPc # "off" => netEpoch = epoch
    /\ AllOf(epoch, notes)
    /\ AllOf(epoch, inbox)
    /\ AllOf(epoch, drained)

\* The search reports once, and as long as it has not been heard the transport
\* has not been started.
OneDiscovered(s) ==
    \A i, j \in DOMAIN s : s[i].kind = "discovered" /\ s[j].kind = "discovered" => i = j
SearchInv ==
    /\ Searching => NoneOf("discovered", notes) /\ NoneOf("discovered", Taken)
    /\ OneDiscovered(notes) /\ OneDiscovered(Taken)
    /\ NoneOf("discovered", notes) \/ NoneOf("discovered", Taken)
    /\ Searching \/ ~NoneOf("discovered", notes) \/ ~NoneOf("discovered", Taken)
         => netPc = "off"

\* After an error nothing but errors follows: no connection report, no search, no
\* server still to be heard of and no start of a transport.
ErrorLast(s) ==
    \A i, j \in DOMAIN s : i < j /\ s[i].kind = "error" => s[j].kind = "error"
ErrorInv ==
    /\ ErrorLast(notes) /\ ErrorLast(Taken)
    /\ ~NoneOf("error", Taken) => OnlyErrors(notes)
    /\ state = "error" => OnlyErrors(notes) /\ OnlyErrors(Taken)
    /\ state = "error" \/ ~NoneOf("error", notes) \/ ~NoneOf("error", Taken)
         => /\ netPc # "open" /\ ~Searching
            /\ NoneOf("discovered", notes) /\ NoneOf("discovered", Taken)

\* A mapping on its way, or applied, is the answer to a hello on the wire.  Before
\* the transport of a connection runs there is nothing of the kind.
HandshakeInv ==
    /\ mapped \/ answered => InSeq("hello", wire)
    /\ InSeq("mapping", down) => InSeq("hello", wire)
    /\ ~NoneOf("mapping", inbox) \/ ~NoneOf("mapping", drained)
         => InSeq("hello", wire)
    /\ netPc = "off" /\ ~At("reset") =>
         /\ ~mapped /\ readyEvents = 0 /\ ~readyFired
         /\ inbox = <<>> /\ (At("payloads") => drained = <<>>)

\* Readiness is reported once: it is lost only to a failure, which lasts as long
\* as the connection.
ReadyInv ==
    /\ readyEvents \in {0, 1}
    /\ readyFired => readyEvents = 1
    /\ state = "ready" => readyFired /\ mapped /\ synced
    /\ readyEvents = 1 /\ ~readyFired => connError

\* A connection reports its sockets once, and is still connecting when it does; so it
\* is while a server is looked for, before its answer is handled and before the
\* sockets are opened.
OneConnected(s) ==
    \A i, j \in DOMAIN s : s[i].kind = "connected" /\ s[j].kind = "connected" => i = j
Starting ==
    \/ Searching \/ netPc = "open"
    \/ ~NoneOf("discovered", notes) \/ ~NoneOf("discovered", Taken)
Reported == ~NoneOf("connected", notes) \/ ~NoneOf("connected", Taken)
ReportInv ==
    /\ OneConnected(notes) /\ OneConnected(Taken)
    /\ NoneOf("connected", notes) \/ NoneOf("connected", Taken)
    /\ Starting => ~Reported
    /\ Starting \/ Reported => state = "connecting"

\* What is known of the past from state_: the hello and the Ready event come after
\* the phases before them.  Only a call that is about to join the thread has told
\* it to stop, and connect() and poll() begin in states of their own.
PhaseInv ==
    /\ helloEnqueued \/ readyEvents > 0 => state \in {"synchronizing", "ready", "error"}
    /\ readyFired => state \in {"ready", "error"}
    /\ netPc # "off" /\ netStop => At("join")
    /\ call # Idle /\ call.op = "poll" => state # "disconnected"
    /\ call # Idle /\ call.op = "connect" => state \in {"disconnected", "error"}

\* The hellos of the connection that left the client.
Said == wire \o outbox
HelloInv ==
    netPc # "off" /\ ~netStop =>
        /\ expired \in {0, 1}
        /\ \A i, j \in DOMAIN Said : Said[i] = "hello" /\ Said[j] = "hello" => i = j
        /\ InSeq("hello", Said) => helloEnqueued /\ expired = 0
        /\ expired = 1 => helloEnqueued
        /\ helloEnqueued => InSeq("hello", Said) \/ expired = 1

SessionInv ==
    /\ TypeOK /\ CallInv /\ EpochInv /\ SearchInv /\ ErrorInv
    /\ HandshakeInv /\ ReadyInv /\ HelloInv /\ ReportInv /\ PhaseInv

-----------------------------------------------------------------------------
(* Types.                                                                  *)

\* A call that has begun goes on to another of its steps.
LEMMA CallMoves ==
    ASSUME call \in Calls, call # Idle, NEW s \in Steps,
           call.op \in {"connect", "disconnect"}
    PROVE  LET next == [call EXCEPT !.at = s]
           IN  next \in Calls /\ next # Idle /\ next.at = s /\ next.op = call.op
  BY DEF Calls, Idle, Steps

\* A poll that goes on to its next stage is still a call.
LEMMA PollMoves ==
    ASSUME call \in Calls, call # Idle,
           NEW s \in {"notes", "hello", "payloads", "ready"},
           call.op = "poll"
    PROVE  LET next == [call EXCEPT !.at = s]
           IN  next \in Calls /\ next # Idle /\ next.at = s /\ next.op = "poll"
  BY DEF Calls, Idle, Steps

\* The step of a call tells which call it is.
LEMMA CallAt ==
    ASSUME call \in Calls
    PROVE  /\ At("disc") \/ At("net") \/ At("join") \/ At("reset")
                => call # Idle /\ call.op \in {"connect", "disconnect"}
           /\ At("notes") \/ At("hello") \/ At("payloads") \/ At("ready")
                => call # Idle /\ call.op = "poll"
           /\ call # Idle =>
                call.at \in Steps \cup {"notes", "hello", "payloads", "ready"}
  BY DEF Calls, Idle, Steps, At

\* The empty queue is a queue of anything.
LEMMA EmptyQueues ==
    /\ <<>> \in Seq({"hello", "other"}) /\ <<>> \in Seq({"mapping", "sync", "other"})
    /\ <<>> \in Seq(Notes) /\ <<>> \in Seq(Messages)
    /\ Len(<<>>) = 0
  OBVIOUS

\* start_transport keeps the types of the transport and of its lanes.
LEMMA StartTransportType ==
    ASSUME TypeOK, NEW queued \in Seq(Notes), NEW e \in Nat,
           StartTransport(queued, e)
    PROVE  /\ notes' \in Seq(Notes)
           /\ outbox' = outbox
           /\ wire' \in Seq({"hello", "other"}) /\ expired' \in Nat
           /\ hostSends' \in 0..MaxSends
           /\ down' \in Seq({"mapping", "sync", "other"})
           /\ answered' \in BOOLEAN
           /\ netPc' \in {"off", "open", "openFailed", "loop", "loopFailed", "done"}
           /\ running' \in BOOLEAN /\ netStop' \in BOOLEAN
           /\ connError' \in BOOLEAN /\ netEpoch' \in Nat /\ errors' \in Nat
<1> USE DEF TypeOK
<1>1. CASE running \/ netPc # "off"
  BY <1>1 DEF StartTransport, netVars, laneVars, sentVars, QueueType, ThreadType
<1>2. CASE ~(running \/ netPc # "off")
  <2>1. Note("error", e) \in Notes
    BY DEF Note, Notes
  <2>2. notes' \in Seq(Notes)
    BY <1>2, <2>1 DEF StartTransport
  <2>3. /\ wire' = <<>> /\ expired' = 0 /\ hostSends' = 0 /\ down' = <<>>
        /\ answered' = FALSE /\ outbox' = outbox
    BY <1>2 DEF StartTransport
  <2>4. /\ netPc' \in {"off", "open"}
        /\ netEpoch' \in Nat /\ errors' \in Nat
    BY <1>2 DEF StartTransport, ThreadType
  <2>5. running' \in BOOLEAN /\ netStop' \in BOOLEAN /\ connError' \in BOOLEAN
    BY <1>2, Zenon DEF StartTransport, ThreadType
  <2>6. 0 \in 0..MaxSends
    BY BoundsAssumption
  <2> QED
    BY <2>2, <2>3, <2>4, <2>5, <2>6, EmptyQueues
<1> QED
  BY <1>1, <1>2

\* Every step preserves the types.
LEMMA TypeOKStep ==
    ASSUME TypeOK, [Next]_vars
    PROVE  TypeOK'
<1> USE DEF TypeOK, queueVars, clientVars, discVars, netVars, sentVars, laneVars
<1>a. /\ Idle \in Calls /\ [op |-> "disconnect", at |-> "disc"] \in Calls
      /\ [op |-> "poll", at |-> "notes"] \in Calls
      /\ \A way \in Ways : [op |-> "connect", way |-> way, at |-> "disc"] \in Calls
  BY DEF Calls, Idle, Steps
<1>b. call \in Calls
  BY DEF ClientType
<1>c. ASSUME NEW s \in Steps, At("disc") \/ At("net") \/ At("join")
      PROVE  [call EXCEPT !.at = s] \in Calls
  BY <1>b, <1>c, CallAt, CallMoves
<1>d. ASSUME NEW s \in {"hello", "payloads", "ready"},
             At("notes") \/ At("hello") \/ At("payloads")
      PROVE  [call EXCEPT !.at = s] \in Calls
  BY <1>b, <1>d, CallAt, PollMoves
<1>1. CASE (\E way \in Ways : Connect(way)) \/ Disconnect
  <2>1. ClientType'
    BY <1>1, <1>a DEF Connect, Disconnect, StopDiscovery, ClientType
  <2>2. QueueType'
    BY <1>1 DEF Connect, Disconnect, StopDiscovery, QueueType, At, Idle
  <2>3. ThreadType'
    BY <1>1, ZenonT(40) DEF Connect, Disconnect, StopDiscovery, ThreadType
  <2> QED
    BY <2>1, <2>2, <2>3
<1>2. CASE StopSteps
  <2>1. ClientType'
    BY <1>2, <1>c DEF StopSteps, JoinDiscovery, StopTransport, JoinTransport,
                      Steps, ClientType
  <2>2. QueueType'
    <3>1. ~At("notes") /\ ~At("notes")'
      BY <1>2, <1>b, CallAt, CallMoves
         DEF StopSteps, JoinDiscovery, StopTransport, JoinTransport, Steps, At
    <3>2. UNCHANGED outbox \/ outbox' = <<>>
      BY <1>2 DEF StopSteps, JoinDiscovery, StopTransport, JoinTransport
    <3>3. UNCHANGED <<queueVars, wire, hostSends, expired, down>>
      BY <1>2 DEF StopSteps, JoinDiscovery, StopTransport, JoinTransport
    <3>4. CASE UNCHANGED outbox
      BY <3>4, <3>1, <3>3 DEF QueueType
    <3>5. CASE outbox' = <<>>
      <4>1. outbox' \in Seq({"hello", "other"})
        BY <3>5
      <4>2. Len(outbox') <= OutboxMax
        BY <3>5, LimitsAssumption
      <4> QED
      BY <3>1, <3>3, <4>1, <4>2 DEF QueueType
    <3> QED
      BY <3>2, <3>4, <3>5
  <2>3. ThreadType'
    BY <1>2, ZenonT(40) DEF StopSteps, JoinDiscovery, StopTransport, JoinTransport, ThreadType
  <2> QED
    BY <2>1, <2>2, <2>3
<1>3. CASE FinishCall
  <2>0. ~At("notes") /\ ~At("notes")' /\ call' = Idle
    BY <1>3, <1>b, CallAt
       DEF FinishCall, ConnectByAddress, ConnectByDiscovery, ConnectNowhere,
           FinishDisconnect, At, Idle
  <2>1. ClientType'
    <3>1. ResetSessionState /\ reported' = reported
      BY <1>3 DEF FinishCall, ConnectByAddress, ConnectByDiscovery,
                  ConnectNowhere, FinishDisconnect
    <3>2. state' \in States /\ epoch' \in {epoch, epoch + 1}
      BY <1>3 DEF FinishCall, ConnectByAddress, ConnectByDiscovery,
                  ConnectNowhere, FinishDisconnect, States
    <3>3. epoch' \in Nat /\ timer' \in Nat \cup {None} /\ readyEvents' \in Nat
      BY <3>1, <3>2 DEF ResetSessionState, ClientType
    <3> QED
      BY <1>a, <2>0, <3>1, <3>2, <3>3, Zenon DEF ResetSessionState, ClientType
  <2>2. CASE ConnectByAddress
    <3>1. StartTransport(<<>>, epoch + 1) /\ inbox' = <<>> /\ drained' = drained
          /\ UNCHANGED discVars
      BY <2>2 DEF ConnectByAddress, ResetSessionState
    <3>2. epoch + 1 \in Nat
      BY DEF ClientType
    <3>3. inbox' \in Seq(Messages) /\ Len(inbox') <= InboxMax
      BY <3>1, LimitsAssumption
    <3>4. QueueType'
      BY <2>0, <3>1, <3>2, <3>3, EmptyQueues, StartTransportType DEF QueueType
    <3>5. ThreadType'
      BY <3>1, <3>2, EmptyQueues, StartTransportType DEF ThreadType
    <3> QED
      BY <2>1, <3>4, <3>5
  <2>3. CASE ConnectByDiscovery \/ ConnectNowhere \/ FinishDisconnect
    <3>1. inbox' = <<>> /\ notes' = <<>> /\ drained' = drained
          /\ UNCHANGED <<netVars, laneVars>>
      BY <2>3 DEF ConnectByDiscovery, ConnectNowhere, FinishDisconnect,
                  ResetSessionState
    <3>2. /\ inbox' \in Seq(Messages) /\ Len(inbox') <= InboxMax
          /\ notes' \in Seq(Notes)
      BY <3>1, LimitsAssumption
    <3>3. QueueType'
      BY <2>0, <3>1, <3>2 DEF QueueType
    <3>4. ThreadType'
      <4>1. CASE UNCHANGED discVars
        BY <3>1, <4>1 DEF ThreadType
      <4>2. CASE /\ discStop' = FALSE /\ discovering' = TRUE
                 /\ discPc' = "localhost" /\ discEpoch' = epoch + 1
        <5>1. discEpoch' \in Nat
          BY <4>2 DEF ClientType
        <5> QED
          BY <3>1, <4>2, <5>1, Zenon DEF ThreadType
      <4> QED
        BY <2>3, <4>1, <4>2 DEF ConnectByDiscovery, ConnectNowhere, FinishDisconnect
    <3> QED
      BY <2>1, <3>3, <3>4
  <2> QED
    BY <1>3, <2>2, <2>3 DEF FinishCall
<1>4. CASE PollBegin
  <2>1. ClientType' /\ ThreadType'
    BY <1>4, <1>a DEF PollBegin, ClientType, ThreadType
  <2>2. At("notes")'
    BY <1>4 DEF PollBegin, At, Idle
  <2>3. QueueType'
    BY <1>4, <2>2, EmptyQueues DEF PollBegin, QueueType
  <2> QED
    BY <2>1, <2>3
<1>5. CASE PollSteps
  <2>1. CASE PollNote
    <3>1. /\ At("notes") /\ At("notes")' /\ drained # <<>>
          /\ drained \in Seq(Notes) /\ drained' = Tail(drained)
      BY <2>1 DEF PollNote, QueueType, At
    <3>2. Head(drained) \in Notes /\ drained' \in Seq(Notes)
      BY <3>1
    <3>3. CASE Head(drained).kind = "discovered"
      <4>1. StartTransport(notes, epoch)
        BY <2>1, <3>3 DEF PollNote
      <4>2. epoch \in Nat /\ notes \in Seq(Notes)
        BY DEF ClientType, QueueType
      <4>3. QueueType'
        BY <2>1, <3>1, <3>2, <4>1, <4>2, StartTransportType DEF PollNote, QueueType
      <4>4. ThreadType'
        BY <2>1, <4>1, <4>2, StartTransportType DEF PollNote, ThreadType
      <4>5. ClientType'
        BY <2>1, <3>3 DEF PollNote, ClientType
      <4> QED
        BY <4>3, <4>4, <4>5
    <3>4. CASE Head(drained).kind # "discovered"
      <4>1. Head(drained).kind \in States
        BY <3>2, <3>4 DEF Notes, States
      <4>2. ClientType'
        BY <2>1, <3>4, <4>1 DEF PollNote, SetState, ClientType
      <4>3. QueueType' /\ ThreadType'
        BY <2>1, <3>1, <3>2, <3>4 DEF PollNote, QueueType, ThreadType
      <4> QED
        BY <4>2, <4>3
    <3> QED
      BY <3>3, <3>4
  <2>2. CASE PollNotesDone \/ PollPayloadsDone
    <3>1. ClientType' /\ ThreadType'
      BY <2>2, <1>d DEF PollNotesDone, PollPayloadsDone, ClientType, ThreadType
    <3>2. drained' = <<>>
      BY <2>2 DEF PollNotesDone, PollPayloadsDone
    <3>3. QueueType'
      BY <2>2, <3>2, EmptyQueues DEF PollNotesDone, PollPayloadsDone, QueueType
    <3> QED
      BY <3>1, <3>3
  <2>3. CASE PollHello
    <3>1. ~At("notes")'
      BY <2>3, <1>b, CallAt, PollMoves DEF PollHello, At
    <3>2. /\ outbox' \in Seq({"hello", "other"})
          /\ Len(outbox') <= OutboxMax
      <4>1. CASE outbox' = outbox
        BY <4>1 DEF QueueType
      <4>2. CASE CanEnqueue /\ outbox' = Append(outbox, "hello")
        BY <4>2, LimitsAssumption DEF CanEnqueue, QueueType
      <4> QED
        BY <2>3, <4>1, <4>2 DEF PollHello
    <3>3. inbox' = <<>> /\ drained' = inbox
      BY <2>3 DEF PollHello
    <3>4. inbox' \in Seq(Messages) /\ Len(inbox') <= InboxMax
      BY <3>3, LimitsAssumption
    <3>5. QueueType'
      BY <2>3, <3>1, <3>2, <3>3, <3>4 DEF PollHello, QueueType
    <3>6. ClientType'
      BY <2>3, <1>d, LimitsAssumption, ZenonT(40) DEF PollHello, SetState, ClientType, States
    <3>7. ThreadType'
      BY <2>3 DEF PollHello, ThreadType
    <3> QED
      BY <3>5, <3>6, <3>7
  <2>4. CASE PollPayload
    <3>1. ~At("notes") /\ ~At("notes")'
      BY <2>4 DEF PollPayload, At
    <3>2. drained' \in Seq(Messages)
      BY <2>4, <3>1 DEF PollPayload, QueueType
    <3>3. QueueType'
      BY <2>4, <3>1, <3>2 DEF PollPayload, QueueType
    <3>4. ClientType' /\ ThreadType'
      BY <2>4 DEF PollPayload, ClientType, ThreadType
    <3> QED
      BY <3>3, <3>4
  <2>5. CASE PollReady
    <3>1. ~At("notes") /\ ~At("notes")'
      BY <2>5 DEF PollReady, At, Idle
    <3>2. QueueType'
      BY <2>5, <3>1 DEF PollReady, QueueType
    <3>3. ThreadType'
      BY <2>5 DEF PollReady, ThreadType
    <3>4. ClientType'
      <4>1. state' \in States /\ reported' \in States /\ readyEvents' \in Nat
        BY <2>5 DEF PollReady, UpdateReady, SetState, ClientType, States
      <4>2. readyFired' \in BOOLEAN /\ synced' \in BOOLEAN
        BY <2>5, Zenon DEF PollReady, UpdateReady, SetState, ClientType
      <4> QED
        BY <2>5, <1>a, <4>1, <4>2 DEF PollReady, ClientType
    <3> QED
      BY <3>2, <3>3, <3>4
  <2> QED
    BY <1>5, <2>1, <2>2, <2>3, <2>4, <2>5 DEF PollSteps
<1>6. CASE HostSends \/ Time
  <2>1. CASE HostSends
    <3>1. /\ outbox' \in Seq({"hello", "other"}) /\ Len(outbox') <= OutboxMax
          /\ hostSends' \in 0..MaxSends
      BY <2>1, LimitsAssumption, BoundsAssumption DEF HostSends, CanEnqueue, QueueType
    <3> QED
      BY <2>1, <3>1 DEF HostSends, QueueType, ClientType, ThreadType, At
  <2>2. CASE Time
    <3>1. ClientType'
      BY <2>2 DEF Time, ClientType
    <3> QED
      BY <2>2, <3>1 DEF Time, QueueType, ThreadType, At
  <2> QED
    BY <1>6, <2>1, <2>2
<1>7. CASE DiscFound \/ DiscMiss
  <2>1. Note("discovered", discEpoch) \in Notes
    BY DEF Note, Notes, ThreadType
  <2>2. notes' \in Seq(Notes)
    <3>1. notes' \in {notes, Append(notes, Note("discovered", discEpoch))}
      BY <1>7 DEF DiscFound, DiscMiss
    <3>2. notes \in Seq(Notes)
      BY DEF QueueType
    <3> QED
      BY <2>1, <3>1, <3>2
  <2>3. QueueType'
    BY <1>7, <2>2 DEF DiscFound, DiscMiss, QueueType, At
  <2>4. discPc' \in {"off", "localhost", "cached", "broadcast", "done"}
    BY <1>7 DEF DiscFound, DiscMiss, ThreadType
  <2>5. discovering' \in BOOLEAN
    BY <1>7, Zenon DEF DiscFound, DiscMiss, ThreadType
  <2>6. ThreadType' /\ ClientType'
    BY <1>7, <2>4, <2>5 DEF DiscFound, DiscMiss, ThreadType, ClientType
  <2> QED
    BY <2>3, <2>6
<1>8. CASE NetNext
  <2>0. /\ Note("error", netEpoch) \in Notes
        /\ Note("connected", netEpoch) \in Notes
    BY DEF Note, Notes, ThreadType
  <2>1. CASE NetOpen \/ NetFail \/ NetReport \/ NetStopped
    <3>1. notes' \in Seq(Notes)
      <4>1. notes' \in {notes, Append(notes, Note("error", netEpoch)),
                        Append(notes, Note("connected", netEpoch))}
        BY <2>1 DEF NetOpen, NetFail, NetReport, NetStopped
      <4>2. notes \in Seq(Notes)
        BY DEF QueueType
      <4> QED
        BY <2>0, <4>1, <4>2
    <3>2. QueueType'
      BY <2>1, <3>1 DEF NetOpen, NetFail, NetReport, NetStopped, QueueType, At
    <3>3. ClientType'
      BY <2>1 DEF NetOpen, NetFail, NetReport, NetStopped, ClientType
    <3>4. ThreadType'
      <4>1. /\ netPc' \in {"loop", "openFailed", "loopFailed", "done"}
            /\ errors' \in Nat
        BY <2>1 DEF NetOpen, NetFail, NetReport, NetStopped, ThreadType
      <4>2. connError' \in BOOLEAN
        BY <2>1, Zenon DEF NetOpen, NetFail, NetReport, NetStopped, ThreadType
      <4>3. UNCHANGED <<discVars, running, netStop, netEpoch, answered>>
        BY <2>1 DEF NetOpen, NetFail, NetReport, NetStopped
      <4> QED
        BY <4>1, <4>2, <4>3 DEF ThreadType
    <3> QED
      BY <3>2, <3>3, <3>4
  <2>2. CASE NetSend \/ NetExpire
    <3>a. /\ outbox # <<>> /\ outbox' = Tail(outbox)
          /\ wire' \in {wire, Append(wire, Head(outbox))}
          /\ expired' \in {expired, expired + 0, expired + 1}
      BY <2>2 DEF NetSend, NetExpire
    <3>b. /\ outbox \in Seq({"hello", "other"}) /\ Len(outbox) <= OutboxMax
          /\ wire \in Seq({"hello", "other"}) /\ expired \in Nat
      BY DEF QueueType
    <3>1. /\ Head(outbox) \in {"hello", "other"}
          /\ outbox' \in Seq({"hello", "other"}) /\ Len(outbox') <= OutboxMax
      BY <3>a, <3>b, LimitsAssumption
    <3>2. wire' \in Seq({"hello", "other"})
      <4>1. CASE wire' = wire
        BY <3>b, <4>1
      <4>2. CASE wire' = Append(wire, Head(outbox))
        BY <3>b, <3>1, <4>2
      <4> QED
        BY <3>a, <4>1, <4>2
    <3>c. expired' \in Nat
      BY <3>a, <3>b
    <3>3. QueueType'
      BY <2>2, <3>1, <3>2, <3>c DEF NetSend, NetExpire, QueueType, At
    <3>4. ClientType' /\ ThreadType'
      BY <2>2 DEF NetSend, NetExpire, ClientType, ThreadType
    <3> QED
      BY <3>3, <3>4
  <2>3. CASE NetReceive
    <3> DEFINE m == [kind |-> Head(down), epoch |-> netEpoch]
    <3>1. Head(down) \in {"mapping", "sync", "other"}
          /\ down' \in Seq({"mapping", "sync", "other"})
      BY <2>3 DEF NetReceive, QueueType
    <3>2. m \in Messages
      BY <3>1 DEF Messages, ThreadType
    <3>3. \/ Len(inbox) >= InboxMax /\ inbox' = Append(Tail(inbox), m)
          \/ ~(Len(inbox) >= InboxMax) /\ inbox' = Append(inbox, m)
      BY <2>3 DEF NetReceive
    <3> HIDE DEF m
    <3>4. inbox' \in Seq(Messages) /\ Len(inbox') <= InboxMax
      <4>1. CASE Len(inbox) >= InboxMax
        <5>1. inbox # <<>>
          BY <4>1, LimitsAssumption
        <5>2. inbox \in Seq(Messages) /\ Len(inbox) <= InboxMax
          BY DEF QueueType
        <5>3. inbox' = Append(Tail(inbox), m)
          BY <3>3, <4>1
        <5> QED
          BY <3>2, <5>1, <5>2, <5>3, LimitsAssumption
      <4>2. CASE ~(Len(inbox) >= InboxMax)
        <5>1. inbox \in Seq(Messages) /\ inbox' = Append(inbox, m)
          BY <3>3, <4>2 DEF QueueType
        <5> QED
          BY <3>2, <4>2, <5>1, LimitsAssumption
      <4> QED
        BY <4>1, <4>2
    <3>5. QueueType'
      BY <2>3, <3>1, <3>4 DEF NetReceive, QueueType, At
    <3>6. ClientType' /\ ThreadType'
      <4>1. UNCHANGED <<call, state, reported, helloEnqueued, mapped, synced,
                        timer, readyFired, readyEvents, discVars, netVars,
                        answered, epoch>>
        BY <2>3 DEF NetReceive
      <4>2. dropped' \in BOOLEAN
        BY <2>3, Zenon DEF NetReceive, ClientType
      <4> QED
        BY <4>1, <4>2 DEF ClientType, ThreadType
    <3> QED
      BY <3>5, <3>6
  <2> QED
    BY <1>8, <2>1, <2>2, <2>3 DEF NetNext
<1>9. CASE ServerAnswers \/ ServerSends
  <2>0. down' \in {Append(down, "mapping"), down \o <<"mapping", "sync">>,
                   Append(down, "other")}
    BY <1>9 DEF ServerAnswers, ServerSends
  <2>1. down' \in Seq({"mapping", "sync", "other"})
    <3>1. down \in Seq({"mapping", "sync", "other"})
      BY DEF QueueType
    <3>2. <<"mapping", "sync">> \in Seq({"mapping", "sync", "other"})
      OBVIOUS
    <3> QED
      BY <2>0, <3>1, <3>2, SMTT(40)
  <2>2. QueueType'
    BY <1>9, <2>1 DEF ServerAnswers, ServerSends, QueueType, At
  <2>3. ClientType' /\ ThreadType'
    <3>1. UNCHANGED <<call, clientVars, discVars, netVars, epoch>>
      BY <1>9 DEF ServerAnswers, ServerSends
    <3>2. answered' \in BOOLEAN
      BY <1>9, Zenon DEF ServerAnswers, ServerSends, ThreadType
    <3> QED
      BY <3>1, <3>2 DEF ClientType, ThreadType
  <2> QED
    BY <2>2, <2>3
<1>10. CASE UNCHANGED vars
  BY <1>10 DEF vars, ClientType, QueueType, ThreadType, At
<1> QED
  BY <1>1, <1>2, <1>3, <1>4, <1>5, <1>6, <1>7, <1>8, <1>9, <1>10 DEF Next, HostNext

-----------------------------------------------------------------------------
(* Queues of notifications and payloads.                                   *)

\* The entries of a queue to which one is appended, and of one that loses its
\* head.
LEMMA AppendEntries ==
    ASSUME NEW S, NEW s \in Seq(S), NEW x \in S
    PROVE  /\ Append(s, x) \in Seq(S) /\ Append(s, x) # <<>>
           /\ DOMAIN Append(s, x) = DOMAIN s \cup {Len(s) + 1}
           /\ \A i \in DOMAIN s : Append(s, x)[i] = s[i]
           /\ Append(s, x)[Len(s) + 1] = x
           /\ \A i \in DOMAIN s : i < Len(s) + 1
  OBVIOUS

\* The entries of a queue whose front was taken.
LEMMA TailEntries ==
    ASSUME NEW S, NEW s \in Seq(S), s # <<>>
    PROVE  /\ Tail(s) \in Seq(S)
           /\ \A i \in DOMAIN Tail(s) : i + 1 \in DOMAIN s /\ Tail(s)[i] = s[i + 1]
           /\ \A i \in DOMAIN s : i = 1 \/ i - 1 \in DOMAIN Tail(s)
           /\ 1 \in DOMAIN s /\ Head(s) = s[1]
           /\ DOMAIN s \subseteq Nat
  OBVIOUS

\* What a note that is pushed does to the facts about all notes.
LEMMA OnAppend ==
    ASSUME NEW S, NEW s \in Seq(S), NEW x \in S, NEW e, NEW kind
    PROVE  /\ AllOf(e, Append(s, x)) <=> AllOf(e, s) /\ x.epoch = e
           /\ NoneOf(kind, Append(s, x)) <=> NoneOf(kind, s) /\ x.kind # kind
           /\ OnlyErrors(Append(s, x)) <=> OnlyErrors(s) /\ x.kind = "error"
           /\ OneDiscovered(s) /\ (x.kind = "discovered" => NoneOf("discovered", s))
                => OneDiscovered(Append(s, x))
           /\ ErrorLast(s) /\ (x.kind = "error" \/ NoneOf("error", s))
                => ErrorLast(Append(s, x))
<1> DEFINE t == Append(s, x)
<1>1. /\ DOMAIN t = DOMAIN s \cup {Len(s) + 1}
      /\ \A i \in DOMAIN s : t[i] = s[i]
      /\ t[Len(s) + 1] = x
      /\ \A i \in DOMAIN s : i < Len(s) + 1
      /\ ~(Len(s) + 1 < Len(s) + 1)
      /\ \A i \in DOMAIN s : ~(Len(s) + 1 < i)
  OBVIOUS
<1> HIDE DEF t
<1>2. AllOf(e, t) <=> AllOf(e, s) /\ x.epoch = e
  BY <1>1 DEF AllOf
<1>3. NoneOf(kind, t) <=> NoneOf(kind, s) /\ x.kind # kind
  BY <1>1 DEF NoneOf
<1>4. OnlyErrors(t) <=> OnlyErrors(s) /\ x.kind = "error"
  BY <1>1 DEF OnlyErrors
<1>5. OneDiscovered(s) /\ (x.kind = "discovered" => NoneOf("discovered", s))
        => OneDiscovered(t)
  BY <1>1 DEF OneDiscovered, NoneOf
<1>6. ErrorLast(s) /\ (x.kind = "error" \/ NoneOf("error", s)) => ErrorLast(t)
  BY <1>1 DEF ErrorLast, NoneOf
<1> QED
  BY <1>2, <1>3, <1>4, <1>5, <1>6 DEF t

\* What a note that is taken does to them.
LEMMA OnTail ==
    ASSUME NEW S, NEW s \in Seq(S), s # <<>>, NEW e, NEW kind
    PROVE  /\ AllOf(e, s) => AllOf(e, Tail(s)) /\ Head(s).epoch = e
           /\ NoneOf(kind, s) <=> NoneOf(kind, Tail(s)) /\ Head(s).kind # kind
           /\ OnlyErrors(s) <=> OnlyErrors(Tail(s)) /\ Head(s).kind = "error"
           /\ OneDiscovered(s) =>
                /\ OneDiscovered(Tail(s))
                /\ Head(s).kind = "discovered" => NoneOf("discovered", Tail(s))
           /\ ErrorLast(s) =>
                /\ ErrorLast(Tail(s))
                /\ Head(s).kind = "error" => OnlyErrors(Tail(s))
<1> DEFINE t == Tail(s)
<1>1. /\ \A i \in DOMAIN t : i + 1 \in DOMAIN s /\ t[i] = s[i + 1] /\ i \in Nat /\ i > 0
      /\ \A i \in DOMAIN s : i = 1 \/ (i - 1 \in DOMAIN t /\ t[i - 1] = s[i])
      /\ 1 \in DOMAIN s /\ Head(s) = s[1]
  OBVIOUS
<1> HIDE DEF t
<1>2. AllOf(e, s) => AllOf(e, t) /\ Head(s).epoch = e
  BY <1>1 DEF AllOf
<1>3. NoneOf(kind, s) <=> NoneOf(kind, t) /\ Head(s).kind # kind
  BY <1>1 DEF NoneOf
<1>4. OnlyErrors(s) <=> OnlyErrors(t) /\ Head(s).kind = "error"
  BY <1>1 DEF OnlyErrors
<1>5. OneDiscovered(s) =>
        OneDiscovered(t) /\ (Head(s).kind = "discovered" => NoneOf("discovered", t))
  BY <1>1 DEF OneDiscovered, NoneOf
<1>6. ErrorLast(s) =>
        ErrorLast(t) /\ (Head(s).kind = "error" => OnlyErrors(t))
  BY <1>1 DEF ErrorLast, OnlyErrors
<1> QED
  BY <1>2, <1>3, <1>4, <1>5, <1>6 DEF t

\* They hold of no notes.
LEMMA OnEmpty ==
    ASSUME NEW e, NEW kind
    PROVE  /\ AllOf(e, <<>>) /\ NoneOf(kind, <<>>) /\ OnlyErrors(<<>>)
           /\ OneDiscovered(<<>>) /\ ErrorLast(<<>>)
  BY DEF AllOf, NoneOf, OnlyErrors, OneDiscovered, ErrorLast

-----------------------------------------------------------------------------
(* The steps of the invariant, one conjunct at a time.                     *)

\* The joins come before the reset, and a transport that is off is off.
LEMMA CallInvStep ==
    ASSUME TypeOK, CallInv, [Next]_vars
    PROVE  CallInv'
<1> USE DEF queueVars, clientVars, discVars, netVars, sentVars, laneVars
<1>a. call \in Calls
  BY DEF TypeOK, ClientType
<1>1. CASE (\E way \in Ways : Connect(way)) \/ Disconnect
  <2>1. At("disc")'
    BY <1>1 DEF Connect, Disconnect, At, Idle
  <2> QED
    BY <1>1, <2>1 DEF Connect, Disconnect, StopDiscovery, CallInv, At
<1>2. CASE JoinDiscovery
  <2>1. At("disc") /\ At("net")'
    BY <1>a, <1>2, CallAt, CallMoves DEF JoinDiscovery, At, Steps
  <2> QED
    BY <1>2, <2>1 DEF JoinDiscovery, CallInv, At
<1>3. CASE StopTransport
  <2>1. /\ At("net") 
        /\ netPc = "off" => At("reset")'
        /\ netPc # "off" => At("join")'
    BY <1>a, <1>3, CallAt, CallMoves DEF StopTransport, At, Steps
  <2> QED
    BY <1>3, <2>1 DEF StopTransport, CallInv, At
<1>4. CASE JoinTransport
  <2>1. At("join") /\ At("reset")'
    BY <1>a, <1>4, CallAt, CallMoves DEF JoinTransport, At, Steps
  <2> QED
    BY <1>4, <2>1 DEF JoinTransport, CallInv, At
<1>5. CASE FinishCall
  <2>1. At("reset") /\ call' = Idle /\ drained' = drained
    BY <1>5 DEF FinishCall, ConnectByAddress, ConnectByDiscovery,
                ConnectNowhere, FinishDisconnect
  <2>2. netPc = "off" /\ ~running /\ outbox = <<>> /\ drained = <<>>
    BY <2>1 DEF CallInv, At
  <2>3. outbox' = outbox /\ (netPc' = "off" => ~running') /\ (netPc' # "off" => running')
    BY <1>5, <2>2 DEF FinishCall, ConnectByAddress, ConnectByDiscovery,
                ConnectNowhere, FinishDisconnect, StartTransport
  <2> QED
    BY <2>1, <2>2, <2>3 DEF CallInv, At
<1>6. CASE PollBegin
  <2>1. At("notes")'
    BY <1>6 DEF PollBegin, At, Idle
  <2> QED
    BY <1>6, <2>1 DEF PollBegin, CallInv, At
<1>7. CASE PollNote
  <2>1. At("notes") /\ call' = call
    BY <1>7 DEF PollNote
  <2>2. outbox' = outbox
        /\ ((netPc = "off" <=> ~running) => (netPc' = "off" <=> ~running'))
        /\ (netPc' = "off" => netPc = "off")
    BY <1>7 DEF PollNote, StartTransport
  <2> QED
    BY <2>1, <2>2 DEF CallInv, At
<1>8. CASE PollNotesDone \/ PollPayloadsDone
  <2>1. drained = <<>> /\ (At("hello")' \/ At("ready")')
    BY <1>a, <1>8, CallAt, PollMoves DEF PollNotesDone, PollPayloadsDone, At
  <2> QED
    BY <1>8, <2>1 DEF PollNotesDone, PollPayloadsDone, CallInv, At
<1>9. CASE PollHello
  <2>1. At("hello") /\ At("payloads")'
    BY <1>a, <1>9, CallAt, PollMoves DEF PollHello, At
  <2>2. UNCHANGED <<netPc, running, discovering, discPc>>
        /\ (netPc = "off" => outbox' = outbox)
    BY <1>9 DEF PollHello, CanEnqueue, CallInv
  <2> QED
    BY <2>1, <2>2 DEF CallInv, At
<1>10. CASE PollPayload
  BY <1>10 DEF PollPayload, CallInv, At
<1>11. CASE PollReady
  BY <1>11 DEF PollReady, CallInv, At, Idle
<1>12. CASE HostSends \/ Time
  BY <1>12 DEF HostSends, Time, CanEnqueue, CallInv, At
<1>13. CASE DiscFound \/ DiscMiss
  BY <1>13 DEF DiscFound, DiscMiss, CallInv, At
<1>14. CASE NetNext
  <2>1. netPc # "off" /\ netPc' # "off" /\ UNCHANGED <<call, drained, running, netStop, discVars>>
    BY <1>14 DEF NetNext, NetOpen, NetFail, NetReport, NetSend, NetExpire,
                 NetReceive, NetStopped
  <2>2. outbox = <<>> => outbox' = <<>>
    BY <1>14 DEF NetNext, NetOpen, NetFail, NetReport, NetSend, NetExpire,
                 NetReceive, NetStopped
  <2> QED
    BY <2>1, <2>2 DEF CallInv, At
<1>15. CASE ServerAnswers \/ ServerSends
  BY <1>15 DEF ServerAnswers, ServerSends, CallInv, At
<1>16. CASE UNCHANGED vars
  BY <1>16 DEF vars, CallInv, At
<1> QED
  BY <1>1, <1>2, <1>3, <1>4, <1>5, <1>6, <1>7, <1>8, <1>9, <1>10, <1>11,
     <1>12, <1>13, <1>14, <1>15, <1>16
     DEF Next, HostNext, StopSteps, PollSteps

\* The threads and what they push belong to the present connection.
LEMMA EpochStep ==
    ASSUME TypeOK, CallInv, EpochInv, [Next]_vars
    PROVE  EpochInv'
<1> USE DEF queueVars, clientVars, discVars, netVars, sentVars, laneVars
<1>a. /\ notes \in Seq(Notes) /\ inbox \in Seq(Messages)
      /\ At("notes") => drained \in Seq(Notes)
      /\ ~At("notes") => drained \in Seq(Messages)
      /\ call \in Calls /\ epoch \in Nat
  BY DEF TypeOK, QueueType, ClientType
<1>1. CASE (\E way \in Ways : Connect(way)) \/ Disconnect
  BY <1>1 DEF Connect, Disconnect, StopDiscovery, EpochInv
<1>2. CASE StopSteps
  BY <1>2 DEF StopSteps, JoinDiscovery, StopTransport, JoinTransport, EpochInv
<1>3. CASE FinishCall
  <2>1. /\ At("reset") /\ inbox' = <<>> /\ drained' = drained
        /\ discPc = "off" /\ netPc = "off" /\ drained = <<>>
    BY <1>3 DEF FinishCall, ConnectByAddress, ConnectByDiscovery, ConnectNowhere,
                FinishDisconnect, ResetSessionState, CallInv, At
  <2>2. /\ discPc' # "off" => discEpoch' = epoch'
        /\ netPc' # "off" => netEpoch' = epoch'
        /\ notes' = <<>> \/ notes' = Append(<<>>, Note("error", epoch'))
    BY <1>3, <2>1 DEF FinishCall, ConnectByAddress, ConnectByDiscovery,
                      ConnectNowhere, FinishDisconnect, StartTransport
  <2>3. AllOf(epoch', Append(<<>>, Note("error", epoch')))
    BY DEF AllOf, Note
  <2> QED
    BY <2>1, <2>2, <2>3, OnEmpty DEF EpochInv
<1>4. CASE PollBegin
  BY <1>4, OnEmpty DEF PollBegin, EpochInv
<1>5. CASE PollNote
  <2>1. /\ At("notes") /\ drained # <<>> /\ drained' = Tail(drained)
        /\ UNCHANGED <<inbox, epoch, discVars>>
    BY <1>5 DEF PollNote
  <2>2. netPc' # "off" => netEpoch' = epoch
    BY <1>5 DEF PollNote, StartTransport, EpochInv
  <2>3. AllOf(epoch, notes')
    <3>1. notes' = notes \/ notes' = Append(notes, Note("error", epoch))
      BY <1>5 DEF PollNote, StartTransport
    <3>2. Note("error", epoch) \in Notes /\ Note("error", epoch).epoch = epoch
      BY <1>a DEF Note, Notes
    <3>3. AllOf(epoch, Append(notes, Note("error", epoch)))
      BY <1>a, <3>2, OnAppend DEF EpochInv
    <3> QED
      BY <3>1, <3>3 DEF EpochInv
  <2>4. AllOf(epoch, drained')
    BY <1>a, <2>1, OnTail DEF EpochInv
  <2> QED
    BY <2>1, <2>2, <2>3, <2>4 DEF EpochInv
<1>6. CASE PollHello
  BY <1>6, OnEmpty DEF PollHello, EpochInv
<1>7. CASE PollPayload
  <2>1. AllOf(epoch, drained')
    BY <1>a, <1>7, OnTail DEF PollPayload, EpochInv, At
  <2> QED
    BY <1>7, <2>1 DEF PollPayload, EpochInv
<1>8. CASE PollNotesDone \/ PollPayloadsDone \/ PollReady
  BY <1>8 DEF PollNotesDone, PollPayloadsDone, PollReady, EpochInv
<1>9. CASE HostSends \/ Time
  BY <1>9 DEF HostSends, Time, EpochInv
<1>10. CASE DiscFound \/ DiscMiss
  <2>1. Note("discovered", discEpoch) \in Notes
        /\ Note("discovered", discEpoch).epoch = discEpoch
    BY DEF Note, Notes, TypeOK, ThreadType
  <2>2. UNCHANGED <<epoch, discEpoch, netVars, inbox, drained>> /\ discPc # "off"
    BY <1>10 DEF DiscFound, DiscMiss
  <2>3. notes' \in {notes, Append(notes, Note("discovered", discEpoch))}
    BY <1>10 DEF DiscFound, DiscMiss
  <2>4. AllOf(epoch, notes')
    <3>1. AllOf(epoch, Append(notes, Note("discovered", discEpoch)))
      BY <1>a, <2>1, <2>2, OnAppend DEF EpochInv
    <3> QED
      BY <2>3, <3>1 DEF EpochInv
  <2> QED
    BY <2>2, <2>4 DEF EpochInv
<1>11. CASE NetNext
  <2>1. /\ UNCHANGED <<epoch, netEpoch, discVars, drained>> /\ netPc # "off"
    BY <1>11 DEF NetNext, NetOpen, NetFail, NetReport, NetSend, NetExpire,
                 NetReceive, NetStopped
  <2>2. /\ Note("error", netEpoch) \in Notes /\ Note("connected", netEpoch) \in Notes
        /\ Note("error", netEpoch).epoch = epoch /\ Note("connected", netEpoch).epoch = epoch
    BY <2>1 DEF Note, Notes, TypeOK, ThreadType, EpochInv
  <2>3. AllOf(epoch, notes')
    <3>1. notes' \in {notes, Append(notes, Note("error", netEpoch)),
                      Append(notes, Note("connected", netEpoch))}
      BY <1>11 DEF NetNext, NetOpen, NetFail, NetReport, NetSend, NetExpire,
                   NetReceive, NetStopped
    <3>2. AllOf(epoch, Append(notes, Note("error", netEpoch)))
      BY <1>a, <2>2, OnAppend DEF EpochInv
    <3>3. AllOf(epoch, Append(notes, Note("connected", netEpoch)))
      BY <1>a, <2>2, OnAppend DEF EpochInv
    <3> QED
      BY <3>1, <3>2, <3>3 DEF EpochInv
  <2>4. AllOf(epoch, inbox')
    <3>1. CASE inbox' = inbox
      BY <3>1 DEF EpochInv
    <3>2. CASE NetReceive
      <4> DEFINE m == [kind |-> Head(down), epoch |-> netEpoch]
      <4>1. m \in Messages /\ m.epoch = epoch
        BY <3>2, <2>1 DEF Messages, NetReceive, TypeOK, ThreadType, QueueType, EpochInv
      <4>2. \/ Len(inbox) >= InboxMax /\ inbox' = Append(Tail(inbox), m)
            \/ inbox' = Append(inbox, m)
        BY <3>2 DEF NetReceive
      <4> HIDE DEF m
      <4>3. CASE Len(inbox) >= InboxMax /\ inbox' = Append(Tail(inbox), m)
        <5>1. inbox # <<>>
          BY <4>3, LimitsAssumption
        <5>2. Tail(inbox) \in Seq(Messages) /\ AllOf(epoch, Tail(inbox))
          BY <1>a, <5>1, OnTail, TailEntries DEF EpochInv
        <5> QED
          BY <4>1, <4>3, <5>2, OnAppend
      <4>4. CASE inbox' = Append(inbox, m)
        BY <1>a, <4>1, <4>4, OnAppend DEF EpochInv
      <4> QED
        BY <4>2, <4>3, <4>4
    <3> QED
      BY <1>11, <3>1, <3>2 DEF NetNext, NetOpen, NetFail, NetReport, NetSend,
                               NetExpire, NetStopped
  <2> QED
    BY <2>1, <2>3, <2>4 DEF EpochInv
<1>12. CASE ServerAnswers \/ ServerSends
  BY <1>12 DEF ServerAnswers, ServerSends, EpochInv
<1>13. CASE UNCHANGED vars
  BY <1>13 DEF vars, EpochInv
<1> QED
  BY <1>1, <1>2, <1>3, <1>4, <1>5, <1>6, <1>7, <1>8, <1>9, <1>10, <1>11,
     <1>12, <1>13 DEF Next, HostNext, PollSteps

\* Only poll() itself moves the notifications it has swapped out.
LEMMA TakenStep ==
    ASSUME TypeOK, CallInv, [Next]_vars
    PROVE  /\ Taken \in Seq(Notes)
           /\ PollBegin => Taken = <<>> /\ Taken' = notes /\ notes' = <<>>
           /\ PollNote => Taken # <<>> /\ Taken' = Tail(Taken) /\ Head(Taken) = Head(drained)
           /\ FinishCall => Taken = <<>>
           /\ ~PollBegin /\ ~PollNote => Taken' = Taken
           /\ UNCHANGED <<call, drained>> => Taken' = Taken
<1> USE DEF queueVars, clientVars, discVars, netVars, sentVars, laneVars
<1>a. call \in Calls
  BY DEF TypeOK, ClientType
<1>1. Taken \in Seq(Notes)
  BY EmptyQueues DEF Taken, TypeOK, QueueType
<1>2. PollBegin => Taken = <<>> /\ Taken' = notes /\ notes' = <<>>
  BY DEF PollBegin, Taken, At, Idle
<1>3. PollNote => Taken # <<>> /\ Taken' = Tail(Taken) /\ Head(Taken) = Head(drained)
  BY DEF PollNote, Taken, At
<1>4. FinishCall => Taken = <<>>
  BY DEF FinishCall, ConnectByAddress, ConnectByDiscovery, ConnectNowhere,
         FinishDisconnect, Taken, At
<1>5. ASSUME ~PollBegin, ~PollNote PROVE Taken' = Taken
  <2>1. CASE UNCHANGED <<call, drained>>
    BY <2>1 DEF Taken, At
  <2>2. CASE PollNotesDone
    <3>1. At("notes") /\ drained = <<>> /\ ~At("notes")'
      BY <1>a, <2>2, CallAt, PollMoves DEF PollNotesDone, At
    <3> QED
      BY <3>1 DEF Taken
  <2>3. CASE ~At("notes") /\ ~At("notes")'
    BY <2>3 DEF Taken
  <2>4. CASE (\E way \in Ways : Connect(way)) \/ Disconnect
    BY <2>4, <2>3 DEF Connect, Disconnect, At, Idle
  <2>5. CASE StopSteps
    <3>1. ~At("notes") /\ ~At("notes")'
      BY <1>a, <2>5, CallAt, CallMoves
         DEF StopSteps, JoinDiscovery, StopTransport, JoinTransport, Steps, At
    <3> QED
      BY <3>1, <2>3
  <2>6. CASE FinishCall
    BY <2>6, <2>3 DEF FinishCall, ConnectByAddress, ConnectByDiscovery,
                ConnectNowhere, FinishDisconnect, At, Idle
  <2>7. CASE PollHello \/ PollPayload \/ PollPayloadsDone \/ PollReady
    <3>1. ~At("notes") /\ ~At("notes")'
      BY <1>a, <2>7, CallAt, PollMoves
         DEF PollHello, PollPayload, PollPayloadsDone, PollReady, At, Idle
    <3> QED
      BY <3>1, <2>3
  <2>8. CASE HostSends \/ Time \/ DiscFound \/ DiscMiss
    BY <2>8, <2>1 DEF HostSends, Time, DiscFound, DiscMiss
  <2>9. CASE NetNext
    BY <2>9, <2>1 DEF NetNext, NetOpen, NetFail, NetReport, NetSend, NetExpire,
                      NetReceive, NetStopped
  <2>10. CASE ServerAnswers \/ ServerSends
    BY <2>10, <2>1 DEF ServerAnswers, ServerSends
  <2>11. CASE UNCHANGED vars
    BY <2>11, <2>1 DEF vars
  <2> QED
    BY <1>5, <2>2, <2>4, <2>5, <2>6, <2>7, <2>8, <2>9, <2>10, <2>11
       DEF Next, HostNext, PollSteps
<1>6. UNCHANGED <<call, drained>> => Taken' = Taken
  BY DEF Taken, At
<1> QED
  BY <1>1, <1>2, <1>3, <1>4, <1>5, <1>6

\* The steps that push no notification and take none: they start no search and
\* no transport, and neither enter nor leave the Error state.
Pushes == FinishCall \/ PollBegin \/ PollNote \/ DiscFound \/ NetOpen \/ NetReport

\* What those steps leave alone.
LEMMA QuietStep ==
    ASSUME TypeOK, CallInv, [Next]_vars, ~Pushes
    PROVE  /\ notes' = notes /\ Taken' = Taken
           /\ Searching' => Searching
           /\ netPc = "off" => netPc' = "off"
           /\ netPc' # "open" \/ netPc' = netPc
           /\ state' = "error" <=> state = "error"
<1> USE DEF queueVars, clientVars, discVars, netVars, sentVars, laneVars
<1>a. Taken' = Taken
  BY TakenStep DEF Pushes
<1>1. CASE (\E way \in Ways : Connect(way)) \/ Disconnect
  BY <1>1, <1>a DEF Connect, Disconnect, StopDiscovery, Searching
<1>2. CASE StopSteps
  BY <1>2, <1>a DEF StopSteps, JoinDiscovery, StopTransport, JoinTransport, Searching
<1>3. CASE PollNotesDone \/ PollPayloadsDone \/ PollHello \/ PollPayload
  BY <1>3, <1>a DEF PollNotesDone, PollPayloadsDone, PollHello, PollPayload,
                    SetState, Searching
<1>4. CASE PollReady
  BY <1>4, <1>a DEF PollReady, UpdateReady, SetState, Searching
<1>5. CASE HostSends \/ Time \/ DiscMiss
  BY <1>5, <1>a DEF HostSends, Time, DiscMiss, Searching
<1>6. CASE NetFail \/ NetSend \/ NetExpire \/ NetReceive \/ NetStopped
  BY <1>6, <1>a DEF NetFail, NetSend, NetExpire, NetReceive, NetStopped, Searching
<1>7. CASE ServerAnswers \/ ServerSends
  BY <1>7, <1>a DEF ServerAnswers, ServerSends, Searching
<1>8. CASE UNCHANGED vars
  BY <1>8, <1>a DEF vars, Searching
<1> QED
  BY <1>1, <1>2, <1>3, <1>4, <1>5, <1>6, <1>7, <1>8
     DEF Next, HostNext, PollSteps, NetNext, Pushes

\* What the other steps push.
LEMMA PushStep ==
    ASSUME TypeOK, CallInv, [Next]_vars
    PROVE  /\ FinishCall =>
                /\ Taken = <<>> /\ Taken' = <<>>
                /\ \/ notes' = <<>>
                   \/ notes' = <<Note("error", epoch')>> /\ netPc' = "off" /\ ~Searching'
                /\ Searching' => netPc' = "off" /\ state' # "error"
                /\ netPc' = "open" => state' # "error"
           /\ PollNote /\ Head(Taken).kind # "discovered" =>
                /\ notes' = notes /\ netPc' = netPc /\ discPc' = discPc
                /\ state' = Head(Taken).kind
           /\ PollNote /\ Head(Taken).kind = "discovered" =>
                /\ discPc' = discPc /\ state' = state
                /\ netPc = "off" =>
                     \/ notes' = notes
                     \/ notes' = Append(notes, Note("error", epoch)) /\ netPc' = "off"
           /\ DiscFound =>
                /\ Searching /\ ~Searching' /\ netPc' = netPc /\ state' = state
                /\ notes' = Append(notes, Note("discovered", discEpoch))
           /\ NetOpen =>
                /\ netPc = "open" /\ netPc' = "loop"
                /\ discPc' = discPc /\ state' = state
                /\ notes' = Append(notes, Note("connected", netEpoch))
           /\ NetReport =>
                /\ netPc # "off" /\ netPc' \in {"done", "loop"}
                /\ discPc' = discPc /\ state' = state
                /\ notes' = Append(notes, Note("error", netEpoch))
<1> USE DEF queueVars, clientVars, discVars, netVars, sentVars, laneVars
<1>1. ASSUME FinishCall
      PROVE  /\ Taken = <<>> /\ Taken' = <<>>
             /\ \/ notes' = <<>>
                \/ notes' = <<Note("error", epoch')>> /\ netPc' = "off" /\ ~Searching'
             /\ Searching' => netPc' = "off" /\ state' # "error"
             /\ netPc' = "open" => state' # "error"
  <2>1. At("reset") /\ netPc = "off" /\ discPc = "off" /\ ~running
    BY <1>1 DEF FinishCall, ConnectByAddress, ConnectByDiscovery, ConnectNowhere,
                FinishDisconnect, CallInv
  <2>2. Taken = <<>> /\ Taken' = <<>>
    <3>1. ~PollBegin /\ ~PollNote
      BY <2>1 DEF PollBegin, PollNote, At
    <3> QED
      BY <1>1, <3>1, TakenStep
  <2>3. CASE ConnectByAddress
    <3>1. Append(<<>>, Note("error", epoch')) = <<Note("error", epoch')>>
      OBVIOUS
    <3> QED
    BY <2>1, <2>2, <2>3, <3>1 DEF ConnectByAddress, StartTransport, Searching
  <2>4. CASE ConnectByDiscovery \/ ConnectNowhere \/ FinishDisconnect
    BY <2>1, <2>2, <2>4 DEF ConnectByDiscovery, ConnectNowhere, FinishDisconnect,
                            Searching
  <2> QED
    BY <1>1, <2>3, <2>4 DEF FinishCall
<1>2. ASSUME PollNote, Head(Taken).kind # "discovered"
      PROVE  /\ notes' = notes /\ netPc' = netPc /\ discPc' = discPc
             /\ state' = Head(Taken).kind
  BY <1>2, TakenStep DEF PollNote, SetState
<1>3. ASSUME PollNote, Head(Taken).kind = "discovered"
      PROVE  /\ discPc' = discPc /\ state' = state
             /\ netPc = "off" =>
                  \/ notes' = notes
                  \/ notes' = Append(notes, Note("error", epoch)) /\ netPc' = "off"
  BY <1>3, TakenStep DEF PollNote, StartTransport, CallInv
<1>4. DiscFound =>
        /\ Searching /\ ~Searching' /\ netPc' = netPc /\ state' = state
        /\ notes' = Append(notes, Note("discovered", discEpoch))
  BY DEF DiscFound, Searching
<1>5. /\ NetOpen =>
           /\ netPc = "open" /\ netPc' = "loop" /\ discPc' = discPc /\ state' = state
           /\ notes' = Append(notes, Note("connected", netEpoch))
      /\ NetReport =>
           /\ netPc # "off" /\ netPc' \in {"done", "loop"}
           /\ discPc' = discPc /\ state' = state
           /\ notes' = Append(notes, Note("error", netEpoch))
  BY DEF NetOpen, NetReport
<1> QED
  BY <1>1, <1>2, <1>3, <1>4, <1>5

\* A note has the kind it was made with.
LEMMA NoteFacts ==
    ASSUME NEW kind \in {"connected", "error", "discovered"}, NEW e \in Nat
    PROVE  Note(kind, e) \in Notes /\ Note(kind, e).kind = kind
  BY DEF Note, Notes

\* What a queue of notifications holds after one more.
LEMMA NotesAppend ==
    ASSUME NEW kind \in {"connected", "error", "discovered"}, NEW e \in Nat,
           NEW s \in Seq(Notes)
    PROVE  LET t == Append(s, Note(kind, e)) IN
           /\ NoneOf("discovered", t) <=> NoneOf("discovered", s) /\ kind # "discovered"
           /\ NoneOf("error", t) <=> NoneOf("error", s) /\ kind # "error"
           /\ OnlyErrors(t) <=> OnlyErrors(s) /\ kind = "error"
           /\ OneDiscovered(s) /\ (kind = "discovered" => NoneOf("discovered", s))
                => OneDiscovered(t)
           /\ ErrorLast(s) /\ (kind = "error" \/ NoneOf("error", s)) => ErrorLast(t)
<1> DEFINE x == Note(kind, e)
           t == Append(s, x)
<1>1. x \in Notes /\ x.kind = kind
  BY NoteFacts
<1> HIDE DEF x
<1>2. /\ NoneOf("discovered", t) <=> NoneOf("discovered", s) /\ kind # "discovered"
      /\ NoneOf("error", t) <=> NoneOf("error", s) /\ kind # "error"
  BY <1>1, OnAppend
<1>3. /\ OnlyErrors(t) <=> OnlyErrors(s) /\ kind = "error"
      /\ OneDiscovered(s) /\ (kind = "discovered" => NoneOf("discovered", s))
           => OneDiscovered(t)
      /\ ErrorLast(s) /\ (kind = "error" \/ NoneOf("error", s)) => ErrorLast(t)
  BY <1>1, OnAppend, NoneOf("error", t) <=> NoneOf("error", s) /\ kind # "error"
<1> QED
  BY <1>2, <1>3 DEF x

\* Nothing is OnlyErrors and has a report of a search.
LEMMA OnlyErrorsFacts ==
    ASSUME NEW s
    PROVE  OnlyErrors(s) => NoneOf("discovered", s) /\ NoneOf("connected", s)
                            /\ ErrorLast(s)
  BY DEF OnlyErrors, NoneOf, ErrorLast

\* A search reports once, and its transport is not started before it is heard.
LEMMA SearchStep ==
    ASSUME TypeOK, CallInv, SearchInv, [Next]_vars
    PROVE  SearchInv'
<1>a. /\ notes \in Seq(Notes) /\ Taken \in Seq(Notes)
      /\ epoch \in Nat /\ netEpoch \in Nat /\ discEpoch \in Nat /\ epoch' \in Nat
  BY TypeOKStep, TakenStep DEF TypeOK, QueueType, ClientType, ThreadType
<1>b. NoneOf("discovered", <<>>) /\ OneDiscovered(<<>>)
  BY OnEmpty
<1>1. CASE ~Pushes
  BY <1>1, QuietStep DEF SearchInv
<1>2. CASE FinishCall
  <2>1. NoneOf("discovered", notes') /\ OneDiscovered(notes')
    <3>1. <<Note("error", epoch')>> = Append(<<>>, Note("error", epoch'))
      OBVIOUS
    <3>2. /\ NoneOf("discovered", Append(<<>>, Note("error", epoch')))
          /\ OneDiscovered(Append(<<>>, Note("error", epoch')))
      BY <1>a, <1>b, EmptyQueues, NotesAppend
    <3> QED
      BY <1>2, <1>b, <3>1, <3>2, PushStep
  <2> QED
    BY <1>2, <1>b, <2>1, PushStep DEF SearchInv
<1>3. CASE PollBegin
  <2>1. UNCHANGED <<discPc, netPc>>
    BY <1>3 DEF PollBegin, discVars, netVars
  <2> QED
    BY <1>3, <1>b, <2>1, TakenStep DEF SearchInv, Searching
<1>4. CASE PollNote
  <2>1. Taken # <<>> /\ Taken' = Tail(Taken)
    BY <1>4, TakenStep
  <2>2. /\ NoneOf("discovered", Taken)
             <=> NoneOf("discovered", Taken') /\ Head(Taken).kind # "discovered"
        /\ OneDiscovered(Taken')
        /\ Head(Taken).kind = "discovered" => NoneOf("discovered", Taken')
    BY <1>a, <2>1, OnTail DEF SearchInv
  <2>3. CASE Head(Taken).kind # "discovered"
    BY <1>4, <2>2, <2>3, PushStep DEF SearchInv, Searching
  <2>4. CASE Head(Taken).kind = "discovered"
    <3>1. netPc = "off" /\ ~Searching /\ NoneOf("discovered", notes) /\ OneDiscovered(notes)
      BY <2>2, <2>4 DEF SearchInv
    <3>2. /\ NoneOf("discovered", Append(notes, Note("error", epoch)))
          /\ OneDiscovered(Append(notes, Note("error", epoch)))
      BY <1>a, <3>1, NotesAppend
    <3> QED
      BY <1>4, <2>2, <2>4, <3>1, <3>2, PushStep DEF SearchInv, Searching
  <2> QED
    BY <2>3, <2>4
<1>5. CASE DiscFound
  <2>1. Taken' = Taken /\ Searching /\ ~Searching' /\ netPc' = netPc
    BY <1>5, PushStep, TakenStep DEF DiscFound
  <2>2. OneDiscovered(notes')
    <3>1. OneDiscovered(Append(notes, Note("discovered", discEpoch)))
      BY <1>a, <2>1, NotesAppend DEF SearchInv
    <3> QED
      BY <1>5, <3>1, PushStep
  <2> QED
    BY <2>1, <2>2 DEF SearchInv
<1>6. CASE NetOpen \/ NetReport
  <2>1. netPc # "off" /\ netPc' # "off" /\ discPc' = discPc
    BY <1>6, PushStep
  <2>2. Taken' = Taken
    BY <1>6, TakenStep DEF NetOpen, NetReport
  <2>3. NoneOf("discovered", notes) /\ OneDiscovered(notes)
        /\ NoneOf("discovered", Taken) /\ ~Searching
    BY <2>1 DEF SearchInv
  <2>4. NoneOf("discovered", notes') /\ OneDiscovered(notes')
    <3>1. LET t == Append(notes, Note("connected", netEpoch))
          IN  NoneOf("discovered", t) /\ OneDiscovered(t)
      BY <1>a, <2>3, NotesAppend
    <3>2. LET t == Append(notes, Note("error", netEpoch))
          IN  NoneOf("discovered", t) /\ OneDiscovered(t)
      BY <1>a, <2>3, NotesAppend
    <3> QED
      BY <1>6, <3>1, <3>2, PushStep
  <2> QED
    BY <2>1, <2>2, <2>3, <2>4 DEF SearchInv, Searching
<1> QED
  BY <1>1, <1>2, <1>3, <1>4, <1>5, <1>6 DEF Pushes

\* After an error only errors follow.
LEMMA ErrorStep ==
    ASSUME TypeOK, CallInv, SearchInv, ErrorInv, [Next]_vars
    PROVE  ErrorInv'
<1>a. /\ notes \in Seq(Notes) /\ Taken \in Seq(Notes)
      /\ epoch \in Nat /\ netEpoch \in Nat /\ discEpoch \in Nat /\ epoch' \in Nat
  BY TypeOKStep, TakenStep DEF TypeOK, QueueType, ClientType, ThreadType
<1>b. /\ NoneOf("discovered", <<>>) /\ NoneOf("error", <<>>)
      /\ OnlyErrors(<<>>) /\ ErrorLast(<<>>)
  BY OnEmpty
<1>1. CASE ~Pushes
  BY <1>1, QuietStep DEF ErrorInv
<1>2. CASE FinishCall
  <2>1. <<Note("error", epoch')>> = Append(<<>>, Note("error", epoch'))
    OBVIOUS
  <2>2. LET t == Append(<<>>, Note("error", epoch'))
        IN  OnlyErrors(t) /\ ErrorLast(t) /\ NoneOf("discovered", t)
    BY <1>a, <1>b, EmptyQueues, NotesAppend
  <2> QED
    BY <1>2, <1>b, <2>1, <2>2, PushStep DEF ErrorInv
<1>3. CASE PollBegin
  <2>1. UNCHANGED <<discPc, netPc, state>>
    BY <1>3 DEF PollBegin, discVars, netVars, clientVars
  <2> QED
    BY <1>3, <1>b, <2>1, TakenStep DEF ErrorInv, Searching
<1>4. CASE PollNote
  <2>1. Taken # <<>> /\ Taken' = Tail(Taken)
    BY <1>4, TakenStep
  <2>2. /\ NoneOf("discovered", Taken)
             <=> NoneOf("discovered", Taken') /\ Head(Taken).kind # "discovered"
        /\ NoneOf("error", Taken)
             <=> NoneOf("error", Taken') /\ Head(Taken).kind # "error"
        /\ OnlyErrors(Taken) <=> OnlyErrors(Taken') /\ Head(Taken).kind = "error"
        /\ ErrorLast(Taken')
        /\ Head(Taken).kind = "error" => OnlyErrors(Taken')
        /\ Head(Taken).kind = "discovered" => NoneOf("discovered", Taken')
    BY <1>a, <2>1, OnTail DEF SearchInv, ErrorInv
  <2>3. CASE Head(Taken).kind # "discovered"
    BY <1>4, <2>2, <2>3, PushStep DEF ErrorInv, Searching
  <2>4. CASE Head(Taken).kind = "discovered"
    <3>1. netPc = "off" /\ ~Searching /\ NoneOf("discovered", notes)
      BY <2>2, <2>4 DEF SearchInv
    <3>2. /\ state # "error" /\ NoneOf("error", notes) /\ NoneOf("error", Taken')
          /\ ErrorLast(notes)
      BY <2>2, <2>4 DEF ErrorInv
    <3>3. LET t == Append(notes, Note("error", epoch))
          IN  NoneOf("discovered", t) /\ ErrorLast(t)
      BY <1>a, <3>1, <3>2, NotesAppend
    <3> QED
      BY <1>4, <2>2, <2>4, <3>1, <3>2, <3>3, PushStep DEF ErrorInv, Searching
  <2> QED
    BY <2>3, <2>4
<1>5. CASE DiscFound
  <2>1. Taken' = Taken /\ Searching /\ ~Searching' /\ netPc' = netPc /\ state' = state
    BY <1>5, PushStep, TakenStep DEF DiscFound
  <2>2. state # "error" /\ NoneOf("error", notes) /\ NoneOf("error", Taken)
    BY <2>1 DEF ErrorInv
  <2>3. ErrorLast(notes') /\ NoneOf("error", notes')
    <3>1. LET t == Append(notes, Note("discovered", discEpoch))
          IN  ErrorLast(t) /\ NoneOf("error", t)
      BY <1>a, <2>2, NotesAppend DEF ErrorInv
    <3> QED
      BY <1>5, <3>1, PushStep
  <2> QED
    BY <2>1, <2>2, <2>3 DEF ErrorInv
<1>6. CASE NetOpen
  <2>1. /\ netPc = "open" /\ netPc' = "loop" /\ discPc' = discPc /\ state' = state
    BY <1>6, PushStep
  <2>2. Taken' = Taken
    BY <1>6, TakenStep DEF NetOpen
  <2>3. state # "error" /\ NoneOf("error", notes) /\ NoneOf("error", Taken)
    BY <2>1 DEF ErrorInv
  <2>4. ErrorLast(notes') /\ NoneOf("error", notes')
    <3>1. LET t == Append(notes, Note("connected", netEpoch))
          IN  ErrorLast(t) /\ NoneOf("error", t)
      BY <1>a, <2>3, NotesAppend DEF ErrorInv
    <3> QED
      BY <1>6, <3>1, PushStep
  <2> QED
    BY <2>1, <2>2, <2>3, <2>4 DEF ErrorInv, Searching
<1>7. CASE NetReport
  <2>1. /\ netPc # "off" /\ netPc' # "open" /\ discPc' = discPc /\ state' = state
    BY <1>7, PushStep
  <2>2. Taken' = Taken
    BY <1>7, TakenStep DEF NetReport
  <2>3. ~Searching /\ NoneOf("discovered", notes) /\ NoneOf("discovered", Taken)
    BY <2>1 DEF SearchInv
  <2>4. /\ ErrorLast(notes') /\ NoneOf("discovered", notes')
        /\ OnlyErrors(notes) => OnlyErrors(notes')
    <3>1. LET t == Append(notes, Note("error", netEpoch))
          IN  ErrorLast(t) /\ NoneOf("discovered", t) /\ (OnlyErrors(notes) => OnlyErrors(t))
      BY <1>a, <2>3, NotesAppend DEF ErrorInv
    <3> QED
      BY <1>7, <3>1, PushStep
  <2> QED
    BY <2>1, <2>2, <2>3, <2>4 DEF ErrorInv, Searching
<1> QED
  BY <1>1, <1>2, <1>3, <1>4, <1>5, <1>6, <1>7 DEF Pushes

-----------------------------------------------------------------------------
(* The handshake.                                                          *)

\* What a queue holds after a push.
LEMMA InSeqAppend ==
    ASSUME NEW S, NEW s \in Seq(S), NEW x, NEW y \in S
    PROVE  InSeq(x, Append(s, y)) <=> InSeq(x, s) \/ x = y
  BY AppendEntries DEF InSeq

\* What a queue held before its front was taken.
LEMMA InSeqTail ==
    ASSUME NEW S, NEW s \in Seq(S), s # <<>>, NEW x
    PROVE  InSeq(x, s) <=> x = Head(s) \/ InSeq(x, Tail(s))
<1> DEFINE t == Tail(s)
<1>1. /\ \A i \in DOMAIN t : i + 1 \in DOMAIN s /\ t[i] = s[i + 1]
      /\ \A i \in DOMAIN s : i = 1 \/ (i - 1 \in DOMAIN t /\ t[i - 1] = s[i])
      /\ 1 \in DOMAIN s /\ Head(s) = s[1]
  OBVIOUS
<1> HIDE DEF t
<1> QED
  BY <1>1, ZenonT(40) DEF InSeq, t

\* No notification is taken for a payload with the id mapping.
LEMMA NoMappingNote ==
    ASSUME NEW s \in Seq(Notes)
    PROVE  NoneOf("mapping", s)
<1>1. \A i \in DOMAIN s : s[i] \in Notes
  OBVIOUS
<1>2. \A n \in Notes : n.kind # "mapping"
  BY DEF Notes
<1> QED
  BY <1>1, <1>2 DEF NoneOf

\* A transport is started only when there was none, and then nothing of an
\* earlier one is left.
LEMMA StartStep ==
    ASSUME TypeOK, CallInv, SearchInv, [Next]_vars, FinishCall \/ PollNote
    PROVE  \/ UNCHANGED <<netVars, laneVars>>
           \/ /\ netPc = "off" /\ outbox' = <<>> /\ helloEnqueued' = FALSE
              /\ wire' = <<>> /\ down' = <<>> /\ answered' = FALSE /\ expired' = 0
              /\ netStop' = FALSE /\ connError' = FALSE
<1>1. CASE ConnectByAddress
  <2>1. netPc = "off" /\ ~running /\ outbox = <<>>
    BY <1>1 DEF ConnectByAddress, CallInv
  <2> QED
    BY <1>1, <2>1 DEF ConnectByAddress, StartTransport, ResetSessionState
<1>2. CASE ConnectByDiscovery \/ ConnectNowhere \/ FinishDisconnect
  BY <1>2 DEF ConnectByDiscovery, ConnectNowhere, FinishDisconnect
<1>3. CASE PollNote
  <2>1. Taken # <<>> /\ Head(Taken) = Head(drained) /\ Taken \in Seq(Notes)
    BY <1>3, TakenStep
  <2>2. CASE Head(drained).kind # "discovered"
    BY <1>3, <2>2 DEF PollNote
  <2>3. CASE Head(drained).kind = "discovered"
    <3>1. ~NoneOf("discovered", Taken)
      BY <2>1, <2>3, OnTail
    <3>2. netPc = "off" /\ ~running /\ outbox = <<>>
      BY <3>1 DEF SearchInv, CallInv
    <3> QED
      BY <1>3, <2>3, <3>2 DEF PollNote, StartTransport
  <2> QED
    BY <2>2, <2>3
<1> QED
  BY <1>1, <1>2, <1>3 DEF FinishCall

\* A mapping answers a hello, and a connection without a transport has nothing.
LEMMA HandshakeStep ==
    ASSUME TypeOK, CallInv, SearchInv, HandshakeInv, [Next]_vars
    PROVE  HandshakeInv'
<1> USE DEF queueVars, clientVars, discVars, netVars, sentVars, laneVars
<1>a. /\ call \in Calls /\ inbox \in Seq(Messages)
      /\ At("notes") => drained \in Seq(Notes)
      /\ ~At("notes") => drained \in Seq(Messages)
      /\ outbox \in Seq({"hello", "other"}) /\ wire \in Seq({"hello", "other"})
      /\ down \in Seq({"mapping", "sync", "other"})
      /\ netEpoch \in Nat
  BY DEF TypeOK, QueueType, ClientType, ThreadType
<1>b. NoneOf("mapping", <<>>)
  BY OnEmpty
<1>c. ~InSeq("mapping", <<>>)
  BY DEF InSeq
<1>1. CASE (\E way \in Ways : Connect(way)) \/ Disconnect
  BY <1>1 DEF Connect, Disconnect, StopDiscovery, HandshakeInv, At, Idle
<1>2. CASE StopSteps
  <2>1. /\ UNCHANGED <<queueVars, clientVars, wire, down, answered>>
        /\ netPc' = "off" /\ ~At("reset")' => netPc = "off" /\ ~At("reset")
        /\ ~At("payloads")'
    BY <1>a, <1>2, CallAt, CallMoves
       DEF StopSteps, JoinDiscovery, StopTransport, JoinTransport, At, Steps
  <2> QED
    BY <2>1 DEF HandshakeInv
<1>3. CASE FinishCall
  <2>1. /\ At("reset") /\ call' = Idle /\ drained' = drained /\ ResetSessionState
    BY <1>3 DEF FinishCall, ConnectByAddress, ConnectByDiscovery,
                ConnectNowhere, FinishDisconnect
  <2>2. drained' = <<>> /\ ~At("payloads")'
    BY <2>1 DEF CallInv, At, Idle
  <2>3. CASE UNCHANGED laneVars
    BY <1>b, <2>1, <2>2, <2>3 DEF HandshakeInv, ResetSessionState
  <2>4. CASE wire' = <<>> /\ down' = <<>> /\ answered' = FALSE
    BY <1>b, <1>c, <2>1, <2>2, <2>4 DEF HandshakeInv, ResetSessionState
  <2> QED
    BY <1>3, <2>3, <2>4, StartStep
<1>4. CASE PollBegin
  <2>1. /\ At("notes")' /\ drained' = notes /\ ~At("reset")
        /\ UNCHANGED <<inbox, mapped, readyEvents, readyFired, wire, down, answered, netPc>>
    BY <1>4 DEF PollBegin, At, Idle
  <2>2. NoneOf("mapping", notes)
    BY NoMappingNote DEF TypeOK, QueueType
  <2> QED
    BY <2>1, <2>2 DEF HandshakeInv, At
<1>5. CASE PollNote
  <2>1. /\ At("notes") /\ call' = call /\ drained # <<>> /\ drained' = Tail(drained)
        /\ UNCHANGED <<inbox, mapped, readyEvents, readyFired>>
    BY <1>5 DEF PollNote
  <2>2. NoneOf("mapping", drained')
    <3>1. drained' \in Seq(Notes)
      BY <1>a, <2>1
    <3> QED
      BY <3>1, NoMappingNote
  <2>3. CASE UNCHANGED <<netVars, laneVars>>
    BY <2>1, <2>2, <2>3 DEF HandshakeInv, At
  <2>4. CASE /\ netPc = "off"
             /\ wire' = <<>> /\ down' = <<>> /\ answered' = FALSE
    BY <1>b, <1>c, <2>1, <2>2, <2>4 DEF HandshakeInv, At
  <2> QED
    BY <1>5, <2>3, <2>4, StartStep
<1>6. CASE PollHello
  <2>1. /\ At("hello") /\ At("payloads")' /\ drained' = inbox /\ inbox' = <<>>
        /\ UNCHANGED <<mapped, readyEvents, readyFired, wire, down, answered, netPc>>
    BY <1>a, <1>6, CallAt, PollMoves DEF PollHello, At
  <2> QED
    BY <1>b, <2>1 DEF HandshakeInv, At
<1>7. CASE PollPayload
  <2>1. /\ At("payloads") /\ call' = call /\ drained # <<>> /\ drained' = Tail(drained)
        /\ mapped' = (mapped \/ Head(drained).kind = "mapping")
        /\ UNCHANGED <<inbox, readyEvents, readyFired, wire, down, answered, netPc>>
    BY <1>7 DEF PollPayload
  <2>2. NoneOf("mapping", drained)
          <=> NoneOf("mapping", drained') /\ Head(drained).kind # "mapping"
    BY <1>a, <2>1, OnTail DEF At
  <2> QED
    BY <2>1, <2>2 DEF HandshakeInv, At
<1>8. CASE PollNotesDone \/ PollPayloadsDone
  <2>1. /\ UNCHANGED <<queueVars, clientVars, wire, down, answered, netPc>>
        /\ ~At("reset") /\ ~At("payloads")'
    BY <1>a, <1>8, CallAt, PollMoves DEF PollNotesDone, PollPayloadsDone, At
  <2> QED
    BY <2>1 DEF HandshakeInv
<1>9. CASE PollReady
  <2>1. /\ At("ready") /\ call' = Idle
        /\ UNCHANGED <<queueVars, mapped, wire, down, answered, netPc>>
    BY <1>9 DEF PollReady
  <2>2. ~mapped => readyEvents' = readyEvents /\ (~readyFired => ~readyFired')
    BY <1>9 DEF PollReady, UpdateReady, IsReady
  <2> QED
    BY <2>1, <2>2 DEF HandshakeInv, At, Idle
<1>10. CASE HostSends \/ Time
  BY <1>10 DEF HostSends, Time, HandshakeInv, At
<1>11. CASE DiscFound \/ DiscMiss
  BY <1>11 DEF DiscFound, DiscMiss, HandshakeInv, At
<1>12. CASE NetOpen \/ NetFail \/ NetReport \/ NetStopped \/ NetExpire
  <2>1. UNCHANGED <<call, inbox, drained, clientVars, wire, down, answered>>
        /\ netPc' # "off"
    BY <1>12 DEF NetOpen, NetFail, NetReport, NetStopped, NetExpire
  <2> QED
    BY <2>1 DEF HandshakeInv
<1>13. CASE NetSend
  <2>1. InSeq("hello", wire) => InSeq("hello", wire')
    BY <1>a, <1>13, InSeqAppend DEF NetSend
  <2> QED
    BY <1>13, <2>1 DEF NetSend, HandshakeInv
<1>14. CASE NetReceive
  <2> DEFINE m == [kind |-> Head(down), epoch |-> netEpoch]
  <2>1. /\ down # <<>> /\ down' = Tail(down) /\ netPc' # "off"
        /\ UNCHANGED <<drained, mapped, wire, answered>>
    BY <1>14 DEF NetReceive
  <2>2. m \in Messages /\ m.kind = Head(down)
    BY <1>a, <2>1 DEF Messages
  <2>3. \/ Len(inbox) >= InboxMax /\ inbox' = Append(Tail(inbox), m)
        \/ inbox' = Append(inbox, m)
    BY <1>14 DEF NetReceive
  <2> HIDE DEF m
  <2>4. NoneOf("mapping", inbox) /\ Head(down) # "mapping" => NoneOf("mapping", inbox')
    <3>1. CASE Len(inbox) >= InboxMax /\ inbox' = Append(Tail(inbox), m)
      <4>1. inbox # <<>>
        BY <3>1, LimitsAssumption
      <4>2. /\ Tail(inbox) \in Seq(Messages)
            /\ NoneOf("mapping", inbox) => NoneOf("mapping", Tail(inbox))
        BY <1>a, <4>1, OnTail, TailEntries
      <4>3. NoneOf("mapping", Append(Tail(inbox), m))
              <=> NoneOf("mapping", Tail(inbox)) /\ m.kind # "mapping"
        BY <2>2, <4>2, OnAppend
      <4> QED
        BY <2>2, <3>1, <4>2, <4>3
    <3>2. CASE inbox' = Append(inbox, m)
      <4>1. NoneOf("mapping", Append(inbox, m))
              <=> NoneOf("mapping", inbox) /\ m.kind # "mapping"
        BY <1>a, <2>2, OnAppend
      <4> QED
        BY <2>2, <3>2, <4>1
    <3> QED
      BY <2>3, <3>1, <3>2
  <2>5. InSeq("mapping", down) <=> Head(down) = "mapping" \/ InSeq("mapping", down')
    BY <1>a, <2>1, InSeqTail
  <2> QED
    BY <2>1, <2>4, <2>5 DEF HandshakeInv
<1>15. CASE ServerAnswers
  BY <1>15 DEF ServerAnswers, HandshakeInv
<1>16. CASE ServerSends
  <2>1. InSeq("mapping", down') => InSeq("mapping", down)
    BY <1>a, <1>16, InSeqAppend DEF ServerSends
  <2> QED
    BY <1>16, <2>1 DEF ServerSends, HandshakeInv
<1>17. CASE UNCHANGED vars
  BY <1>17 DEF vars, HandshakeInv, At
<1> QED
  BY <1>1, <1>2, <1>3, <1>4, <1>5, <1>6, <1>7, <1>8, <1>9, <1>10, <1>11,
     <1>12, <1>13, <1>14, <1>15, <1>16, <1>17
     DEF Next, HostNext, PollSteps, NetNext

\* Ready is reported once, and readiness is lost only to a failure.
LEMMA ReadyStep ==
    ASSUME TypeOK, CallInv, SearchInv, HandshakeInv, ReadyInv, [Next]_vars
    PROVE  ReadyInv'
<1> USE DEF queueVars, clientVars, discVars, netVars, sentVars, laneVars
<1>1. CASE (\E way \in Ways : Connect(way)) \/ Disconnect \/ StopSteps
  BY <1>1 DEF Connect, Disconnect, StopDiscovery, StopSteps, JoinDiscovery,
              StopTransport, JoinTransport, ReadyInv
<1>2. CASE FinishCall
  <2>1. ResetSessionState /\ state' # "ready"
    BY <1>2 DEF FinishCall, ConnectByAddress, ConnectByDiscovery,
                ConnectNowhere, FinishDisconnect
  <2> QED
    BY <2>1 DEF ResetSessionState, ReadyInv
<1>3. CASE PollNote
  <2>1. /\ At("notes") /\ UNCHANGED <<mapped, synced, readyFired, readyEvents>>
        /\ state' = "ready" => state = "ready"
    <3>1. drained # <<>> /\ drained \in Seq(Notes)
      BY <1>3 DEF PollNote, TypeOK, QueueType
    <3>2. Head(drained) \in Notes
      BY <3>1
    <3>3. Head(drained).kind # "ready"
      BY <3>2 DEF Notes
    <3> QED
      BY <1>3, <3>3 DEF PollNote, SetState
  <2>2. connError' = connError \/ netPc = "off"
    BY <1>3, StartStep
  <2> QED
    BY <2>1, <2>2 DEF ReadyInv, HandshakeInv, At
<1>4. CASE PollReady
  <2>1. /\ At("ready") /\ UNCHANGED <<mapped, connError>>
        /\ synced' = (synced \/ timer = 0) /\ UpdateReady(synced')
    BY <1>4 DEF PollReady
  <2>2. readyEvents = 1 => running
    BY <2>1 DEF HandshakeInv, CallInv, At
  <2>3. CASE state \in {"error", "disconnected"}
    BY <2>1, <2>3 DEF UpdateReady, ReadyInv
  <2>4. CASE state \notin {"error", "disconnected"} /\ IsReady(synced')
    <3>1. readyEvents' = readyEvents + (IF readyFired THEN 0 ELSE 1)
          /\ state' = "ready" /\ readyFired' = TRUE
      BY <2>1, <2>4 DEF UpdateReady, SetState
    <3>2. readyEvents = IF readyFired THEN 1 ELSE 0
      BY <2>4 DEF IsReady, ReadyInv
    <3>3. readyEvents' = 1
      BY <3>1, <3>2
    <3> QED
      BY <2>1, <2>4, <3>1, <3>3 DEF ReadyInv, IsReady
  <2>5. CASE state \notin {"error", "disconnected"} /\ ~IsReady(synced') /\ state = "ready"
    <3>1. readyEvents' = readyEvents /\ readyFired' = FALSE /\ state' = "synchronizing"
      BY <2>1, <2>5 DEF UpdateReady, SetState
    <3>2. readyEvents = 1 /\ mapped /\ synced
      BY <2>5 DEF ReadyInv
    <3>3. connError
      BY <2>1, <2>2, <2>5, <3>2 DEF IsReady
    <3> QED
      BY <2>1, <3>1, <3>2, <3>3 DEF ReadyInv
  <2>6. CASE state \notin {"error", "disconnected"} /\ ~IsReady(synced') /\ state # "ready"
    BY <2>1, <2>6 DEF UpdateReady, ReadyInv
  <2> QED
    BY <2>3, <2>4, <2>5, <2>6
<1>5. CASE PollBegin \/ PollNotesDone \/ PollPayloadsDone \/ PollHello \/ PollPayload
  <2>1. UNCHANGED <<readyFired, readyEvents, connError>>
        /\ (state' = "ready" => state = "ready")
    BY <1>5 DEF PollBegin, PollNotesDone, PollPayloadsDone, PollHello, PollPayload,
                SetState
  <2>2. (mapped => mapped') /\ (synced => synced')
    <3>1. CASE UNCHANGED <<mapped, synced>>
      BY <3>1
    <3>2. CASE PollPayload
      BY <3>2, Zenon DEF PollPayload
    <3> QED
      BY <1>5, <3>1, <3>2 DEF PollBegin, PollNotesDone, PollPayloadsDone, PollHello
  <2> QED
    BY <2>1, <2>2 DEF ReadyInv
<1>6. CASE HostSends \/ Time \/ DiscFound \/ DiscMiss
  BY <1>6 DEF HostSends, Time, DiscFound, DiscMiss, ReadyInv
<1>7. CASE NetNext
  <2>1. UNCHANGED <<mapped, synced, readyFired, readyEvents, state>>
        /\ (connError => connError')
    BY <1>7 DEF NetNext, NetOpen, NetFail, NetReport, NetSend, NetExpire,
                NetReceive, NetStopped
  <2> QED
    BY <2>1 DEF ReadyInv
<1>8. CASE ServerAnswers \/ ServerSends
  BY <1>8 DEF ServerAnswers, ServerSends, ReadyInv
<1>9. CASE UNCHANGED vars
  BY <1>9 DEF vars, ReadyInv
<1> QED
  BY <1>1, <1>2, <1>3, <1>4, <1>5, <1>6, <1>7, <1>8, <1>9
     DEF Next, HostNext, PollSteps

\* The two lanes of the connection as one sequence: a packet is appended or
\* sent.
LEMMA SaidAppend ==
    ASSUME NEW S, NEW w \in Seq(S), NEW o \in Seq(S), NEW x \in S
    PROVE  w \o Append(o, x) = Append(w \o o, x)
  OBVIOUS

\* Sending the front of the outbox moves it behind what was sent.
LEMMA SaidSent ==
    ASSUME NEW S, NEW w \in Seq(S), NEW o \in Seq(S), o # <<>>
    PROVE  Append(w, Head(o)) \o Tail(o) = w \o o
  OBVIOUS

\* hello_enqueued_ and the hello it stands for.
LEMMA HelloStep ==
    ASSUME TypeOK, CallInv, SearchInv, HelloInv, [Next]_vars
    PROVE  HelloInv'
<1> USE DEF queueVars, clientVars, discVars, netVars, sentVars, laneVars
<1>a. /\ outbox \in Seq({"hello", "other"}) /\ wire \in Seq({"hello", "other"})
      /\ expired \in Nat
  BY DEF TypeOK, QueueType
<1>b. Said \in Seq({"hello", "other"})
  BY <1>a DEF Said
<1>c. SUFFICES ASSUME netPc' # "off", ~netStop'
               PROVE  HelloInv'
  BY DEF HelloInv
<1>1. CASE UNCHANGED <<netPc, netStop, wire, outbox, expired, helloEnqueued>>
  BY <1>1 DEF HelloInv, Said
<1>2. CASE StopSteps
  <2>1. UNCHANGED <<netPc, netStop, wire, outbox, expired, helloEnqueued>>
    BY <1>2, <1>c DEF StopSteps, JoinDiscovery, StopTransport, JoinTransport
  <2> QED
    BY <1>1, <2>1
<1>3. CASE FinishCall \/ PollNote
  <2>1. CASE UNCHANGED <<netVars, laneVars>>
    <3>1. helloEnqueued' = helloEnqueued
      <4>1. CASE FinishCall
        BY <4>1, <2>1, <1>c DEF FinishCall, ConnectByAddress, ConnectByDiscovery,
                      ConnectNowhere, FinishDisconnect, CallInv
      <4>2. CASE PollNote
        <5>1. Taken # <<>> /\ Head(Taken) = Head(drained) /\ Taken \in Seq(Notes)
          BY <4>2, TakenStep
        <5>2. ~NoneOf("discovered", Taken) => netPc = "off"
          BY DEF SearchInv
        <5>3. Head(drained).kind # "discovered"
          BY <2>1, <1>c, <5>1, <5>2, OnTail
        <5> QED
          BY <4>2, <5>3 DEF PollNote
      <4> QED
        BY <1>3, <4>1, <4>2
    <3> QED
      BY <1>1, <2>1, <3>1
  <2>2. CASE /\ outbox' = <<>> /\ helloEnqueued' = FALSE
             /\ wire' = <<>> /\ expired' = 0
    <3>1. Said' = <<>>
      BY <2>2 DEF Said
    <3> QED
      BY <2>2, <3>1 DEF HelloInv, InSeq
  <2> QED
    BY <1>3, <2>1, <2>2, StartStep
<1>4. CASE PollHello
  <2>1. CASE UNCHANGED <<outbox, helloEnqueued>>
    BY <1>1, <1>4, <2>1 DEF PollHello
  <2>2. CASE ~helloEnqueued /\ helloEnqueued' = TRUE /\ outbox' = Append(outbox, "hello")
    <3>1. UNCHANGED <<netPc, netStop, wire, expired>>
      BY <1>4 DEF PollHello
    <3>2. expired = 0 /\ ~InSeq("hello", Said)
      BY <1>c, <2>2, <3>1 DEF HelloInv
    <3>3. Said' = Append(Said, "hello")
      BY <1>a, <2>2, <3>1, SaidAppend DEF Said
    <3>4. \A i, j \in DOMAIN Said' : Said'[i] = "hello" /\ Said'[j] = "hello" => i = j
      BY <1>b, <3>2, <3>3, AppendEntries DEF InSeq
    <3>5. InSeq("hello", Said')
      BY <1>b, <3>3, InSeqAppend
    <3> QED
      BY <2>2, <3>1, <3>2, <3>4, <3>5 DEF HelloInv
  <2> QED
    BY <1>4, <2>1, <2>2 DEF PollHello
<1>5. CASE HostSends
  <2>1. /\ UNCHANGED <<netPc, netStop, wire, expired, helloEnqueued>>
        /\ outbox' = Append(outbox, "other")
    BY <1>5 DEF HostSends
  <2>2. Said' = Append(Said, "other")
    BY <1>a, <2>1, SaidAppend DEF Said
  <2>3. InSeq("hello", Said') <=> InSeq("hello", Said)
    BY <1>b, <2>2, InSeqAppend
  <2>4. /\ DOMAIN Said' = DOMAIN Said \cup {Len(Said) + 1}
        /\ \A i \in DOMAIN Said : Said'[i] = Said[i]
        /\ Said'[Len(Said) + 1] = "other"
    BY <1>b, <2>2, AppendEntries
  <2> QED
    BY <1>c, <2>1, <2>3, <2>4 DEF HelloInv
<1>6. CASE NetSend
  <2>1. /\ UNCHANGED <<netPc, netStop, expired, helloEnqueued>> /\ outbox # <<>>
        /\ outbox' = Tail(outbox) /\ wire' = Append(wire, Head(outbox))
    BY <1>6 DEF NetSend
  <2>2. Said' = Said
    BY <1>a, <2>1, SaidSent DEF Said
  <2> QED
    BY <2>1, <2>2 DEF HelloInv
<1>7. CASE NetExpire
  <2>1. /\ UNCHANGED <<netPc, netStop, wire, helloEnqueued>> /\ outbox # <<>>
        /\ outbox' = Tail(outbox)
        /\ expired' = expired + (IF Head(outbox) = "hello" THEN 1 ELSE 0)
    BY <1>7 DEF NetExpire
  <2> DEFINE k == Len(wire) + 1
  <2>2. /\ k \in DOMAIN Said /\ Said[k] = Head(outbox)
        /\ \A i \in DOMAIN Said' :
             \/ i < k /\ i \in DOMAIN Said /\ Said'[i] = Said[i]
             \/ i >= k /\ i + 1 \in DOMAIN Said /\ Said'[i] = Said[i + 1]
        /\ \A i \in DOMAIN Said :
             \/ i = k
             \/ i < k /\ i \in DOMAIN Said' /\ Said'[i] = Said[i]
             \/ i > k /\ i - 1 \in DOMAIN Said' /\ Said'[i - 1] = Said[i]
    <3>1. /\ Said = wire \o outbox /\ Said' = wire \o Tail(outbox)
          /\ DOMAIN Said \subseteq Nat /\ DOMAIN Said' \subseteq Nat /\ k \in Nat
      BY <1>a, <2>1 DEF Said
    <3>2. k \in DOMAIN Said /\ Said[k] = Head(outbox)
      BY <1>a, <2>1, <3>1
    <3>3. \A i \in DOMAIN Said' :
            \/ i < k /\ i \in DOMAIN Said /\ Said'[i] = Said[i]
            \/ i >= k /\ i + 1 \in DOMAIN Said /\ Said'[i] = Said[i + 1]
      BY <1>a, <2>1, <3>1, SMTT(40)
    <3>4. \A i \in DOMAIN Said :
            \/ i = k
            \/ i < k /\ i \in DOMAIN Said' /\ Said'[i] = Said[i]
            \/ i > k /\ i - 1 \in DOMAIN Said' /\ Said'[i - 1] = Said[i]
      <4>1. /\ Len(Said) = Len(wire) + Len(outbox)
            /\ Len(Said') = Len(wire) + Len(outbox) - 1
            /\ DOMAIN Said = 1..Len(Said) /\ DOMAIN Said' = 1..Len(Said')
        BY <1>a, <2>1, <3>1
      <4> SUFFICES ASSUME NEW i \in DOMAIN Said, i # k
                   PROVE  \/ i < k /\ i \in DOMAIN Said' /\ Said'[i] = Said[i]
                          \/ i > k /\ i - 1 \in DOMAIN Said' /\ Said'[i - 1] = Said[i]
        OBVIOUS
      <4>2. CASE i < k
        BY <1>a, <2>1, <3>1, <4>1, <4>2
      <4>3. CASE i > k
        BY <1>a, <2>1, <3>1, <4>1, <4>3, SMTT(40)
      <4> QED
        BY <3>1, <4>1, <4>2, <4>3
    <3> QED
      BY <3>2, <3>3, <3>4
  <2>3. k \in Nat /\ DOMAIN Said \subseteq Nat /\ DOMAIN Said' \subseteq Nat
    BY <1>a, <2>1 DEF Said
  <2> HIDE DEF k
  <2>4. /\ expired \in {0, 1}
        /\ \A i, j \in DOMAIN Said : Said[i] = "hello" /\ Said[j] = "hello" => i = j
        /\ InSeq("hello", Said) => helloEnqueued /\ expired = 0
        /\ expired = 1 => helloEnqueued
        /\ helloEnqueued => InSeq("hello", Said) \/ expired = 1
    BY <1>c, <2>1 DEF HelloInv
  <2>5. \A i, j \in DOMAIN Said' : Said'[i] = "hello" /\ Said'[j] = "hello" => i = j
    BY <2>2, <2>3, <2>4
  <2>6. CASE Head(outbox) = "hello"
    <3>1. InSeq("hello", Said) /\ expired = 0 /\ helloEnqueued
      BY <2>2, <2>4, <2>6 DEF InSeq
    <3>2. expired' = 1
      BY <2>1, <2>6, <3>1
    <3>3. ~InSeq("hello", Said')
      BY <2>2, <2>3, <2>4, <2>6 DEF InSeq
    <3> QED
      BY <2>1, <2>5, <3>1, <3>2, <3>3 DEF HelloInv
  <2>7. CASE Head(outbox) # "hello"
    <3>a. ASSUME InSeq("hello", Said) PROVE InSeq("hello", Said')
      <4>1. PICK i \in DOMAIN Said : Said[i] = "hello"
        BY <3>a DEF InSeq
      <4>2. i # k
        BY <2>2, <2>7, <4>1
      <4> QED
        BY <2>2, <4>1, <4>2 DEF InSeq
    <3>b. ASSUME InSeq("hello", Said') PROVE InSeq("hello", Said)
      BY <2>2, <3>b DEF InSeq
    <3>1. InSeq("hello", Said') <=> InSeq("hello", Said)
      BY <3>a, <3>b
    <3>2. expired' = expired
      BY <1>a, <2>1, <2>7
    <3> QED
      BY <2>1, <2>4, <2>5, <3>1, <3>2 DEF HelloInv
  <2> QED
    BY <2>6, <2>7
<1>8. CASE NetOpen \/ NetFail \/ NetReport \/ NetStopped \/ NetReceive
  <2>1. netPc # "off" /\ UNCHANGED <<netStop, wire, outbox, expired, helloEnqueued>>
    BY <1>8 DEF NetOpen, NetFail, NetReport, NetStopped, NetReceive
  <2> QED
    BY <1>c, <2>1 DEF HelloInv, Said
<1>9. CASE \/ (\E way \in Ways : Connect(way)) \/ Disconnect \/ PollBegin
           \/ PollNotesDone \/ PollPayload \/ PollPayloadsDone \/ PollReady
           \/ Time \/ DiscFound \/ DiscMiss \/ ServerAnswers \/ ServerSends
           \/ UNCHANGED vars
  <2>1. UNCHANGED <<netPc, netStop, wire, outbox, expired, helloEnqueued>>
    BY <1>9 DEF Connect, Disconnect, StopDiscovery, PollBegin, PollNotesDone,
                PollPayload, PollPayloadsDone, PollReady, Time, DiscFound,
                DiscMiss, ServerAnswers, ServerSends, vars
  <2> QED
    BY <1>1, <2>1
<1> QED
  BY <1>2, <1>3, <1>4, <1>5, <1>6, <1>7, <1>8, <1>9
     DEF Next, HostNext, PollSteps, NetNext

-----------------------------------------------------------------------------
(* The life of a connection.                                               *)

\* What one more notification does to the reports of the sockets.
LEMMA ConnectedAppend ==
    ASSUME NEW kind \in {"connected", "error", "discovered"}, NEW e \in Nat,
           NEW s \in Seq(Notes)
    PROVE  LET t == Append(s, Note(kind, e)) IN
           /\ NoneOf("connected", t) <=> NoneOf("connected", s) /\ kind # "connected"
           /\ NoneOf("discovered", t) <=> NoneOf("discovered", s) /\ kind # "discovered"
           /\ OneConnected(s) /\ (kind = "connected" => NoneOf("connected", s))
                => OneConnected(t)
<1> DEFINE x == Note(kind, e)
           t == Append(s, x)
<1>1. x \in Notes /\ x.kind = kind
  BY NoteFacts
<1> HIDE DEF x
<1>2. /\ NoneOf("connected", t) <=> NoneOf("connected", s) /\ kind # "connected"
      /\ NoneOf("discovered", t) <=> NoneOf("discovered", s) /\ kind # "discovered"
  BY <1>1, OnAppend
<1>3. /\ DOMAIN t = DOMAIN s \cup {Len(s) + 1}
      /\ \A i \in DOMAIN s : t[i] = s[i]
      /\ t[Len(s) + 1] = x
  BY <1>1, AppendEntries
<1> HIDE DEF t
<1>4. OneConnected(s) /\ (kind = "connected" => NoneOf("connected", s)) => OneConnected(t)
  BY <1>1, <1>3 DEF OneConnected, NoneOf
<1> QED
  BY <1>2, <1>4 DEF t, x

\* What taking one does to them.
LEMMA ConnectedTail ==
    ASSUME NEW s \in Seq(Notes), s # <<>>, OneConnected(s)
    PROVE  /\ OneConnected(Tail(s))
           /\ Head(s).kind = "connected" => NoneOf("connected", Tail(s))
<1> DEFINE t == Tail(s)
<1>1. /\ \A i \in DOMAIN t : i + 1 \in DOMAIN s /\ t[i] = s[i + 1]
      /\ 1 \in DOMAIN s /\ Head(s) = s[1]
  BY TailEntries
<1>2. DOMAIN t \subseteq Nat \ {0}
  OBVIOUS
<1> HIDE DEF t
<1>3. OneConnected(t)
  <2> SUFFICES ASSUME NEW i \in DOMAIN t, NEW j \in DOMAIN t,
                      t[i].kind = "connected", t[j].kind = "connected"
               PROVE  i = j
    BY DEF OneConnected
  <2>1. i + 1 = j + 1
    BY <1>1 DEF OneConnected
  <2> QED
    BY <1>2, <2>1
<1>4. ASSUME Head(s).kind = "connected" PROVE NoneOf("connected", t)
  <2> SUFFICES ASSUME NEW i \in DOMAIN t, t[i].kind = "connected" PROVE FALSE
    BY DEF NoneOf
  <2>1. i + 1 = 1
    BY <1>1, <1>4 DEF OneConnected
  <2> QED
    BY <1>2, <2>1
<1> QED
  BY <1>3, <1>4 DEF t

\* A poll that finds the device mapped has said hello before.
LEMMA MappedAfterHello ==
    ASSUME TypeOK, HandshakeInv, HelloInv, PhaseInv, At("ready"), mapped
    PROVE  state \in {"synchronizing", "ready", "error"}
<1>1. ~At("reset") /\ ~At("join")
  BY DEF At
<1>2. netPc # "off" /\ ~netStop
  BY <1>1 DEF HandshakeInv, PhaseInv
<1>3. PICK i \in DOMAIN wire : wire[i] = "hello"
  BY DEF HandshakeInv, InSeq
<1>4. wire \in Seq({"hello", "other"}) /\ outbox \in Seq({"hello", "other"})
  BY DEF TypeOK, QueueType
<1>5. i \in DOMAIN Said /\ Said[i] = "hello"
  BY <1>3, <1>4 DEF Said
<1>6. helloEnqueued
  BY <1>2, <1>5 DEF HelloInv, InSeq
<1> QED
  BY <1>6 DEF PhaseInv

\* The ways in which a step moves what the host sees of a connection.
Idles ==
    /\ UNCHANGED <<state, readyEvents, readyFired, epoch>>
    /\ helloEnqueued' => helloEnqueued
Restarts ==
    /\ FinishCall /\ At("reset")
    /\ ~helloEnqueued' /\ ~readyFired' /\ readyEvents' = 0
    /\ \/ call.op = "connect" /\ state' \in {"connecting", "error"} /\ epoch' = epoch + 1
       \/ state' = "disconnected" /\ epoch' = epoch
Hears ==
    /\ PollNote /\ At("notes")
    /\ \/ state = "connecting" /\ state' = "connected"
       \/ state' = "error"
    /\ UNCHANGED <<readyEvents, readyFired, epoch, helloEnqueued>>
Greets ==
    /\ state = "connected" /\ state' = "synchronizing"
    /\ UNCHANGED <<readyEvents, readyFired, epoch>>
Readies ==
    /\ state \in {"synchronizing", "ready"} /\ state' = "ready" /\ ~connError
    /\ readyFired' = TRUE
    /\ readyEvents' = readyEvents + (IF readyFired THEN 0 ELSE 1)
    /\ UNCHANGED <<epoch, helloEnqueued>>
Loses ==
    /\ state = "ready" /\ state' = "synchronizing" /\ readyFired' = FALSE
    /\ UNCHANGED <<readyEvents, epoch, helloEnqueued>>

\* There are no others.
LEMMA StateStep ==
    ASSUME SessionInv, [Next]_vars
    PROVE  Idles \/ Restarts \/ Hears \/ Greets \/ Readies \/ Loses
<1> USE DEF queueVars, clientVars, discVars, netVars, sentVars, laneVars
<1>1. CASE (\E way \in Ways : Connect(way)) \/ Disconnect \/ StopSteps
  BY <1>1 DEF Connect, Disconnect, StopDiscovery, StopSteps, JoinDiscovery,
              StopTransport, JoinTransport, Idles
<1>2. CASE FinishCall
  BY <1>2, Zenon DEF FinishCall, ConnectByAddress, ConnectByDiscovery, ConnectNowhere,
              FinishDisconnect, ResetSessionState, Restarts
<1>3. CASE PollNote
  <2>1. /\ Taken \in Seq(Notes) /\ Taken # <<>> /\ Head(Taken) = Head(drained)
        /\ At("notes")
    BY <1>3, TakenStep DEF SessionInv, PollNote
  <2>2. CASE Head(drained).kind = "discovered"
    <3>1. helloEnqueued' = FALSE /\ UNCHANGED <<state, readyEvents, readyFired, epoch>>
      BY <1>3, <2>2 DEF PollNote
    <3> QED
      BY <3>1 DEF Idles
  <2>3. CASE Head(drained).kind = "connected"
    <3>1. ~NoneOf("connected", Taken)
      BY <2>1, <2>3, OnTail
    <3>2. state = "connecting"
      BY <3>1 DEF SessionInv, ReportInv, Reported
    <3> QED
      BY <1>3, <2>1, <2>3, <3>2 DEF PollNote, SetState, Hears
  <2>4. CASE Head(drained).kind = "error"
    BY <1>3, <2>1, <2>4 DEF PollNote, SetState, Hears
  <2>5. Head(drained).kind \in {"connected", "error", "discovered"}
    <3>1. Head(Taken) \in Notes
      BY <2>1
    <3> QED
      BY <2>1, <3>1 DEF Notes
  <2> QED
    BY <2>2, <2>3, <2>4, <2>5
<1>4. CASE PollHello
  BY <1>4 DEF PollHello, SetState, Idles, Greets
<1>5. CASE PollReady
  <2>1. At("ready") /\ UpdateReady(synced') /\ UNCHANGED <<epoch, helloEnqueued>>
    BY <1>5 DEF PollReady
  <2>2. CASE state \in {"error", "disconnected"}
    BY <2>1, <2>2 DEF UpdateReady, Idles
  <2>3. CASE state \notin {"error", "disconnected"} /\ IsReady(synced')
    <3>1. mapped /\ ~connError
      BY <2>3 DEF IsReady
    <3>2. state \in {"synchronizing", "ready"}
      BY <2>1, <2>3, <3>1, MappedAfterHello DEF SessionInv
    <3> QED
      BY <2>1, <2>3, <3>1, <3>2 DEF UpdateReady, SetState, Readies
  <2>4. CASE state = "ready" /\ ~IsReady(synced')
    BY <2>1, <2>4 DEF UpdateReady, SetState, Loses
  <2>5. CASE state \notin {"error", "disconnected", "ready"} /\ ~IsReady(synced')
    BY <2>1, <2>5 DEF UpdateReady, Idles
  <2> QED
    BY <2>2, <2>3, <2>4, <2>5
<1>6. CASE PollBegin \/ PollNotesDone \/ PollPayload \/ PollPayloadsDone
  BY <1>6 DEF PollBegin, PollNotesDone, PollPayload, PollPayloadsDone, Idles
<1>7. CASE HostSends \/ Time \/ DiscFound \/ DiscMiss
  BY <1>7 DEF HostSends, Time, DiscFound, DiscMiss, Idles
<1>8. CASE NetNext
  BY <1>8 DEF NetNext, NetOpen, NetFail, NetReport, NetSend, NetExpire,
              NetReceive, NetStopped, Idles
<1>9. CASE ServerAnswers \/ ServerSends
  BY <1>9 DEF ServerAnswers, ServerSends, Idles
<1>10. CASE UNCHANGED vars
  BY <1>10 DEF vars, Idles
<1> QED
  BY <1>1, <1>2, <1>3, <1>4, <1>5, <1>6, <1>7, <1>8, <1>9, <1>10
     DEF Next, HostNext, PollSteps

\* What state_ tells of the past stays true.
LEMMA PhaseStep ==
    ASSUME SessionInv, [Next]_vars
    PROVE  PhaseInv'
<1> USE DEF queueVars, clientVars, discVars, netVars, sentVars, laneVars
<1>a. call \in Calls
  BY DEF SessionInv, TypeOK, ClientType
<1>1. /\ helloEnqueued' \/ readyEvents' > 0 => state' \in {"synchronizing", "ready", "error"}
      /\ readyFired' => state' \in {"ready", "error"}
  <2>1. /\ helloEnqueued \/ readyEvents > 0 => state \in {"synchronizing", "ready", "error"}
        /\ readyFired => state \in {"ready", "error"}
    BY DEF SessionInv, PhaseInv
  <2>2. CASE Idles \/ Hears
    BY <2>1, <2>2 DEF Idles, Hears
  <2>3. CASE Restarts
    BY <2>3 DEF Restarts
  <2>4. CASE Greets
    BY <2>1, <2>4 DEF Greets
  <2>5. CASE Readies \/ Loses
    BY <2>5 DEF Readies, Loses
  <2> QED
    BY <2>2, <2>3, <2>4, <2>5, StateStep
<1> DEFINE Calling ==
             /\ netPc # "off" /\ netStop => At("join")
             /\ call # Idle /\ call.op = "poll" => state # "disconnected"
             /\ call # Idle /\ call.op = "connect" => state \in {"disconnected", "error"}
<1>b. Calling
  BY DEF SessionInv, PhaseInv
<1> SUFFICES Calling'
  BY <1>1 DEF PhaseInv
<1>2. CASE (\E way \in Ways : Connect(way)) \/ Disconnect
  <2>1. call = Idle /\ ~At("join")
    BY <1>2 DEF Connect, Disconnect, At
  <2> QED
    BY <1>2, <1>b, <2>1 DEF Connect, Disconnect, StopDiscovery, Idle
<1>3. CASE StopSteps
  <2>1. call # Idle /\ call'.op = call.op /\ call.op # "poll"
    BY <1>3, <1>a, CallAt, CallMoves
       DEF StopSteps, JoinDiscovery, StopTransport, JoinTransport, Steps
  <2>2. UNCHANGED state
    BY <1>3 DEF StopSteps, JoinDiscovery, StopTransport, JoinTransport
  <2>3. netPc' # "off" /\ netStop' => At("join")'
    <3>1. CASE JoinDiscovery
      BY <1>b, <3>1 DEF JoinDiscovery, At
    <3>2. CASE StopTransport
      <4>1. CASE netPc = "off"
        BY <3>2, <4>1 DEF StopTransport
      <4>2. CASE netPc # "off"
        <5>1. call' = [call EXCEPT !.at = "join"] /\ At("net")
          BY <3>2, <4>2 DEF StopTransport
        <5> QED
          BY <1>a, <5>1, CallAt, CallMoves DEF At, Steps
      <4> QED
        BY <4>1, <4>2
    <3>3. CASE JoinTransport
      BY <3>3 DEF JoinTransport
    <3> QED
      BY <1>3, <3>1, <3>2, <3>3 DEF StopSteps
  <2> QED
    BY <1>b, <2>1, <2>2, <2>3
<1>4. CASE FinishCall
  <2>1. call' = Idle /\ At("reset")
    BY <1>4 DEF FinishCall, ConnectByAddress, ConnectByDiscovery, ConnectNowhere,
                FinishDisconnect
  <2>2. netPc' # "off" => ~netStop'
    <3>1. netPc = "off"
      BY <2>1 DEF SessionInv, CallInv
    <3> QED
      BY <1>4, <3>1 DEF FinishCall, ConnectByAddress, ConnectByDiscovery, ConnectNowhere,
                FinishDisconnect, StartTransport
  <2> QED
    BY <2>1, <2>2
<1>5. CASE PollBegin
  BY <1>5, <1>b DEF PollBegin, At, Idle
<1>6. CASE PollNote
  <2>1. call' = call /\ At("notes") /\ call.op = "poll" /\ call # Idle
    BY <1>6, <1>a, CallAt DEF PollNote
  <2>2. state' # "disconnected"
    <3>1. state # "disconnected"
      BY <1>b, <2>1
    <3> QED
      BY <3>1, <2>1, StateStep DEF Idles, Restarts, Hears, Greets, Readies, Loses, At
  <2>3. ~(netPc' # "off" /\ netStop')
    <3>1. ~(netPc # "off" /\ netStop)
      BY <1>b, <2>1 DEF At
    <3> QED
      BY <1>6, <3>1 DEF PollNote, StartTransport
  <2> QED
    BY <2>1, <2>2, <2>3
<1>7. CASE PollNotesDone \/ PollHello \/ PollPayload \/ PollPayloadsDone
  <2>1. call # Idle /\ call.op = "poll" /\ call'.op = "poll" /\ ~At("join")
    BY <1>7, <1>a, CallAt, PollMoves
       DEF PollNotesDone, PollHello, PollPayload, PollPayloadsDone, At
  <2>2. UNCHANGED <<netPc, netStop>> /\ (state' = state \/ state' = "synchronizing")
    BY <1>7 DEF PollNotesDone, PollHello, PollPayload, PollPayloadsDone, SetState
  <2> QED
    BY <1>b, <2>1, <2>2
<1>8. CASE PollReady
  <2>1. call' = Idle /\ ~At("join") /\ UNCHANGED <<netPc, netStop>>
    BY <1>8 DEF PollReady, At
  <2> QED
    BY <1>b, <2>1
<1>9. CASE HostSends \/ Time \/ DiscFound \/ DiscMiss
  BY <1>9, <1>b DEF HostSends, Time, DiscFound, DiscMiss, At
<1>10. CASE NetNext
  BY <1>10, <1>b DEF NetNext, NetOpen, NetFail, NetReport, NetSend, NetExpire,
                     NetReceive, NetStopped, At
<1>11. CASE ServerAnswers \/ ServerSends
  BY <1>11, <1>b DEF ServerAnswers, ServerSends, At
<1>12. CASE UNCHANGED vars
  BY <1>12, <1>b DEF vars, At
<1> QED
  BY <1>2, <1>3, <1>4, <1>5, <1>6, <1>7, <1>8, <1>9, <1>10, <1>11, <1>12
     DEF Next, HostNext, PollSteps

\* A connection reports its sockets once, while it is connecting.
LEMMA ReportStep ==
    ASSUME SessionInv, [Next]_vars
    PROVE  ReportInv'
<1>a. /\ TypeOK /\ CallInv /\ SearchInv /\ ErrorInv /\ ReportInv
      /\ notes \in Seq(Notes) /\ Taken \in Seq(Notes)
      /\ epoch \in Nat /\ netEpoch \in Nat /\ discEpoch \in Nat /\ epoch' \in Nat
  BY TypeOKStep, TakenStep DEF SessionInv, TypeOK, QueueType, ClientType, ThreadType
<1>b. /\ NoneOf("discovered", <<>>) /\ NoneOf("connected", <<>>) /\ OneConnected(<<>>)
  BY OnEmpty DEF OneConnected
<1>1. CASE ~Pushes
  <2>1. /\ notes' = notes /\ Taken' = Taken
        /\ Searching' => Searching
        /\ netPc' = "open" => netPc = "open"
    BY <1>1, <1>a, QuietStep
  <2>2. state = "connecting" => state' = "connecting"
    BY <1>1, StateStep DEF Pushes, Idles, Restarts, Hears, Greets, Readies, Loses
  <2> QED
    BY <1>a, <2>1, <2>2 DEF ReportInv, Starting, Reported
<1>2. CASE FinishCall
  <2>1. /\ Taken' = <<>>
        /\ notes' = <<>> \/ notes' = Append(<<>>, Note("error", epoch'))
    <3>1. Append(<<>>, Note("error", epoch')) = <<Note("error", epoch')>>
      OBVIOUS
    <3> QED
      BY <1>2, <1>a, <3>1, PushStep
  <2>2. /\ NoneOf("connected", notes') /\ NoneOf("discovered", notes')
        /\ OneConnected(notes')
    <3>1. LET t == Append(<<>>, Note("error", epoch'))
          IN  NoneOf("connected", t) /\ NoneOf("discovered", t) /\ OneConnected(t)
      BY <1>a, <1>b, EmptyQueues, ConnectedAppend
    <3> QED
      BY <1>b, <2>1, <3>1
  <2>3. Searching' \/ netPc' = "open" => state' = "connecting"
    <3>1. netPc = "off" /\ discPc = "off"
      BY <1>2, <1>a DEF FinishCall, ConnectByAddress, ConnectByDiscovery,
                        ConnectNowhere, FinishDisconnect, CallInv
    <3> QED
      BY <1>2, <3>1 DEF FinishCall, ConnectByAddress, ConnectByDiscovery,
                        ConnectNowhere, FinishDisconnect, Searching, netVars, discVars
  <2> QED
    BY <1>b, <2>1, <2>2, <2>3 DEF ReportInv, Starting, Reported
<1>3. CASE PollBegin
  <2>1. UNCHANGED <<discPc, netPc, state>>
    BY <1>3 DEF PollBegin, discVars, netVars, clientVars
  <2>2. Taken = <<>> /\ Taken' = notes /\ notes' = <<>>
    BY <1>3, <1>a, TakenStep
  <2> QED
    BY <1>a, <1>b, <2>1, <2>2 DEF ReportInv, Starting, Reported, Searching
<1>4. CASE PollNote
  <2>1. Taken # <<>> /\ Taken' = Tail(Taken)
    BY <1>4, <1>a, TakenStep
  <2>2. /\ NoneOf("discovered", Taken)
             <=> NoneOf("discovered", Taken') /\ Head(Taken).kind # "discovered"
        /\ NoneOf("connected", Taken)
             <=> NoneOf("connected", Taken') /\ Head(Taken).kind # "connected"
        /\ NoneOf("error", Taken)
             <=> NoneOf("error", Taken') /\ Head(Taken).kind # "error"
        /\ Head(Taken).kind = "error" => OnlyErrors(Taken')
    BY <1>a, <2>1, OnTail DEF ErrorInv
  <2>3. /\ OneConnected(Taken')
        /\ Head(Taken).kind = "connected" => NoneOf("connected", Taken')
    BY <1>a, <2>1, ConnectedTail DEF ReportInv
  <2>4. CASE Head(Taken).kind = "connected"
    <3>1. /\ notes' = notes /\ netPc' = netPc /\ discPc' = discPc
      BY <1>4, <1>a, <2>4, PushStep
    <3>2. Reported /\ ~Starting /\ NoneOf("connected", notes)
      BY <1>a, <2>2, <2>4 DEF ReportInv, Reported
    <3>3. ~Reported' /\ ~Starting'
      BY <2>2, <2>3, <2>4, <3>1, <3>2 DEF Starting, Reported, Searching
    <3> QED
      BY <1>a, <2>3, <3>1, <3>2, <3>3 DEF ReportInv
  <2>5. CASE Head(Taken).kind = "error"
    <3>1. /\ notes' = notes /\ netPc' = netPc /\ discPc' = discPc
      BY <1>4, <1>a, <2>5, PushStep
    <3>2. /\ OnlyErrors(notes) /\ OnlyErrors(Taken') /\ netPc # "open" /\ ~Searching
      BY <1>a, <2>2, <2>5 DEF ErrorInv
    <3>3. /\ NoneOf("discovered", notes) /\ NoneOf("connected", notes)
          /\ NoneOf("discovered", Taken') /\ NoneOf("connected", Taken')
      BY <3>2, OnlyErrorsFacts
    <3>4. ~Reported' /\ ~Starting'
      BY <3>1, <3>2, <3>3 DEF Starting, Reported, Searching
    <3> QED
      BY <1>a, <2>3, <3>1, <3>3, <3>4 DEF ReportInv
  <2>6. CASE Head(Taken).kind = "discovered"
    <3>1. netPc = "off"
      BY <1>a, <2>2, <2>6 DEF SearchInv
    <3>2. /\ discPc' = discPc /\ state' = state
          /\ notes' = notes \/ notes' = Append(notes, Note("error", epoch))
      BY <1>4, <1>a, <2>6, <3>1, PushStep
    <3>3. Starting /\ ~Reported /\ state = "connecting"
      BY <1>a, <2>2, <2>6 DEF ReportInv, Starting
    <3>4. NoneOf("connected", notes') /\ OneConnected(notes')
      <4>1. LET t == Append(notes, Note("error", epoch))
            IN  NoneOf("connected", t) /\ OneConnected(t)
        BY <1>a, <3>3, ConnectedAppend DEF Reported, ReportInv
      <4> QED
        BY <1>a, <3>2, <3>3, <4>1 DEF Reported, ReportInv
    <3>5. NoneOf("connected", Taken')
      BY <2>2, <3>3 DEF Reported
    <3> QED
      BY <2>3, <3>2, <3>3, <3>4, <3>5 DEF ReportInv, Reported
  <2>7. Head(Taken).kind \in {"connected", "error", "discovered"}
    <3>1. Head(Taken) \in Notes
      BY <1>a, <2>1
    <3> QED
      BY <3>1 DEF Notes
  <2> QED
    BY <2>4, <2>5, <2>6, <2>7
<1>5. CASE DiscFound
  <2>1. /\ Taken' = Taken /\ Searching /\ netPc' = netPc /\ state' = state
        /\ notes' = Append(notes, Note("discovered", discEpoch))
    BY <1>5, <1>a, PushStep, TakenStep DEF DiscFound
  <2>2. ~Reported /\ state = "connecting"
    BY <1>a, <2>1 DEF ReportInv, Starting
  <2>3. NoneOf("connected", notes') /\ OneConnected(notes')
    BY <1>a, <2>1, <2>2, ConnectedAppend DEF Reported, ReportInv
  <2> QED
    BY <1>a, <2>1, <2>2, <2>3 DEF ReportInv, Reported
<1>6. CASE NetOpen
  <2>1. /\ netPc = "open" /\ netPc' = "loop" /\ discPc' = discPc /\ state' = state
        /\ notes' = Append(notes, Note("connected", netEpoch))
    BY <1>6, <1>a, PushStep
  <2>2. Taken' = Taken
    BY <1>6, <1>a, TakenStep DEF NetOpen
  <2>3. ~Reported /\ state = "connecting"
    BY <1>a, <2>1 DEF ReportInv, Starting
  <2>4. ~Searching /\ NoneOf("discovered", notes) /\ NoneOf("discovered", Taken)
    BY <1>a, <2>1 DEF SearchInv
  <2>5. NoneOf("discovered", notes') /\ OneConnected(notes')
    BY <1>a, <2>1, <2>3, <2>4, ConnectedAppend DEF Reported, ReportInv
  <2>6. ~Starting'
    BY <2>1, <2>2, <2>4, <2>5 DEF Starting, Searching
  <2> QED
    BY <1>a, <2>1, <2>2, <2>3, <2>5, <2>6 DEF ReportInv, Reported
<1>7. CASE NetReport
  <2>1. /\ netPc' # "open" /\ discPc' = discPc /\ state' = state
        /\ notes' = Append(notes, Note("error", netEpoch))
    BY <1>7, <1>a, PushStep
  <2>2. Taken' = Taken
    BY <1>7, <1>a, TakenStep DEF NetReport
  <2>3. /\ NoneOf("connected", notes') <=> NoneOf("connected", notes)
        /\ NoneOf("discovered", notes') <=> NoneOf("discovered", notes)
        /\ OneConnected(notes')
    BY <1>a, <2>1, ConnectedAppend DEF ReportInv
  <2>4. (Starting' => Starting) /\ (Reported' <=> Reported)
    BY <2>1, <2>2, <2>3 DEF Starting, Reported, Searching
  <2> QED
    BY <1>a, <2>1, <2>2, <2>3, <2>4 DEF ReportInv
<1> QED
  BY <1>1, <1>2, <1>3, <1>4, <1>5, <1>6, <1>7 DEF Pushes

-----------------------------------------------------------------------------
(* The theorems.                                                           *)

\* The invariant holds of a client that has just been made.
LEMMA SessionInit == Init => SessionInv
<1> SUFFICES ASSUME Init PROVE SessionInv
  OBVIOUS
<1>0. 0 \in 0..MaxSends
  BY BoundsAssumption
<1>1. ClientType /\ ThreadType
  BY DEF Init, ClientType, ThreadType, States, Calls
<1>2. ~At("notes") /\ ~At("reset") /\ ~At("join") /\ ~At("disc") /\ ~At("net")
  BY DEF Init, At
<1>3. QueueType
  BY <1>0, <1>2, EmptyQueues, LimitsAssumption DEF Init, QueueType
<1>4. CallInv
  BY <1>2 DEF Init, CallInv
<1>5. EpochInv
  BY OnEmpty DEF Init, EpochInv
<1>6. Taken = <<>>
  BY <1>2 DEF Taken
<1>7. SearchInv /\ ErrorInv
  BY <1>6, OnEmpty DEF Init, SearchInv, ErrorInv, Searching
<1>8. HandshakeInv
  BY OnEmpty DEF Init, HandshakeInv, InSeq
<1>9. ReadyInv /\ HelloInv
  BY DEF Init, ReadyInv, HelloInv
<1>10. ReportInv
  BY <1>6, OnEmpty DEF Init, ReportInv, OneConnected, Starting, Reported, Searching
<1>11. PhaseInv
  BY DEF Init, PhaseInv
<1> QED
  BY <1>1, <1>3, <1>4, <1>5, <1>7, <1>8, <1>9, <1>10, <1>11 DEF SessionInv, TypeOK

\* The inductive invariant holds in every state of the client, its two threads
\* and the server, whatever the limits, the timeout and the bounds.
THEOREM SessionInvariant == Spec => []SessionInv
<1>1. Init => SessionInv
  BY SessionInit
<1>2. SessionInv /\ [Next]_vars => SessionInv'
  BY TypeOKStep, CallInvStep, EpochStep, SearchStep, ErrorStep, HandshakeStep,
     ReadyStep, HelloStep, ReportStep, PhaseStep DEF SessionInv
<1> QED
  BY <1>1, <1>2, PTL DEF Spec

\* Every variable of the client keeps its type, and neither queue outgrows its
\* limit, whatever the threads push and whenever the host calls.
THEOREM SessionTypeCorrect == Spec => []TypeOK
<1>1. SessionInv => TypeOK
  BY DEF SessionInv
<1> QED
  BY <1>1, SessionInvariant, PTL

\* No notification and no payload of an earlier connection is ever handled in a
\* later one: connect() and disconnect() join both threads before
\* reset_session_state clears the queues.
THEOREM EventsNeverStale == Spec => []NoStaleEvents
<1>1. SessionInv => NoStaleEvents
  BY DEF SessionInv, EpochInv, AllOf, NoStaleEvents
<1> QED
  BY <1>1, SessionInvariant, PTL

\* update_ready announces a connection once and only after the handshake: the
\* hello on the wire, the mapping applied, the variables synced or given up on.
THEOREM ReadyOnlyAfterHandshake == Spec => []ReadyAfterHandshake
<1>1. SessionInv => ReadyAfterHandshake
  BY DEF SessionInv, ReadyInv, HandshakeInv, ReadyAfterHandshake
<1> QED
  BY <1>1, SessionInvariant, PTL

\* hello_enqueued_ is true exactly when the connection's one hello is in the
\* outbox, on the wire, or expired.
THEOREM HelloAlwaysAccounted == Spec => []HelloAccounted
<1>1. SessionInv => HelloAccounted
  <2> SUFFICES ASSUME SessionInv, netPc # "off", ~netStop
               PROVE  LET hellos == Cardinality({i \in DOMAIN Said : Said[i] = "hello"})
                      IN  hellos + expired = IF helloEnqueued THEN 1 ELSE 0
    BY DEF HelloAccounted, Said
  <2> DEFINE H == {i \in DOMAIN Said : Said[i] = "hello"}
  <2>1. /\ expired \in {0, 1}
        /\ \A i, j \in H : i = j
        /\ H # {} => helloEnqueued /\ expired = 0
        /\ expired = 1 => helloEnqueued
        /\ helloEnqueued => H # {} \/ expired = 1
    BY DEF SessionInv, HelloInv, InSeq
  <2> HIDE DEF H
  <2>2. CASE H = {}
    <3>1. Cardinality(H) = 0
      BY <2>2, FS_EmptySet
    <3>2. expired = IF helloEnqueued THEN 1 ELSE 0
      BY <2>1, <2>2
    <3> QED
      BY <2>1, <3>1, <3>2 DEF H
  <2>3. CASE H # {}
    <3>1. PICK i : H = {i}
      BY <2>1, <2>3
    <3>2. Cardinality(H) = 1
      BY <3>1, FS_Singleton
    <3> QED
      BY <2>1, <2>3, <3>2 DEF H
  <2> QED
    BY <2>2, <2>3
<1> QED
  BY <1>1, SessionInvariant, PTL

\* Only connect() and disconnect() leave the Error state: whatever poll() handles
\* afterwards, late notifications and payloads included, it stays.
THEOREM ErrorNeverLeft == Spec => ErrorSticky
<1> DEFINE Stays == state = "error" => state' = "error" \/ At("reset")
<1>1. SessionInv /\ [Next]_vars => [Stays]_vars
  <2> SUFFICES ASSUME SessionInv, [Next]_vars, state = "error", state' # "error"
               PROVE  At("reset")
    BY DEF vars, clientVars
  <2>1. CASE FinishCall
    BY <2>1 DEF FinishCall, ConnectByAddress, ConnectByDiscovery,
                ConnectNowhere, FinishDisconnect
  <2>2. CASE PollBegin \/ DiscFound \/ NetOpen \/ NetReport
    BY <2>2 DEF PollBegin, DiscFound, NetOpen, NetReport, clientVars
  <2>3. CASE PollNote
    <3>1. /\ Taken \in Seq(Notes) /\ Taken # <<>> /\ Taken' = Tail(Taken)
          /\ OnlyErrors(Taken)
      BY <2>3, TakenStep DEF SessionInv, ErrorInv
    <3>2. Head(Taken).kind = "error"
      BY <3>1, OnTail
    <3> QED
      BY <2>3, <3>2, PushStep DEF SessionInv
  <2>4. CASE ~Pushes
    BY <2>4, QuietStep DEF SessionInv
  <2> QED
    BY <2>1, <2>2, <2>3, <2>4 DEF Pushes
<1> QED
  BY <1>1, SessionInvariant, PTL DEF Spec, ErrorSticky

\* The client keeps module Connection's promise, for any limits and any number of
\* connections, messages and failures: no phase is skipped, Ready is announced once
\* at most, a connection that lost its readiness only fails or ends, and a failed one
\* stays so until the next.
THEOREM LifeCycleFollowed == Spec => FollowsLifeCycle
<1>1. Init => Life!Init
  BY DEF Init, Life!Init, Phase
<1>2. SessionInv /\ [Next]_vars => [Life!Next]_(Life!vars)
  <2> SUFFICES ASSUME SessionInv, [Next]_vars
               PROVE  Life!Next \/ UNCHANGED <<Phase, readyEvents, epoch>>
    BY DEF Life!vars
  <2>1. PhaseInv /\ ReadyInv /\ state \in States
    BY DEF SessionInv, TypeOK, ClientType
  <2>2. CASE Idles
    BY <2>2 DEF Idles, Phase
  <2>3. CASE Restarts
    <3>1. state' # "synchronizing" /\ readyEvents' = 0 /\ Phase' = state'
      BY <2>3 DEF Restarts, Phase
    <3>2. CASE state' = "disconnected" /\ epoch' = epoch
      BY <3>1, <3>2 DEF Life!Next, Life!End
    <3>3. CASE /\ call.op = "connect" /\ state' \in {"connecting", "error"}
               /\ epoch' = epoch + 1
      <4>1. state \in {"disconnected", "error"} /\ Phase = state
        BY <2>1, <2>3, <3>3 DEF PhaseInv, Restarts, At, Phase
      <4> QED
        BY <3>1, <3>3, <4>1 DEF Life!Next, Life!Begin
    <3> QED
      BY <2>3, <3>2, <3>3 DEF Restarts
  <2>4. CASE Hears
    <3>1. state # "disconnected"
      <4>1. call \in Calls
        BY DEF SessionInv, TypeOK, ClientType
      <4> QED
        BY <2>1, <2>4, <4>1, CallAt DEF Hears, PhaseInv
    <3>2. UNCHANGED <<readyEvents, epoch>> /\ Phase' = state'
      BY <2>4 DEF Hears, Phase
    <3>3. CASE state' = "connected" /\ state = "connecting"
      BY <3>2, <3>3 DEF Life!Next, Life!Open, Phase
    <3>4. CASE state' = "error" /\ state = "error"
      BY <3>2, <3>4 DEF Phase
    <3>5. CASE state' = "error" /\ state # "error"
      <4>1. Phase \in {"connecting", "connected", "synchronizing", "ready", "failing"}
        BY <2>1, <3>1, <3>5 DEF States, Phase
      <4> QED
        BY <3>2, <3>5, <4>1 DEF Life!Next, Life!Fail, Life!Alive
    <3> QED
      BY <2>4, <3>3, <3>4, <3>5 DEF Hears
  <2>5. CASE Greets
    <3>1. readyEvents = 0
      BY <2>1, <2>5 DEF Greets, PhaseInv, ReadyInv
    <3> QED
      BY <2>5, <3>1 DEF Greets, Phase, Life!Next, Life!Greet
  <2>6. CASE Readies
    <3>1. CASE state = "ready"
      <4>1. readyFired /\ readyEvents = 1
        BY <2>1, <3>1 DEF ReadyInv
      <4> QED
        BY <2>6, <3>1, <4>1 DEF Readies, Phase
    <3>2. CASE state = "synchronizing"
      <4>1. ~readyFired /\ readyEvents = 0
        BY <2>1, <2>6, <3>2 DEF ReadyInv, PhaseInv, Readies
      <4>2. readyEvents' = 1 /\ state' = "ready" /\ epoch' = epoch
        BY <2>6, <4>1 DEF Readies
      <4> QED
        BY <3>2, <4>1, <4>2 DEF Phase, Life!Next, Life!BecomeReady
    <3> QED
      BY <2>6, <3>1, <3>2 DEF Readies
  <2>7. CASE Loses
    <3>1. readyEvents = 1
      BY <2>1, <2>7 DEF Loses, ReadyInv
    <3> QED
      BY <2>7, <3>1 DEF Loses, Phase, Life!Next, Life!LoseReadiness
  <2> QED
    BY <2>2, <2>3, <2>4, <2>5, <2>6, <2>7, StateStep
<1> QED
  BY <1>1, <1>2, SessionInvariant, PTL DEF Spec, FollowsLifeCycle, Life!Spec

=============================================================================
