------------------------------- MODULE Session -------------------------------
(***************************************************************************)
(* The life of a connection: NetSyncClient (src/src/core/                  *)
(* netsync_client.cpp) with the discovery thread and the network thread it *)
(* starts, stops and hears from.                                           *)
(*                                                                         *)
(* The host's calls connect, disconnect and poll run on the main thread,   *)
(* one at a time, in the steps at which another thread can interfere: the  *)
(* join of a thread, a swap of a queue under inbox_mutex_, a read of the   *)
(* transport's flags.  The other threads only push notifications and       *)
(* payloads.  The transport is reduced to what the client sees of it (its  *)
(* detail is module Transport), and a payload to what the connection's     *)
(* state depends on: the id mapping that names this device, a variable     *)
(* sync, anything else.                                                    *)
(***************************************************************************)
EXTENDS Integers, Sequences, FiniteSets

CONSTANTS
    OutboxMax,   \* kControlOutboxMax
    InboxMax,    \* kControlInboxMax
    SyncTimeout, \* kInitialSyncTimeout, in clock ticks
    None,        \* no time
    MaxEpochs,   \* bound: calls of connect() that get through
    MaxSends,    \* bound: packets the host submits in a session
    MaxDown,     \* bound: server messages in flight
    MaxErrors    \* bound: failures of a session's transport

ASSUME LimitsAssumption ==
    /\ OutboxMax \in Nat \ {0}
    /\ InboxMax \in Nat \ {0}
    /\ SyncTimeout \in Nat
    /\ None \notin Nat
ASSUME BoundsAssumption ==
    {MaxEpochs, MaxSends, MaxDown, MaxErrors} \subseteq Nat

VARIABLES
    state,         \* state_
    call,          \* the main thread's call in progress and its step
    notes,         \* notifications_
    inbox,         \* control_inbox_
    drained,       \* poll: what it swapped out and has not processed yet
    helloEnqueued, \* hello_enqueued_
    mapped,        \* mapping_.local_client_no() > 0
    synced,        \* has_received_initial_sync_
    timer,         \* time to go to the initial-sync timeout, None when not
                   \* connection_established_
    readyFired,    \* ready_fired_
    discPc,        \* the discovery thread; "off" when not joinable
    discStop,      \* its should_stop_
    discovering,   \* its discovering_
    netPc,         \* the network thread; "off" when not joinable
    running,       \* the transport's running_
    netStop,       \* its should_stop_
    connError,     \* its connection_error_
    outbox,        \* control packets accepted and not yet sent
    \* The server, external.
    down,          \* its messages in flight
    answered,      \* it has answered the hello of this session
    \* What an observer sees; the code keeps none of it.
    epoch,         \* calls of connect() that got through
    discEpoch,     \* the epoch in which the discovery thread was started
    netEpoch,      \* the epoch in which the network thread was started
    wire,          \* control packets sent in this session
    expired,       \* hellos that expired in the outbox in this session
    hostSends,     \* packets the host has submitted in this session
    errors,        \* failures of this session's transport
    readyEvents,   \* Ready events of this session
    reported,      \* the state of the last ConnectionStateChanged event
    dropped        \* the inbox overflowed in this session

queueVars == <<notes, inbox, drained>>
clientVars == <<state, helloEnqueued, mapped, synced, timer, readyFired,
                readyEvents, reported, dropped>>
discVars == <<discPc, discStop, discovering, discEpoch>>
netVars == <<netPc, running, netStop, connError, netEpoch, errors>>
sentVars == <<wire, expired>>
laneVars == <<outbox, sentVars, hostSends, down, answered>>
vars == <<call, queueVars, clientVars, discVars, netVars, laneVars,
          epoch>>

States == {"disconnected", "connecting", "connected", "synchronizing",
           "ready", "error"}
Ways == {"address", "discovery", "nothing"}
Idle == [op |-> "idle"]
Steps == {"disc", "net", "join", "reset"}
Calls == {Idle} \cup [op : {"connect"}, way : Ways, at : Steps]
                \cup [op : {"disconnect"}, at : Steps]
                \cup [op : {"poll"}, at : {"notes", "hello", "payloads", "ready"}]
At(step) == call # Idle /\ call.at = step

Note(kind, e) == [kind |-> kind, epoch |-> e]
Notes == [kind : {"connected", "error", "discovered"}, epoch : Nat]
Messages == [kind : {"mapping", "sync", "other"}, epoch : Nat]

Init ==
    /\ state = "disconnected" /\ reported = "disconnected"
    /\ call = Idle
    /\ notes = <<>> /\ inbox = <<>> /\ drained = <<>>
    /\ helloEnqueued = FALSE
    /\ mapped = FALSE
    /\ synced = FALSE
    /\ timer = None
    /\ readyFired = FALSE
    /\ discPc = "off" /\ discStop = FALSE /\ discovering = FALSE
    /\ netPc = "off" /\ running = FALSE /\ netStop = FALSE /\ connError = FALSE
    /\ outbox = <<>> /\ wire = <<>> /\ down = <<>> /\ answered = FALSE
    /\ hostSends = 0 /\ expired = 0
    /\ epoch = 0 /\ discEpoch = 0 /\ netEpoch = 0
    /\ errors = 0
    /\ readyEvents = 0
    /\ dropped = FALSE

-----------------------------------------------------------------------------
(* connect() and disconnect().                                             *)

\* Both begin with discovery_.stop(), which signals the thread.
StopDiscovery ==
    /\ discStop' = TRUE
    /\ discovering' = FALSE
    /\ UNCHANGED <<queueVars, clientVars, discPc, discEpoch, netVars, laneVars,
                   epoch>>

\* connect() returns at once in any other state.
Connect(way) ==
    /\ call = Idle
    /\ state \in {"disconnected", "error"}
    /\ epoch < MaxEpochs
    /\ call' = [op |-> "connect", way |-> way, at |-> "disc"]
    /\ StopDiscovery

Disconnect ==
    /\ call = Idle
    /\ call' = [op |-> "disconnect", at |-> "disc"]
    /\ StopDiscovery

JoinDiscovery ==
    /\ At("disc")
    /\ discPc \in {"off", "done"}
    /\ discPc' = "off"
    /\ call' = [call EXCEPT !.at = "net"]
    /\ UNCHANGED <<queueVars, clientVars, discStop, discovering, discEpoch,
                   netVars, laneVars, epoch>>

\* Mutant: the network thread of a failed connection is not waited for.
StopTransportUnlessFailed ==
    /\ At("net")
    /\ IF netPc = "off" \/ connError
       THEN /\ running' = FALSE
            /\ call' = [call EXCEPT !.at = "reset"]
            /\ UNCHANGED <<netStop, outbox>>
       ELSE /\ netStop' = TRUE
            /\ outbox' = <<>>
            /\ call' = [call EXCEPT !.at = "join"]
            /\ UNCHANGED running
    /\ UNCHANGED <<queueVars, clientVars, discVars, netPc, connError, netEpoch,
                   errors, sentVars, hostSends, down, answered, epoch>>

\* transport_.stop(): signal the thread and clear the queues, if there is one.
StopTransport ==
    /\ At("net")
    /\ IF netPc = "off"
       THEN /\ running' = FALSE
            /\ call' = [call EXCEPT !.at = "reset"]
            /\ UNCHANGED <<netStop, outbox>>
       ELSE /\ netStop' = TRUE
            /\ outbox' = <<>>
            /\ call' = [call EXCEPT !.at = "join"]
            /\ UNCHANGED running
    /\ UNCHANGED <<queueVars, clientVars, discVars, netPc, connError, netEpoch,
                   errors, sentVars, hostSends, down, answered, epoch>>

JoinTransport ==
    /\ At("join")
    /\ netPc = "done"
    /\ netPc' = "off"
    /\ running' = FALSE
    /\ call' = [call EXCEPT !.at = "reset"]
    /\ UNCHANGED <<queueVars, clientVars, discVars, netStop, connError,
                   netEpoch, errors, laneVars, epoch>>

\* reset_session_state, but for the notifications and the hello flag, which
\* start_transport writes too.
ResetSessionState ==
    /\ inbox' = <<>>
    /\ mapped' = FALSE
    /\ synced' = FALSE
    /\ timer' = None
    /\ readyFired' = FALSE
    /\ readyEvents' = 0
    /\ dropped' = FALSE
    /\ helloEnqueued' = FALSE

\* ZmqTransport::start() as start_transport uses it: refused while a thread is
\* there; otherwise a thread is started, or the context cannot be created and
\* on_error_ runs at once.  queued: the notifications before it.
StartTransport(queued, e) ==
    IF running \/ netPc # "off"
    THEN /\ notes' = queued
         /\ UNCHANGED <<netVars, laneVars>>
    ELSE /\ netStop' = FALSE
         /\ connError' = FALSE
         /\ \/ /\ running' = TRUE
               /\ netPc' = "open"
               /\ notes' = queued
            \/ /\ UNCHANGED <<running, netPc>>
               /\ notes' = Append(queued, Note("error", e))
         /\ netEpoch' = e
         /\ errors' = 0
         /\ wire' = <<>> /\ expired' = 0 /\ hostSends' = 0
         /\ down' = <<>> /\ answered' = FALSE
         /\ UNCHANGED outbox

\* connect() with a server address.
ConnectByAddress ==
    /\ At("reset") /\ call.op = "connect" /\ call.way = "address"
    /\ ResetSessionState
    /\ epoch' = epoch + 1
    /\ state' = "connecting"
    /\ StartTransport(<<>>, epoch + 1)
    /\ call' = Idle
    /\ UNCHANGED <<drained, reported, discVars>>

\* connect() without one: ServerDiscovery::start().
ConnectByDiscovery ==
    /\ At("reset") /\ call.op = "connect" /\ call.way = "discovery"
    /\ ResetSessionState
    /\ notes' = <<>>
    /\ epoch' = epoch + 1
    /\ IF discovering \/ discPc # "off"
       THEN /\ state' = "error"
            /\ UNCHANGED discVars
       ELSE /\ discStop' = FALSE
            /\ discovering' = TRUE
            /\ discPc' = "localhost"
            /\ discEpoch' = epoch + 1
            /\ state' = "connecting"
    /\ call' = Idle
    /\ UNCHANGED <<drained, reported, netVars, laneVars>>

\* connect() with neither an address nor discovery.
ConnectNowhere ==
    /\ At("reset") /\ call.op = "connect" /\ call.way = "nothing"
    /\ ResetSessionState
    /\ notes' = <<>>
    /\ epoch' = epoch + 1
    /\ state' = "error"
    /\ call' = Idle
    /\ UNCHANGED <<drained, reported, discVars, netVars, laneVars>>

FinishDisconnect ==
    /\ At("reset") /\ call.op = "disconnect"
    /\ ResetSessionState
    /\ notes' = <<>>
    /\ state' = "disconnected"
    /\ call' = Idle
    /\ UNCHANGED <<drained, reported, discVars, netVars, laneVars, epoch>>

-----------------------------------------------------------------------------
(* poll().                                                                 *)

\* poll() returns at once when disconnected.  drain_internal_events swaps the
\* notifications out.
PollBegin ==
    /\ call = Idle
    /\ state # "disconnected"
    /\ drained' = notes
    /\ notes' = <<>>
    /\ call' = [op |-> "poll", at |-> "notes"]
    /\ UNCHANGED <<inbox, clientVars, discVars, netVars, laneVars, epoch>>

\* set_state: a new state is reported to the host.
SetState(s) ==
    /\ state' = s
    /\ reported' = IF s = state THEN reported ELSE s

\* One notification is handled.  A log entry changes nothing and is left out.
PollNote ==
    /\ At("notes")
    /\ drained # <<>>
    /\ drained' = Tail(drained)
    /\ LET note == Head(drained) IN
       IF note.kind = "discovered"
       THEN /\ StartTransport(notes, epoch)
            /\ helloEnqueued' = FALSE
            /\ UNCHANGED <<state, reported>>
       ELSE /\ SetState(note.kind)
            /\ UNCHANGED <<notes, helloEnqueued, netVars, laneVars>>
    /\ UNCHANGED <<call, inbox, mapped, synced, timer, readyFired, readyEvents,
                   dropped, discVars, epoch>>

PollNotesDone ==
    /\ At("notes")
    /\ drained = <<>>
    /\ call' = [call EXCEPT !.at = "hello"]
    /\ UNCHANGED <<queueVars, clientVars, discVars, netVars, laneVars, epoch>>

\* try_enqueue_control as seen by the client.
CanEnqueue == ~netStop /\ ~connError /\ running /\ Len(outbox) < OutboxMax

\* Mutant: hello_enqueued_ = true is missing.
PollHelloForgotten ==
    /\ At("hello")
    /\ drained' = inbox
    /\ inbox' = <<>>
    /\ call' = [call EXCEPT !.at = "payloads"]
    /\ IF state = "connected" /\ ~helloEnqueued
       THEN /\ timer' = SyncTimeout
            /\ outbox' = IF CanEnqueue THEN Append(outbox, "hello") ELSE outbox
       ELSE UNCHANGED <<timer, outbox>>
    /\ UNCHANGED <<notes, state, reported, helloEnqueued, mapped, synced,
                   readyFired, readyEvents, dropped, discVars, netVars,
                   sentVars, hostSends, down, answered, epoch>>

\* Mutant: the initial-sync timeout is not seeded.
PollHelloUntimed ==
    /\ At("hello")
    /\ drained' = inbox
    /\ inbox' = <<>>
    /\ call' = [call EXCEPT !.at = "payloads"]
    /\ IF state = "connected" /\ ~helloEnqueued /\ CanEnqueue
       THEN /\ outbox' = Append(outbox, "hello")
            /\ helloEnqueued' = TRUE
            /\ SetState("synchronizing")
       ELSE UNCHANGED <<outbox, helloEnqueued, state, reported>>
    /\ UNCHANGED <<notes, timer, mapped, synced, readyFired, readyEvents,
                   dropped, discVars, netVars, sentVars, hostSends, down,
                   answered, epoch>>

\* The initial-sync timeout is seeded and the hello enqueued, again on every
\* poll until the outbox takes it; then the payloads are swapped out.
PollHello ==
    /\ At("hello")
    /\ drained' = inbox
    /\ inbox' = <<>>
    /\ call' = [call EXCEPT !.at = "payloads"]
    /\ IF state = "connected" /\ ~helloEnqueued
       THEN /\ timer' = SyncTimeout
            /\ IF CanEnqueue
               THEN /\ outbox' = Append(outbox, "hello")
                    /\ helloEnqueued' = TRUE
                    /\ SetState("synchronizing")
               ELSE UNCHANGED <<outbox, helloEnqueued, state, reported>>
       ELSE UNCHANGED <<timer, outbox, helloEnqueued, state, reported>>
    /\ UNCHANGED <<notes, mapped, synced, readyFired, readyEvents, dropped,
                   discVars, netVars, sentVars, hostSends, down, answered,
                   epoch>>

\* process_control_payload.
PollPayload ==
    /\ At("payloads")
    /\ drained # <<>>
    /\ drained' = Tail(drained)
    /\ mapped' = (mapped \/ Head(drained).kind = "mapping")
    /\ synced' = (synced \/ Head(drained).kind = "sync")
    /\ UNCHANGED <<call, notes, inbox, state, reported, helloEnqueued, timer,
                   readyFired, readyEvents, dropped, discVars, netVars,
                   laneVars, epoch>>

PollPayloadsDone ==
    /\ At("payloads")
    /\ drained = <<>>
    /\ call' = [call EXCEPT !.at = "ready"]
    /\ UNCHANGED <<queueVars, clientVars, discVars, netVars, laneVars, epoch>>

\* Mutant: a connection is ready once its sockets are.
IsReadyUnmapped(sync) == running /\ ~connError

\* is_ready().
IsReady(sync) == running /\ ~connError /\ mapped /\ sync

\* update_ready.
UpdateReady(sync) ==
    IF state \in {"error", "disconnected"}
    THEN UNCHANGED <<state, reported, readyFired, readyEvents>>
    ELSE IF IsReady(sync)
    THEN /\ SetState("ready")
         /\ readyFired' = TRUE
         /\ readyEvents' = readyEvents + (IF readyFired THEN 0 ELSE 1)
    ELSE IF state = "ready"
    THEN /\ SetState("synchronizing")
         /\ readyFired' = FALSE
         /\ UNCHANGED readyEvents
    ELSE UNCHANGED <<state, reported, readyFired, readyEvents>>

\* check_initial_sync_timeout and update_ready end the poll.  What the managers
\* send from poll() is among the sends of HostSends.
PollReady ==
    /\ At("ready")
    /\ synced' = (synced \/ timer = 0)
    /\ UpdateReady(synced')
    /\ call' = Idle
    /\ UNCHANGED <<queueVars, helloEnqueued, mapped, timer, dropped, discVars,
                   netVars, laneVars, epoch>>

\* The host sets a variable or asks for an object: the manager hands a packet
\* to try_enqueue_control, whatever state_ is.
HostSends ==
    /\ call = Idle
    /\ CanEnqueue
    /\ hostSends < MaxSends
    /\ hostSends' = hostSends + 1
    /\ outbox' = Append(outbox, "other")
    /\ UNCHANGED <<call, queueVars, clientVars, discVars, netVars, sentVars,
                   down, answered, epoch>>

\* The host's clock advances between two polls.
Time ==
    /\ call = Idle
    /\ timer # None /\ timer > 0
    /\ timer' = timer - 1
    /\ UNCHANGED <<call, queueVars, state, reported, helloEnqueued, mapped,
                   synced, readyFired, readyEvents, dropped, discVars,
                   netVars, laneVars, epoch>>

-----------------------------------------------------------------------------
(* The discovery thread: discovery_loop.                                   *)

\* A probe or a broadcast is answered, even while stop() is waiting: report().
DiscFound ==
    /\ discPc \in {"localhost", "cached", "broadcast"}
    /\ discovering' = FALSE
    /\ notes' = Append(notes, Note("discovered", discEpoch))
    /\ discPc' = "done"
    /\ UNCHANGED <<call, inbox, drained, clientVars, discStop, discEpoch,
                   netVars, laneVars, epoch>>

\* Mutant: the broadcast loop does not look at should_stop_.
DiscMissDeaf ==
    /\ \/ discPc = "localhost" /\ discPc' = IF discStop THEN "done" ELSE "cached"
       \/ discPc = "cached" /\ discPc' = IF discStop THEN "done" ELSE "broadcast"
       \/ discPc = "broadcast" /\ UNCHANGED discPc
    /\ UNCHANGED <<call, queueVars, clientVars, discStop, discovering,
                   discEpoch, netVars, laneVars, epoch>>

\* Nothing answers: should_stop_ is looked at, then the next method is tried.
\* The broadcasts are repeated.
DiscMiss ==
    /\ \/ discPc = "localhost" /\ discPc' = IF discStop THEN "done" ELSE "cached"
       \/ discPc = "cached" /\ discPc' = IF discStop THEN "done" ELSE "broadcast"
       \/ /\ discPc = "broadcast"
          /\ discPc' = IF discStop \/ ~discovering THEN "done" ELSE discPc
    /\ UNCHANGED <<call, queueVars, clientVars, discStop, discovering,
                   discEpoch, netVars, laneVars, epoch>>

-----------------------------------------------------------------------------
(* The network thread: network_loop, and its callbacks.                    *)

\* The sockets are connected: on_connected_.
NetOpen ==
    /\ netPc = "open"
    /\ notes' = Append(notes, Note("connected", netEpoch))
    /\ netPc' = "loop"
    /\ UNCHANGED <<call, inbox, drained, clientVars, discVars, running,
                   netStop, connError, netEpoch, errors, laneVars, epoch>>

\* connection_error_ is set: a socket cannot be set up, or the second frame of
\* a message (control or pose) cannot be sent.
NetFail ==
    /\ netPc \in {"open", "loop"}
    /\ errors < MaxErrors
    /\ connError' = TRUE
    /\ errors' = errors + 1
    /\ netPc' = IF netPc = "open" THEN "openFailed" ELSE "loopFailed"
    /\ UNCHANGED <<call, queueVars, clientVars, discVars, running, netStop,
                   netEpoch, laneVars, epoch>>

\* Mutant: the failure is not reported.
NetReportSilent ==
    /\ netPc \in {"openFailed", "loopFailed"}
    /\ netPc' = IF netPc = "openFailed" THEN "done" ELSE "loop"
    /\ UNCHANGED <<call, queueVars, clientVars, discVars, running, netStop,
                   connError, netEpoch, errors, laneVars, epoch>>

\* Mutant: a thread that could not open its sockets tries again.
NetReportRetries ==
    /\ netPc \in {"openFailed", "loopFailed"}
    /\ notes' = Append(notes, Note("error", netEpoch))
    /\ netPc' = IF netPc = "openFailed" THEN "open" ELSE "loop"
    /\ UNCHANGED <<call, inbox, drained, clientVars, discVars, running,
                   netStop, connError, netEpoch, errors, laneVars, epoch>>

\* on_error_.  Only a thread that could not open its sockets ends.
NetReport ==
    /\ netPc \in {"openFailed", "loopFailed"}
    /\ notes' = Append(notes, Note("error", netEpoch))
    /\ netPc' = IF netPc = "openFailed" THEN "done" ELSE "loop"
    /\ UNCHANGED <<call, inbox, drained, clientVars, discVars, running,
                   netStop, connError, netEpoch, errors, laneVars, epoch>>

NetSend ==
    /\ netPc = "loop"
    /\ outbox # <<>>
    /\ wire' = Append(wire, Head(outbox))
    /\ outbox' = Tail(outbox)
    /\ UNCHANGED <<call, queueVars, clientVars, discVars, netVars, expired,
                   hostSends, down, answered, epoch>>

\* The oldest packet has waited longer than kControlTtlSeconds.
NetExpire ==
    /\ netPc = "loop"
    /\ outbox # <<>>
    /\ expired' = expired + (IF Head(outbox) = "hello" THEN 1 ELSE 0)
    /\ outbox' = Tail(outbox)
    /\ UNCHANGED <<call, queueVars, clientVars, discVars, netVars, wire,
                   hostSends, down, answered, epoch>>

\* receive_control and handle_payload: the oldest entry of a full inbox goes.
NetReceive ==
    /\ netPc = "loop"
    /\ down # <<>>
    /\ down' = Tail(down)
    /\ LET m == [kind |-> Head(down), epoch |-> netEpoch] IN
       IF Len(inbox) >= InboxMax
       THEN inbox' = Append(Tail(inbox), m) /\ dropped' = TRUE
       ELSE inbox' = Append(inbox, m) /\ UNCHANGED dropped
    /\ UNCHANGED <<call, notes, drained, state, reported, helloEnqueued, mapped,
                   synced, timer, readyFired, readyEvents, discVars, netVars,
                   outbox, sentVars, hostSends, answered, epoch>>

NetStopped ==
    /\ netPc = "loop"
    /\ netStop
    /\ netPc' = "done"
    /\ UNCHANGED <<call, queueVars, clientVars, discVars, running, netStop,
                   connError, netEpoch, errors, laneVars, epoch>>

-----------------------------------------------------------------------------
(* The server, external.                                                   *)

InSeq(x, s) == \E i \in DOMAIN s : s[i] = x

\* It answers the hello with the id mapping, then the variables, if the room
\* has any.
ServerAnswers ==
    /\ netPc = "loop"
    /\ InSeq("hello", wire) /\ ~answered
    /\ answered' = TRUE
    /\ down' \in {Append(down, "mapping"), down \o <<"mapping", "sync">>}
    /\ UNCHANGED <<call, queueVars, clientVars, discVars, netVars, outbox,
                   sentVars, hostSends, epoch>>

\* It sends anything else to a client whose hello it has answered.
ServerSends ==
    /\ netPc = "loop"
    /\ answered
    /\ Len(down) < MaxDown
    /\ down' = Append(down, "other")
    /\ UNCHANGED <<call, queueVars, clientVars, discVars, netVars, outbox,
                   sentVars, hostSends, answered, epoch>>

-----------------------------------------------------------------------------

StopSteps == JoinDiscovery \/ StopTransport \/ JoinTransport
FinishCall ==
    ConnectByAddress \/ ConnectByDiscovery \/ ConnectNowhere \/ FinishDisconnect
PollSteps ==
    \/ PollNote \/ PollNotesDone \/ PollHello
    \/ PollPayload \/ PollPayloadsDone \/ PollReady

HostNext ==
    \/ \E way \in Ways : Connect(way)
    \/ Disconnect
    \/ StopSteps
    \/ FinishCall
    \/ PollBegin
    \/ PollSteps
    \/ HostSends
    \/ Time

NetNext ==
    \/ NetOpen \/ NetFail \/ NetReport \/ NetSend \/ NetExpire \/ NetReceive
    \/ NetStopped

Next ==
    HostNext \/ DiscFound \/ DiscMiss \/ NetNext \/ ServerAnswers \/ ServerSends

Spec == Init /\ [][Next]_vars

\* The host polls in every frame and its clock runs on between the polls; the
\* threads are scheduled.
\* Nothing is assumed of discovery but that its probes return.  The network
\* thread opens its sockets or fails to, and its loop sends, receives and looks at
\* should_stop_ in every iteration; nothing makes a live connection fail.
\* External: the server answers a hello.
Fairness ==
    /\ WF_vars(StopSteps) /\ WF_vars(FinishCall)
    /\ WF_vars(PollBegin) /\ WF_vars(PollSteps) /\ SF_vars(Time)
    /\ WF_vars(DiscMiss)
    /\ WF_vars(netPc = "open" /\ (NetOpen \/ NetFail)) /\ WF_vars(NetReport)
    /\ WF_vars(NetSend \/ NetExpire) /\ WF_vars(NetReceive)
    /\ WF_vars(NetStopped)
    /\ WF_vars(ServerAnswers)

FairSpec == Spec /\ Fairness

-----------------------------------------------------------------------------
(* Properties.                                                             *)

ClientType ==
    /\ state \in States /\ reported \in States
    /\ call \in Calls
    /\ helloEnqueued \in BOOLEAN
    /\ mapped \in BOOLEAN
    /\ synced \in BOOLEAN
    /\ timer \in Nat \cup {None}
    /\ readyFired \in BOOLEAN
    /\ readyEvents \in Nat
    /\ epoch \in Nat
    /\ dropped \in BOOLEAN

QueueType ==
    /\ notes \in Seq(Notes)
    /\ inbox \in Seq(Messages)
    /\ Len(inbox) <= InboxMax
    /\ At("notes") => drained \in Seq(Notes)
    /\ ~At("notes") => drained \in Seq(Messages)
    /\ outbox \in Seq({"hello", "other"})
    /\ Len(outbox) <= OutboxMax
    /\ wire \in Seq({"hello", "other"})
    /\ hostSends \in 0..MaxSends
    /\ expired \in Nat
    /\ down \in Seq({"mapping", "sync", "other"})

ThreadType ==
    /\ discPc \in {"off", "localhost", "cached", "broadcast", "done"}
    /\ discStop \in BOOLEAN
    /\ discovering \in BOOLEAN
    /\ discEpoch \in Nat
    /\ netPc \in {"off", "open", "openFailed", "loop", "loopFailed", "done"}
    /\ running \in BOOLEAN
    /\ netStop \in BOOLEAN
    /\ connError \in BOOLEAN
    /\ netEpoch \in Nat
    /\ errors \in Nat
    /\ answered \in BOOLEAN

\* Every variable keeps its type, and the two queues their limits
\* (kControlOutboxMax, kControlInboxMax).
TypeOK == ClientType /\ QueueType /\ ThreadType

\* Nothing that a thread of an earlier connection pushed is handled, or waits
\* to be handled, in a later one: the joins of connect() and disconnect() come
\* before reset_session_state.
NoStaleEvents ==
    call = Idle \/ call.op = "poll" =>
        /\ \A i \in DOMAIN notes : notes[i].epoch = epoch
        /\ \A i \in DOMAIN inbox : inbox[i].epoch = epoch
        /\ \A i \in DOMAIN drained : drained[i].epoch = epoch

\* A connection is ready only when the server has had its hello and has named
\* its client number, and the variables are synced or given up on; and the host
\* has been told so once, although update_ready re-arms the event when readiness
\* is lost.
ReadyAfterHandshake ==
    state = "ready" =>
        mapped /\ synced /\ InSeq("hello", wire) /\ readyEvents = 1

\* hello_enqueued_ tells the truth for as long as the network thread runs: the
\* one hello of the connection is in the outbox, sent or expired exactly when the
\* flag is set, however often poll() retries a full outbox and whichever way
\* the connection was begun (enqueue_hello, start_transport).
HelloAccounted ==
    LET sent == wire \o outbox
        hellos == Cardinality({i \in DOMAIN sent : sent[i] = "hello"})
    IN  netPc # "off" /\ ~netStop =>
            hellos + expired = IF helloEnqueued THEN 1 ELSE 0

\* Only connect() and disconnect() leave the Error state: no notification or
\* payload that arrives late does.
ErrorSticky ==
    [][state = "error" =>
        state' = "error" \/ At("reset")]_vars

\* state_ as the host should understand it: a connection that is synchronising
\* again after its Ready event has failed, and poll() has not heard of it yet.
Phase == IF state = "synchronizing" /\ readyEvents > 0 THEN "failing" ELSE state

Life == INSTANCE Connection WITH
    phase <- Phase, announced <- readyEvents, number <- epoch

\* The calls, the queues and the threads together are module Connection: whichever
\* way the notifications, the payloads and the transport's flags interleave, a
\* connection skips no phase, is announced once at most although update_ready
\* re-arms ready_fired_, and never comes back from a failure
\* (drain_internal_events, enqueue_hello, update_ready, connect, disconnect).
FollowsLifeCycle == Life!Spec

\* connect() and disconnect() return: no join waits for ever.
CallsReturn == (call # Idle /\ call.op # "poll") ~> call = Idle

\* A failure of the transport reaches the host as the Error state, unless the
\* host ends the connection first.  (connection_error_ outlives the thread: only
\* the next start() clears it.)
ErrorSurfaces ==
    (connError /\ netPc # "off") ~> state \in {"error", "disconnected"}

\* A connection that has been begun becomes ready or ends, also in a room that
\* never sends a variable sync.  Three cases are set apart, and the code handles
\* none of them: no server answers discovery, the hello expires in the outbox,
\* the inbox overflows and may drop the mapping.  (MaxSends keeps the host from
\* filling the outbox for ever.)
ReadyEventually ==
    state \in {"connecting", "connected", "synchronizing"} ~>
        \/ state \in {"ready", "error", "disconnected"}
        \/ discPc = "broadcast" \/ (expired > 0) \/ dropped

\* "The hello must be the first control message of the connection"
\* (netsync_client.cpp, enqueue_hello).
HelloFirst == wire # <<>> => Head(wire) = "hello"

\* "The connection state changed." (net_sync_manager.gd, of the signal
\* connection_state_changed): a host that follows the reports of set_state
\* knows the state that get_connection_state would give it.
StateReported == call = Idle => reported = state
=============================================================================
