------------------------------ MODULE Transport ------------------------------
(***************************************************************************)
(* The outbound half of ZmqTransport (src/src/transport/zmq_transport.cpp). *)
(*                                                                         *)
(* Two threads share it.  The main thread calls start, stop,               *)
(* try_enqueue_control, set_latest_transform, set_latest_object_transform  *)
(* and clear_outgoing; the network thread runs network_loop.               *)
(* An action is one stretch of a thread between two points at which the    *)
(* other one can be observed: a critical section of outbound_mutex_, a     *)
(* load or store of an atomic flag, or a call into libzmq.                 *)
(*                                                                         *)
(* A control payload is the number of its accepted enqueue; a pose payload *)
(* is a member of Payloads, and two submissions may carry equal bytes,     *)
(* because the code compares payloads and not submissions.  libzmq is      *)
(* external: a send is accepted, refused by backpressure, or fails on its  *)
(* second frame.                                                           *)
(***************************************************************************)
EXTENDS Integers, Sequences

CONSTANTS
    Payloads,    \* the distinguishable pose payloads
    ObjectIds,   \* the object ids the host uses
    OutboxMax,   \* kControlOutboxMax
    DrainBatch,  \* kControlDrainBatch
    TTL,         \* kControlTtlSeconds, in clock ticks
    None,        \* no payload, no packet
    MaxSessions, \* bound: calls of start()
    MaxControl,  \* bound: accepted control packets of a session
    MaxReports,  \* bound: callbacks the transport makes in a session
    MaxClock     \* bound: clock ticks

ASSUME PayloadsAssumption == None \notin Payloads
ASSUME ObjectIdsAssumption == ObjectIds \subseteq Nat
ASSUME LimitsAssumption ==
    /\ OutboxMax \in Nat \ {0}
    /\ DrainBatch \in Nat \ {0}
    /\ TTL \in Nat
ASSUME BoundsAssumption ==
    {MaxSessions, MaxControl, MaxReports, MaxClock} \subseteq Nat

Packets == [id : Nat, session : Nat, at : Nat]

ASSUME NoneAssumption == None \notin Packets

VARIABLES
    call,         \* the main thread's call in progress
    running,      \* running_
    shouldStop,   \* should_stop_
    connError,    \* connection_error_
    socketsReady, \* sockets_ready_
    outbox,       \* control_outbox_
    pending,      \* pending_control_, None when has_pending_control_ is false
    latest,       \* latest_transform_, None when has_latest_transform_ is false
    objects,      \* latest_object_transforms_, None where the map has no entry
    netPc,        \* where the network thread is; "off" when not joinable
    drainNow,     \* drain_control_sends: now
    batch,        \* drain_control_sends: sent
    copy,         \* the payload copied out under the lock, being sent
    objectIds,    \* try_send_latest_object_transforms: ids not yet visited
    clock,        \* monotonic_seconds()
    \* What an observer of the session sees; the code keeps none of it.
    session,      \* how many times start() created a session
    accepted,     \* control packets accepted in this session
    expired,      \* ids dropped by the TTL in this session
    cleared,      \* the newest id that clear_outgoing has passed over
    wire,         \* control packets put on the wire in this session
    torn,         \* a control frame was sent from storage being cleared
    poseIn,       \* newest avatar pose accepted in this session, None when
                  \* clear_outgoing has run since
    poseOut,      \* newest avatar pose put on the wire
    objectIn,     \* the same for every object
    objectOut,
    reports       \* callbacks made in this session: on_connected_, on_error_

flags == <<running, shouldStop, connError, socketsReady>>
queues == <<outbox, pending, latest, objects>>
netLocals == <<drainNow, batch, copy, objectIds>>
controlHistory == <<session, accepted, expired, cleared, wire, torn>>
poseHistory == <<poseIn, poseOut, objectIn, objectOut>>
vars == <<call, flags, queues, netPc, netLocals, clock,
          controlHistory, poseHistory, reports>>

Idle == [op |-> "idle"]
Calls ==
    [op : {"idle", "control", "clear", "join"}]
        \cup [op : {"pose"}, payload : Payloads]
        \cup [op : {"object"}, id : ObjectIds, payload : Payloads]

NetPcs == {"off", "open", "drain", "send", "pose", "poseSend", "poseClear",
           "objects", "objectCopy", "objectSend", "objectErase", "loop", "done"}

NoObjects == [o \in ObjectIds |-> None]

Init ==
    /\ call = Idle
    /\ running = FALSE
    /\ shouldStop = FALSE
    /\ connError = FALSE
    /\ socketsReady = FALSE
    /\ outbox = <<>>
    /\ pending = None
    /\ latest = None
    /\ objects = NoObjects
    /\ netPc = "off"
    /\ drainNow = 0
    /\ batch = 0
    /\ copy = None
    /\ objectIds = {}
    /\ clock = 0
    /\ session = 0
    /\ accepted = 0
    /\ expired = {}
    /\ cleared = 0
    /\ wire = <<>>
    /\ torn = FALSE
    /\ poseIn = None
    /\ poseOut = None
    /\ objectIn = NoObjects
    /\ objectOut = NoObjects
    /\ reports = <<>>

-----------------------------------------------------------------------------
(* Time.                                                                   *)

\* monotonic_seconds() advances.
Tick ==
    /\ clock < MaxClock
    /\ clock' = clock + 1
    /\ UNCHANGED <<call, flags, queues, netPc, netLocals,
                   controlHistory, poseHistory, reports>>

-----------------------------------------------------------------------------
(* The main thread.                                                        *)

\* start() resets the three flags before it does anything that can fail.
StartSession ==
    /\ call = Idle
    /\ ~running
    /\ netPc = "off"
    /\ session < MaxSessions
    /\ session' = session + 1
    /\ shouldStop' = FALSE
    /\ connError' = FALSE
    /\ socketsReady' = FALSE
    /\ accepted' = 0
    /\ expired' = {}
    /\ cleared' = 0
    /\ wire' = <<>>
    /\ torn' = FALSE
    /\ poseIn' = None
    /\ poseOut' = None
    /\ objectIn' = NoObjects
    /\ objectOut' = NoObjects

\* The context is created and the thread starts.
Start ==
    /\ StartSession
    /\ running' = TRUE
    /\ netPc' = "open"
    /\ reports' = <<>>
    /\ UNCHANGED <<call, queues, netLocals, clock>>

\* zmq_ctx_new fails: on_error_ runs on the caller's thread, start() is false.
StartFails ==
    /\ StartSession
    /\ reports' = <<"error">>
    /\ UNCHANGED <<call, running, queues, netPc, netLocals, clock>>

\* The test of the three flags that opens every submission.
Usable == ~shouldStop /\ ~connError /\ running

\* try_enqueue_control, set_latest_transform and set_latest_object_transform
\* begin: the flags are read before the lock is taken.  Object id 0 is refused.
Submit(c) ==
    /\ call = Idle
    /\ Usable
    /\ c.op = "control" => accepted < MaxControl
    /\ c.op = "object" => c.id # 0
    /\ call' = c
    /\ UNCHANGED <<flags, queues, netPc, netLocals, clock,
                   controlHistory, poseHistory, reports>>

\* try_enqueue_control under the lock: the newest packet is refused when full.
PushControl ==
    /\ call.op = "control"
    /\ call' = Idle
    /\ IF Len(outbox) >= OutboxMax
       THEN UNCHANGED <<outbox, accepted>>
       ELSE /\ accepted' = accepted + 1
            /\ outbox' = Append(outbox, [id |-> accepted + 1,
                                         session |-> session,
                                         at |-> clock])
    /\ UNCHANGED <<flags, pending, latest, objects, netPc, netLocals, clock,
                   session, expired, cleared, wire, torn, poseHistory, reports>>

\* set_latest_transform under the lock.
PushPose ==
    /\ call.op = "pose"
    /\ latest' = call.payload
    /\ poseIn' = call.payload
    /\ call' = Idle
    /\ UNCHANGED <<flags, outbox, pending, objects, netPc, netLocals, clock,
                   controlHistory, poseOut, objectIn, objectOut, reports>>

\* set_latest_object_transform under the lock.
PushObject ==
    /\ call.op = "object"
    /\ objects' = [objects EXCEPT ![call.id] = call.payload]
    /\ objectIn' = [objectIn EXCEPT ![call.id] = call.payload]
    /\ call' = Idle
    /\ UNCHANGED <<flags, outbox, pending, latest, netPc, netLocals, clock,
                   controlHistory, poseIn, poseOut, objectOut, reports>>

\* stop() when no thread is joinable.
StopNotRunning ==
    /\ call = Idle
    /\ netPc = "off"
    /\ running' = FALSE
    /\ UNCHANGED <<call, shouldStop, connError, socketsReady, queues, netPc,
                   netLocals, clock, controlHistory, poseHistory, reports>>

\* Mutant: stop() forgets to raise should_stop_.
StopSignalUnset ==
    /\ call = Idle
    /\ netPc # "off"
    /\ call' = [op |-> "clear"]
    /\ UNCHANGED <<flags, queues, netPc, netLocals, clock, controlHistory,
                   poseHistory, reports>>

\* stop() raises should_stop_.
StopSignal ==
    /\ call = Idle
    /\ netPc # "off"
    /\ shouldStop' = TRUE
    /\ call' = [op |-> "clear"]
    /\ UNCHANGED <<running, connError, socketsReady, queues, netPc, netLocals,
                   clock, controlHistory, poseHistory, reports>>

\* Mutant: the held packet survives clear_outgoing.
DropQueuedKeepsPending ==
    /\ outbox' = <<>>
    /\ latest' = None
    /\ objects' = NoObjects
    /\ cleared' = accepted
    /\ poseIn' = None
    /\ objectIn' = NoObjects
    /\ UNCHANGED <<flags, pending, netPc, netLocals, clock, session, accepted,
                   expired, wire, torn, poseOut, objectOut, reports>>

\* The body of clear_outgoing.  It holds outbound_mutex_, which does not protect
\* pending_control_ from the network thread: see NetSendTorn.
DropQueued ==
    /\ outbox' = <<>>
    /\ pending' = None
    /\ latest' = None
    /\ objects' = NoObjects
    /\ cleared' = accepted
    /\ poseIn' = None
    /\ objectIn' = NoObjects
    /\ UNCHANGED <<flags, netPc, netLocals, clock, session, accepted,
                   expired, wire, torn, poseOut, objectOut, reports>>

\* clear_outgoing, called by the host at any time.
ClearOutgoing ==
    /\ call = Idle
    /\ DropQueued
    /\ UNCHANGED call

\* stop() calls clear_outgoing.
StopClear ==
    /\ call.op = "clear"
    /\ DropQueued
    /\ call' = [op |-> "join"]

\* thread_.join() returns and stop() ends.
StopJoin ==
    /\ call.op = "join"
    /\ netPc = "done"
    /\ netPc' = "off"
    /\ running' = FALSE
    /\ socketsReady' = FALSE
    /\ call' = Idle
    /\ UNCHANGED <<shouldStop, connError, queues, netLocals, clock,
                   controlHistory, poseHistory, reports>>

-----------------------------------------------------------------------------
(* The network thread.                                                     *)

\* connection_error_ is set and on_error_ runs.
Fail ==
    /\ Len(reports) < MaxReports
    /\ connError' = TRUE
    /\ reports' = Append(reports, "error")

\* The sockets are created, configured and connected.
NetOpen ==
    /\ netPc = "open"
    /\ socketsReady' = TRUE
    /\ reports' = Append(reports, "connected")
    /\ netPc' = "loop"
    /\ UNCHANGED <<call, running, shouldStop, connError, queues, netLocals,
                   clock, controlHistory, poseHistory>>

\* One of those steps fails and the thread returns.
NetOpenFails ==
    /\ netPc = "open"
    /\ Fail
    /\ netPc' = "done"
    /\ UNCHANGED <<call, running, shouldStop, socketsReady, queues, netLocals,
                   clock, controlHistory, poseHistory>>

\* The head of the loop.  The receive half of the iteration, which touches
\* none of this state, is in module Inbound.
NetLoop ==
    /\ netPc = "loop"
    /\ IF shouldStop
       THEN /\ socketsReady' = FALSE
            /\ netPc' = "done"
            /\ UNCHANGED <<drainNow, batch>>
       ELSE /\ drainNow' = clock
            /\ batch' = 0
            /\ netPc' = "drain"
            /\ UNCHANGED socketsReady
    /\ UNCHANGED <<call, running, shouldStop, connError, queues, copy,
                   objectIds, clock, controlHistory, poseHistory, reports>>

\* drain_control_sends: the head of its loop, and the pop under the lock.
NetDrain ==
    /\ netPc = "drain"
    /\ IF batch >= DrainBatch \/ (pending = None /\ outbox = <<>>)
       THEN netPc' = "pose" /\ UNCHANGED <<pending, outbox>>
       ELSE /\ netPc' = "send"
            /\ IF pending = None
               THEN pending' = Head(outbox) /\ outbox' = Tail(outbox)
               ELSE UNCHANGED <<pending, outbox>>
    /\ UNCHANGED <<call, flags, latest, objects, netLocals, clock,
                   controlHistory, poseHistory, reports>>

\* Mutant: the TTL is not applied.
OverdueNever(p) == FALSE

\* The age is taken against the time at which the drain began.
Overdue(p) == drainNow - p.at > TTL

\* The held packet is older than the TTL.
NetExpire ==
    /\ netPc = "send"
    /\ pending # None
    /\ Overdue(pending)
    /\ expired' = expired \cup {pending.id}
    /\ pending' = None
    /\ netPc' = "drain"
    /\ UNCHANGED <<call, flags, outbox, latest, objects, netLocals, clock,
                   session, accepted, cleared, wire, torn, poseHistory, reports>>

\* try_send_multipart accepts it.
NetSendControl ==
    /\ netPc = "send"
    /\ pending # None
    /\ ~Overdue(pending)
    /\ wire' = Append(wire, pending)
    /\ pending' = None
    /\ batch' = batch + 1
    /\ netPc' = "drain"
    /\ UNCHANGED <<call, flags, outbox, latest, objects, drainNow, copy,
                   objectIds, clock, session, accepted, expired, cleared, torn,
                   poseHistory, reports>>

\* try_send_multipart returns false: backpressure, or a second frame that
\* fails and condemns the connection.
SendRefused ==
    \/ UNCHANGED <<connError, reports>>
    \/ Fail

\* Mutant: a refused packet goes back to the end of the queue.
NetRequeueControl ==
    /\ netPc = "send"
    /\ pending # None /\ ~Overdue(pending)
    /\ SendRefused
    /\ outbox' = Append(outbox, pending)
    /\ pending' = None
    /\ netPc' = "pose"
    /\ UNCHANGED <<call, running, shouldStop, socketsReady, latest, objects,
                   netLocals, clock, controlHistory, poseHistory>>

\* The packet is held for the next iteration.
NetHoldControl ==
    /\ netPc = "send"
    /\ pending # None => ~Overdue(pending)
    /\ SendRefused
    /\ netPc' = "pose"
    /\ UNCHANGED <<call, running, shouldStop, socketsReady, queues, netLocals,
                   clock, controlHistory, poseHistory>>

\* The race: has_pending_control_ was read as true, and clear_outgoing empties
\* pending_control_ before the thread is done with it.  The thread reads either
\* the reset time stamp, and drops the packet as expired, or the old one, and
\* hands libzmq a payload that is empty or already freed.
NetSendTorn ==
    /\ netPc = "send"
    /\ pending = None
    /\ \/ UNCHANGED <<torn, batch>>
       \/ torn' = TRUE /\ batch' = batch + 1
    /\ netPc' = "drain"
    /\ UNCHANGED <<call, flags, queues, drainNow, copy, objectIds, clock,
                   session, accepted, expired, cleared, wire, poseHistory, reports>>

\* try_send_latest_transform: copy the slot under the lock.
NetPose ==
    /\ netPc = "pose"
    /\ copy' = latest
    /\ netPc' = IF latest = None THEN "objects" ELSE "poseSend"
    /\ UNCHANGED <<call, flags, queues, drainNow, batch, objectIds, clock,
                   controlHistory, poseHistory, reports>>

NetSendPose ==
    /\ netPc = "poseSend"
    /\ poseOut' = copy
    /\ netPc' = "poseClear"
    /\ UNCHANGED <<call, flags, queues, netLocals, clock, controlHistory,
                   poseIn, objectIn, objectOut, reports>>

\* Mutant: a refused pose is forgotten.
NetForgetPose ==
    /\ netPc = "poseSend"
    /\ SendRefused
    /\ latest' = None
    /\ netPc' = "objects"
    /\ UNCHANGED <<call, running, shouldStop, socketsReady, outbox, pending,
                   objects, netLocals, clock, controlHistory, poseHistory>>

NetHoldPose ==
    /\ netPc = "poseSend"
    /\ SendRefused
    /\ netPc' = "objects"
    /\ UNCHANGED <<call, running, shouldStop, socketsReady, queues, netLocals,
                   clock, controlHistory, poseHistory>>

\* Mutant: the slot is cleared whatever it holds by now.
UnsentDropsNewer(slot, sent) == None

\* What is left in a slot after a send: it is cleared only if it still holds
\* the bytes that were sent.
Unsent(slot, sent) == IF slot = sent THEN None ELSE slot

NetClearPose ==
    /\ netPc = "poseClear"
    /\ latest' = Unsent(latest, copy)
    /\ netPc' = "objects"
    /\ UNCHANGED <<call, flags, outbox, pending, objects, netLocals, clock,
                   controlHistory, poseHistory, reports>>

\* try_send_latest_object_transforms: the ids are snapshot under the lock.
NetObjects ==
    /\ netPc = "objects"
    /\ objectIds' = {o \in ObjectIds : objects[o] # None}
    /\ netPc' = IF objectIds' = {} THEN "loop" ELSE "objectCopy"
    /\ UNCHANGED <<call, flags, queues, drainNow, batch, copy, clock,
                   controlHistory, poseHistory, reports>>

\* The id the loop is at: std::map hands them out in ascending order.
IsNext(o) == o \in objectIds /\ \A p \in objectIds : o <= p

\* The next object's payload is copied, unless its entry is gone.
NetCopyObject ==
    /\ netPc = "objectCopy"
    /\ \/ /\ objectIds = {}
          /\ netPc' = "loop"
          /\ UNCHANGED <<objectIds, copy>>
       \/ \E o \in objectIds :
            /\ IsNext(o)
            /\ copy' = objects[o]
            /\ IF objects[o] = None
               THEN objectIds' = objectIds \ {o} /\ netPc' = netPc
               ELSE netPc' = "objectSend" /\ UNCHANGED objectIds
    /\ UNCHANGED <<call, flags, queues, drainNow, batch, clock,
                   controlHistory, poseHistory, reports>>

NetSendObject ==
    /\ netPc = "objectSend"
    /\ \E o \in objectIds :
         IsNext(o) /\ objectOut' = [objectOut EXCEPT ![o] = copy]
    /\ netPc' = "objectErase"
    /\ UNCHANGED <<call, flags, queues, netLocals, clock, controlHistory,
                   poseIn, poseOut, objectIn, reports>>

\* Backpressure ends the object loop.
NetHoldObject ==
    /\ netPc = "objectSend"
    /\ SendRefused
    /\ netPc' = "loop"
    /\ UNCHANGED <<call, running, shouldStop, socketsReady, queues, netLocals,
                   clock, controlHistory, poseHistory>>

NetEraseObject ==
    /\ netPc = "objectErase"
    /\ \E o \in objectIds :
         /\ IsNext(o)
         /\ objectIds' = objectIds \ {o}
         /\ objects' = [objects EXCEPT ![o] = Unsent(@, copy)]
    /\ netPc' = "objectCopy"
    /\ UNCHANGED <<call, flags, outbox, pending, latest, drainNow, batch, copy,
                   clock, controlHistory, poseHistory, reports>>

-----------------------------------------------------------------------------

MainStop == StopClear \/ StopJoin
MainPush == PushControl \/ PushPose \/ PushObject

MainNext ==
    \/ Start
    \/ StartFails
    \/ \E c \in Calls : c.op \in {"control", "pose", "object"} /\ Submit(c)
    \/ MainPush
    \/ ClearOutgoing
    \/ StopNotRunning
    \/ StopSignal
    \/ MainStop

NetControl ==
    NetDrain \/ NetExpire \/ NetSendControl \/ NetHoldControl \/ NetSendTorn
NetPoses == NetPose \/ NetSendPose \/ NetHoldPose \/ NetClearPose
NetObjectPoses ==
    \/ NetObjects \/ NetCopyObject \/ NetSendObject
    \/ NetHoldObject \/ NetEraseObject

NetNext ==
    \/ NetOpen \/ NetOpenFails \/ NetLoop
    \/ NetControl \/ NetPoses \/ NetObjectPoses

Next == Tick \/ MainNext \/ NetNext

Spec == Init /\ [][Next]_vars

\* The scheduler runs both threads: the network thread keeps taking steps, and
\* a call the host has begun is finished.  Time passes.
ThreadFairness ==
    /\ WF_vars(Tick)
    /\ WF_vars(NetNext)
    /\ WF_vars(MainPush)
    /\ WF_vars(MainStop)

\* External: a transform socket that is tried again and again accepts a message
\* now and then, of the avatar or of any object.  Nothing is assumed of the
\* control socket.
PeerReads == SF_vars(NetSendPose \/ NetSendObject)

FairSpec == Spec /\ ThreadFairness /\ PeerReads

-----------------------------------------------------------------------------
(* Properties.                                                             *)

ControlType ==
    /\ call \in Calls
    /\ running \in BOOLEAN
    /\ shouldStop \in BOOLEAN
    /\ connError \in BOOLEAN
    /\ socketsReady \in BOOLEAN
    /\ netPc \in NetPcs
    /\ reports \in Seq({"connected", "error"})

QueueType ==
    /\ outbox \in Seq(Packets)
    /\ Len(outbox) <= OutboxMax
    /\ pending \in Packets \cup {None}
    /\ latest \in Payloads \cup {None}
    /\ objects \in [ObjectIds -> Payloads \cup {None}]
    /\ drainNow \in Nat
    /\ batch \in Nat
    /\ copy \in Payloads \cup {None}
    /\ objectIds \subseteq ObjectIds
    /\ clock \in Nat

HistoryType ==
    /\ session \in Nat
    /\ accepted \in Nat
    /\ expired \subseteq Nat
    /\ cleared \in Nat
    /\ wire \in Seq(Packets)
    /\ torn \in BOOLEAN
    /\ poseIn \in Payloads \cup {None}
    /\ poseOut \in Payloads \cup {None}
    /\ objectIn \in [ObjectIds -> Payloads \cup {None}]
    /\ objectOut \in [ObjectIds -> Payloads \cup {None}]

\* Every variable keeps its type, and the outbox its limit (kControlOutboxMax).
TypeOK == ControlType /\ QueueType /\ HistoryType

Increasing(s) == \A i, j \in DOMAIN s : i < j => s[i].id < s[j].id

\* Control messages leave in the order in which they were accepted, none twice
\* (try_enqueue_control, drain_control_sends), whatever backpressure, expiry
\* and stop() do between them.
ControlFifo == Increasing(wire)

\* No control packet accepted before a stop() is sent in, or still queued for,
\* a later session: stop() leaves nothing behind (clear_outgoing).
SessionIsolation ==
    /\ \A i \in DOMAIN wire : wire[i].session = session
    /\ \A i \in DOMAIN outbox : outbox[i].session = session
    /\ pending # None => pending.session = session
    /\ netPc = "off" => outbox = <<>> /\ pending = None /\ latest = None
                        /\ objects = NoObjects

InSeq(n, s) == \E i \in DOMAIN s : s[i].id = n
Held(n) == pending # None /\ pending.id = n

\* Every accepted control packet can be accounted for: it is queued, held,
\* sent, or was dropped by the TTL or by clear_outgoing.  Backpressure loses
\* nothing.
NoSilentLoss ==
    \A n \in (cleared + 1)..accepted :
        InSeq(n, wire) \/ InSeq(n, outbox) \/ Held(n) \/ n \in expired

\* A slot is empty only when the newest pose is on the wire, or clear_outgoing
\* has dropped it: a pose that set_latest_transform or
\* set_latest_object_transform stores while an older one is being sent is not
\* lost by the clear that follows the send.
LatestNotLost ==
    /\ latest = None => poseIn \in {poseOut, None}
    /\ \A o \in ObjectIds :
          objects[o] = None => objectIn[o] \in {objectOut[o], None}

\* on_connected_ is the first callback of a session and runs at most once: an
\* error is never followed by a connection report.
ConnectedFirst == \A i \in DOMAIN reports : reports[i] = "connected" => i = 1

\* zmq_transport.hpp says of clear_outgoing: "Drop everything queued for
\* sending."  No frame of a packet that it has dropped is sent afterwards,
\* although drain_control_sends uses pending_control_ without the lock.
DroppedNeverSent == ~torn

\* stop() returns: the join cannot wait for ever, whatever the network thread
\* was doing when should_stop_ was raised.
StopReturns == call.op \in {"clear", "join"} ~> call = Idle

Waiting(n) ==
    \/ \E i \in DOMAIN outbox : outbox[i].id = n /\ outbox[i].at + TTL < MaxClock
    \/ Held(n) /\ pending.at + TTL < MaxClock

\* No control packet stays queued for ever in a running loop, even when the
\* control socket never accepts anything: it is sent, expires or is cleared.
\* (A packet accepted so late that the bounded clock cannot reach its TTL is
\* not counted; one accepted before a failed start waits for stop().)
ControlLeaves ==
    \A n \in 1..MaxControl : Waiting(n) ~> (~Waiting(n) \/ netPc = "done")

Delivered ==
    /\ poseIn \in {poseOut, None}
    /\ \A o \in ObjectIds : objectIn[o] \in {objectOut[o], None}

\* When the host leaves the slots alone for long enough, the newest avatar pose
\* and the newest pose of every object are on the wire, unless clear_outgoing
\* drops them or the loop ends, whatever the control lane does meanwhile: a
\* control packet held by a peer that never reads blocks no pose, and no slot
\* is passed over for good (flush_outgoing).  The premise is needed: while the
\* host keeps filling slots that come first, the ones behind them may starve.
PosesDelivered ==
    <>[](call.op \notin {"pose", "object"}) => []<>(Delivered \/ netPc = "done")

\* zmq_transport.hpp documents on_error_ as the callback of a loop that aborts:
\* once it has run, the session sends nothing more.
NothingSentAfterError ==
    [][connError /\ connError' => UNCHANGED <<wire, poseOut, objectOut>>]_vars

-----------------------------------------------------------------------------
(* The inductive strengthening of the safety properties, for the proofs.   *)

\* A call in progress has a thread to talk to, and stop() is what raises
\* should_stop_; stop() leaves the queues empty from its clear on.
CallInv ==
    /\ call.op \in {"control", "pose", "object"} => netPc # "off" /\ ~shouldStop
    /\ call.op \in {"clear", "join"} => netPc # "off" /\ shouldStop
    /\ netPc = "off" => ~running
    /\ netPc = "off" \/ call.op = "join" =>
        outbox = <<>> /\ pending = None /\ latest = None /\ objects = NoObjects

\* The wire, the held packet and the outbox are consecutive pieces of one
\* increasing sequence of packets of this session.
OrderInv ==
    /\ Increasing(wire)
    /\ Increasing(outbox)
    /\ \A i \in DOMAIN wire : wire[i].session = session /\ wire[i].id <= accepted
    /\ \A i \in DOMAIN outbox :
         outbox[i].session = session /\ outbox[i].id <= accepted
    /\ \A i \in DOMAIN wire, j \in DOMAIN outbox : wire[i].id < outbox[j].id
    /\ pending # None =>
         /\ pending.session = session
         /\ pending.id <= accepted
         /\ \A i \in DOMAIN wire : wire[i].id < pending.id
         /\ \A j \in DOMAIN outbox : pending.id < outbox[j].id

\* A filled slot holds the newest pose, a slot stays filled while its payload
\* is being sent, unless clear_outgoing has dropped it, and what is about to be
\* cleared is what was sent.
SlotInv ==
    /\ latest # None => latest = poseIn
    /\ netPc = "poseSend" /\ latest = None => poseIn = None
    /\ netPc = "poseClear" => poseOut = copy
    /\ \A o \in ObjectIds :
         /\ objects[o] # None => objects[o] = objectIn[o]
         /\ netPc = "objectSend" /\ IsNext(o) /\ objects[o] = None
              => objectIn[o] = None
         /\ netPc = "objectErase" /\ IsNext(o) => objectOut[o] = copy

\* Nothing has been reported while the sockets are being opened.
ReportInv ==
    /\ ConnectedFirst
    /\ netPc = "open" => reports = <<>>

\* The conjunction that every step preserves.
SafetyInv ==
    /\ TypeOK /\ CallInv /\ OrderInv /\ NoSilentLoss
    /\ SlotInv /\ LatestNotLost /\ ReportInv
=============================================================================
