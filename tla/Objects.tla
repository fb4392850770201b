------------------------------- MODULE Objects -------------------------------
(***************************************************************************)
(* ObjectSyncManager (src/src/core/object_sync_manager.cpp) as poll()      *)
(* drives it, with the server that owns the truth about ownership.         *)
(*                                                                         *)
(* The client hears of an owner twice: in the ownership messages of the    *)
(* control lane, which arrive in order, and in the room-objects snapshots  *)
(* of the SUB lane, of which only the newest at a poll is kept.  Both take *)
(* their time, and neither waits for the other: a snapshot may overtake an *)
(* older message, and a message an older snapshot.  A pose is in Poses;    *)
(* the age of an object's last send stops counting at AgeMax, where no     *)
(* comparison of tick() can tell it from a greater one.                    *)
(***************************************************************************)
EXTENDS Integers, Sequences

CONSTANTS
    Ids,        \* the object ids the host uses (0 is refused everywhere)
    Poses,      \* the distinguishable poses
    None,       \* no pose, no snapshot
    Nobody,     \* owner_client_no 0
    Me,         \* this client's number
    Other,      \* another client's number
    Interval,   \* 1 / transform_send_rate, in clock ticks
    Heartbeat,  \* kHeartbeatIntervalSeconds, in clock ticks
    InboxMax,   \* kControlInboxMax
    MaxCtl,     \* bound: ownership messages in flight
    MaxSub      \* bound: room-objects snapshots in flight

ASSUME OwnersAssumption == Nobody # Me /\ Nobody # Other /\ Me # Other
ASSUME NoneAssumption == None \notin Poses /\ None \notin Ids
ASSUME TimesAssumption == Interval \in Nat /\ Heartbeat \in Nat
ASSUME InboxAssumption == InboxMax \in Nat \ {0}
ASSUME BoundsAssumption == MaxCtl \in Nat /\ MaxSub \in Nat

AgeMax == IF Interval > Heartbeat THEN Interval ELSE Heartbeat
Owners == {Nobody, Me, Other}

\* A room-objects message.
Snapshots == [owner : [Ids -> Owners], pose : [Ids -> Poses]]
ASSUME SnapshotsAssumption == None \notin Snapshots

VARIABLES
    localNo,    \* local_client_no_: Nobody before the handshake
    registered, \* the keys of objects_
    owner,      \* Entry.state.owner_client_no
    shown,      \* Entry.state.pose, None when not has_pose
    localPose,  \* Entry.local_pose, None when not has_local_pose
    lastSent,   \* Entry.last_sent_pose, None when not has_last_sent_pose
    age,        \* now - Entry.last_send_time
    inbox,      \* control_inbox_: the ownership messages in it
    room,       \* latest_room_objects_, None when not has_room_objects_
    slot,       \* the transport's latest-wins slots
    \* The server and the sockets, external.
    ctl,        \* ownership messages on their way
    sub,        \* snapshots on their way
    sOwner,     \* the server's owner of each object
    sPose,      \* the server's pose of each object
    \* What an observer sees.
    granted,    \* objects that the server had as this client's at some time of
                \* this session, its beginning included
    dirty       \* objects that changed at the server, were registered, or lost a
                \* message to a full inbox after the last snapshot was sent

entryVars == <<registered, owner, shown, localPose, lastSent, age>>
pollVars == <<inbox, room>>
serverVars == <<ctl, sub, sOwner, sPose, granted, dirty>>
vars == <<localNo, entryVars, pollVars, slot, serverVars>>

Nothing == [o \in Ids |-> None]
Unrelated == [id |-> None]

Init ==
    /\ localNo = Nobody
    /\ registered = {}
    /\ owner = [o \in Ids |-> Nobody]
    /\ shown = Nothing
    /\ localPose = Nothing
    /\ lastSent = Nothing
    /\ age = [o \in Ids |-> AgeMax]
    /\ inbox = <<>> /\ room = None
    /\ slot = Nothing
    /\ ctl = <<>> /\ sub = <<>>
    /\ sOwner = [o \in Ids |-> Nobody]
    /\ sPose \in [Ids -> Poses]
    /\ granted = {}
    /\ dirty = Ids

-----------------------------------------------------------------------------
(* The host.                                                               *)

\* register_object: an entry of its own; one that exists is kept.
RegisterObject(o) ==
    /\ registered' = registered \cup {o}
    /\ dirty' = IF o \in registered THEN dirty ELSE dirty \cup {o}
    /\ UNCHANGED <<localNo, owner, shown, localPose, lastSent, age, pollVars,
                   slot, ctl, sub, sOwner, sPose, granted>>

\* unregister_object erases the entry with all it holds.
UnregisterObject(o) ==
    /\ registered' = registered \ {o}
    /\ owner' = [owner EXCEPT ![o] = Nobody]
    /\ shown' = [shown EXCEPT ![o] = None]
    /\ localPose' = [localPose EXCEPT ![o] = None]
    /\ lastSent' = [lastSent EXCEPT ![o] = None]
    /\ age' = [age EXCEPT ![o] = AgeMax]
    /\ UNCHANGED <<localNo, pollVars, slot, serverVars>>

\* submit_local_pose, whoever owns the object.
SubmitLocalPose(o, p) ==
    /\ o \in registered
    /\ localPose' = [localPose EXCEPT ![o] = p]
    /\ UNCHANGED <<localNo, registered, owner, shown, lastSent, age, pollVars,
                   slot, serverVars>>

\* set_local_identity, when the id mapping arrives.
SetLocalIdentity ==
    /\ localNo' = Me
    /\ UNCHANGED <<entryVars, pollVars, slot, serverVars>>

\* Mutant: the owners survive the session.
ClearedOwnersKept == owner

\* clear_room_scoped_state: every owner.
ClearedOwners == [o \in Ids |-> Nobody]

\* connect(): clear_room_scoped_state, set_local_identity(0), and the queues of
\* client and transport emptied; what was on its way dies with the old sockets.
\* The server is not told: what it has as this client's it still has.
NewSession ==
    /\ localNo' = Nobody
    /\ owner' = ClearedOwners
    /\ shown' = Nothing
    /\ lastSent' = Nothing
    /\ age' = [o \in Ids |-> AgeMax]
    /\ inbox' = <<>> /\ room' = None
    /\ slot' = Nothing
    /\ ctl' = <<>> /\ sub' = <<>>
    /\ granted' = {o \in Ids : sOwner[o] = Me}
    /\ dirty' = Ids
    /\ UNCHANGED <<registered, localPose, sOwner, sPose>>

\* The host's clock advances.
Time ==
    /\ age' = [o \in Ids |-> IF age[o] < AgeMax THEN age[o] + 1 ELSE AgeMax]
    /\ UNCHANGED <<localNo, registered, owner, shown, localPose, lastSent,
                   pollVars, slot, serverVars>>

-----------------------------------------------------------------------------
(* poll().  Both lanes are swapped out under one lock and everything else in *)
(* it touches main-thread state only, so it is one step: the control         *)
(* messages, then the snapshot, then tick().                                 *)

\* The messages of the inbox that find an entry.
ToldOf(o) == {i \in DOMAIN inbox : o \in registered /\ inbox[i].id = o}

\* handle_ownership_changed, for all the messages: the last one counts.
OwnerTold(o) ==
    IF ToldOf(o) = {} THEN owner[o]
    ELSE inbox[CHOOSE i \in ToldOf(o) : \A j \in ToldOf(o) : j <= i].owner

\* It forgets the send state of an object that becomes this client's.
Taken(o) ==
    localNo # Nobody /\ \E i \in ToldOf(o) : inbox[i].owner = localNo
SentBefore(o) == IF Taken(o) THEN None ELSE lastSent[o]
AgeBefore(o) == IF Taken(o) THEN AgeMax ELSE age[o]

\* Mutant: a snapshot does not tell the owner of an object.
RoomOwnerIgnored(o) == OwnerTold(o)

\* handle_room_objects: the owner that the snapshot gives to an object.
RoomOwner(o) ==
    IF room # None /\ o \in registered THEN room.owner[o] ELSE OwnerTold(o)

\* A client takes the poses of the objects it does not own from the snapshot,
\* and every pose while it has no number.
RoomPose(o) ==
    IF /\ room # None /\ o \in registered
       /\ room.owner[o] # localNo \/ localNo = Nobody
    THEN room.pose[o] ELSE shown[o]

\* Mutant: an unchanged pose is never sent again.
UnchangedForever(o) == SentBefore(o) = localPose[o]

\* The only-on-change test, with its heartbeat.
Unchanged(o) == SentBefore(o) = localPose[o] /\ AgeBefore(o) < Heartbeat

\* tick() sends the pose of o.
Due(o) ==
    /\ localNo # Nobody
    /\ o \in registered
    /\ RoomOwner(o) = localNo
    /\ localPose[o] # None
    /\ ~(AgeBefore(o) < Interval)
    /\ ~Unchanged(o)

Poll ==
    /\ inbox' = <<>> /\ room' = None
    /\ owner' = [o \in Ids |-> RoomOwner(o)]
    /\ shown' = [o \in Ids |-> RoomPose(o)]
    /\ age' = [o \in Ids |-> IF Due(o) THEN 0 ELSE AgeBefore(o)]
    /\ lastSent' = [o \in Ids |-> IF Due(o) THEN localPose[o] ELSE SentBefore(o)]
    /\ slot' = [o \in Ids |-> IF Due(o) THEN localPose[o] ELSE slot[o]]
    /\ UNCHANGED <<localNo, registered, localPose, serverVars>>

-----------------------------------------------------------------------------
(* The network thread, in outline.                                         *)

\* receive_sub and handle_payload: the newest snapshot replaces an older one.
NetReceiveRoom ==
    /\ sub # <<>>
    /\ room' = Head(sub)
    /\ sub' = Tail(sub)
    /\ UNCHANGED <<localNo, entryVars, inbox, slot, ctl, sOwner, sPose, granted,
                   dirty>>

\* handle_payload: an inbox at its limit drops its oldest message.
Received(m) ==
    LET inbox1 == Append(inbox, m)
    IN  IF Len(inbox) < InboxMax THEN inbox1 ELSE Tail(inbox1)

\* The object whose message is lost with that, if it is about one.
Dropped == {o \in Ids : Len(inbox) >= InboxMax /\ Head(inbox).id = o}

\* receive_dealer and handle_payload: the next ownership message.
NetReceiveControl ==
    /\ ctl # <<>>
    /\ inbox' = Received(Head(ctl))
    /\ ctl' = Tail(ctl)
    /\ dirty' = dirty \cup Dropped
    /\ UNCHANGED <<localNo, entryVars, room, slot, sub, sOwner, sPose, granted>>

\* Any other control message takes its place in the inbox.
NetReceiveUnrelated ==
    /\ inbox' = Received(Unrelated)
    /\ dirty' = dirty \cup Dropped
    /\ UNCHANGED <<localNo, entryVars, room, slot, ctl, sub, sOwner, sPose, granted>>

\* The transform lane carries a pose to the server, which heeds the owner only.
NetSendPose(o) ==
    /\ slot[o] # None
    /\ slot' = [slot EXCEPT ![o] = None]
    /\ IF sOwner[o] = Me
       THEN sPose' = [sPose EXCEPT ![o] = slot[o]] /\ dirty' = dirty \cup {o}
       ELSE UNCHANGED <<sPose, dirty>>
    /\ UNCHANGED <<localNo, entryVars, pollVars, ctl, sub, sOwner, granted>>

-----------------------------------------------------------------------------
(* The server, external.                                                   *)

\* The client is told the owner of o over the control lane.
Tell(o, told) ==
    /\ Len(ctl) < MaxCtl
    /\ ctl' = Append(ctl, [id |-> o, owner |-> told])

\* The owner of o changes, and the whole room is told.
Grant(o, new) ==
    /\ Tell(o, new)
    /\ sOwner' = [sOwner EXCEPT ![o] = new]
    /\ granted' = IF new = Me THEN granted \cup {o} ELSE granted
    /\ dirty' = dirty \cup {o}

\* A request always succeeds; a release by someone else is rejected, and the
\* rejection changes nothing at the client.
ServerAnswers(o, op) ==
    IF op = "request" \/ sOwner[o] = Me
    THEN Grant(o, IF op = "request" THEN Me ELSE Nobody)
    ELSE UNCHANGED <<ctl, sOwner, granted, dirty>>

\* request_ownership and release_ownership touch no entry and keep no record:
\* a request on its way cannot be told from one made later, so it is made and
\* answered in one step.  One that the transport refuses is a step not taken.
SendOwnershipRequest(o, op) ==
    /\ ServerAnswers(o, op)
    /\ UNCHANGED <<localNo, entryVars, pollVars, slot, sub, sPose>>

\* Another client takes or releases o, or the server takes it back from a client
\* that it has not heard of for too long, this one included.
ServerMoves(o, new) ==
    /\ sOwner[o] # new
    /\ Grant(o, new)
    /\ UNCHANGED <<localNo, entryVars, pollVars, slot, sub, sPose>>

\* A client that joins is told the owner of every object.
ServerRepeats(o) ==
    /\ Tell(o, sOwner[o])
    /\ UNCHANGED <<localNo, entryVars, pollVars, slot, sub, sOwner, sPose,
                   granted, dirty>>

OtherMoves(o, p) ==
    /\ sOwner[o] = Other
    /\ sPose' = [sPose EXCEPT ![o] = p]
    /\ dirty' = dirty \cup {o}
    /\ UNCHANGED <<localNo, entryVars, pollVars, slot, ctl, sub, sOwner, granted>>

\* The periodic broadcast of the room's objects.
ServerBroadcasts ==
    /\ Len(sub) < MaxSub
    /\ sub' = Append(sub, [owner |-> sOwner, pose |-> sPose])
    /\ dirty' = {}
    /\ UNCHANGED <<localNo, entryVars, pollVars, slot, ctl, sOwner, sPose, granted>>

-----------------------------------------------------------------------------

Next ==
    \/ \E o \in Ids : RegisterObject(o)
    \/ \E o \in Ids : UnregisterObject(o)
    \/ \E o \in Ids, p \in Poses : SubmitLocalPose(o, p)
    \/ \E o \in Ids, op \in {"request", "release"} : SendOwnershipRequest(o, op)
    \/ SetLocalIdentity
    \/ NewSession
    \/ Time
    \/ Poll
    \/ NetReceiveRoom
    \/ NetReceiveControl
    \/ NetReceiveUnrelated
    \/ \E o \in Ids : NetSendPose(o)
    \/ \E o \in Ids, new \in {Nobody, Other} : ServerMoves(o, new)
    \/ \E o \in Ids : ServerRepeats(o)
    \/ \E o \in Ids, p \in Poses : OtherMoves(o, p)
    \/ ServerBroadcasts

Spec == Init /\ [][Next]_vars

\* The host polls in every frame, its clock runs, the network thread loops, and
\* (external) the server keeps broadcasting the room.
Fairness ==
    /\ WF_vars(Poll) /\ WF_vars(Time)
    /\ WF_vars(NetReceiveRoom)
    /\ \A o \in Ids : WF_vars(NetSendPose(o))
    /\ WF_vars(ServerBroadcasts)

FairSpec == Spec /\ Fairness

-----------------------------------------------------------------------------
(* Properties.                                                             *)

OwnerMessages == [id : Ids, owner : Owners]
Messages == OwnerMessages \cup {Unrelated}

\* objects_ holds nothing of an object that the host has not registered.
NoEntry(o) ==
    /\ owner[o] = Nobody
    /\ shown[o] = None /\ localPose[o] = None /\ lastSent[o] = None

\* Every variable keeps its type, and only register_object makes an entry: what
\* the server says of an object that the host does not have leaves no trace.
TypeOK ==
    /\ \A o \in Ids \ registered : NoEntry(o)
    /\ localNo \in {Nobody, Me}
    /\ registered \subseteq Ids
    /\ owner \in [Ids -> Owners]
    /\ shown \in [Ids -> Poses \cup {None}]
    /\ localPose \in [Ids -> Poses \cup {None}]
    /\ lastSent \in [Ids -> Poses \cup {None}]
    /\ age \in [Ids -> 0..AgeMax]
    /\ inbox \in Seq(Messages) /\ Len(inbox) <= InboxMax
    /\ room \in Snapshots \cup {None}
    /\ slot \in [Ids -> Poses \cup {None}]
    /\ ctl \in Seq(OwnerMessages)
    /\ sub \in Seq(Snapshots)
    /\ sOwner \in [Ids -> Owners]
    /\ sPose \in [Ids -> Poses]
    /\ granted \subseteq Ids
    /\ dirty \subseteq Ids

\* Nothing about o is on its way, and a snapshot has been sent since its owner
\* or its pose changed last, since the object was registered and since a full
\* inbox dropped a message about it.
Settled(o) ==
    /\ o \in registered \ dirty
    /\ sub = <<>> /\ room = None
    /\ \A i \in DOMAIN inbox : inbox[i].id # o
    /\ \A i \in DOMAIN ctl : ctl[i].id # o

\* However the two lanes overtake each other, a snapshot an older message
\* included, and whenever the object was registered, the client ends up with
\* the server's owner, and shows the server's pose of an object that is not its
\* own (handle_ownership_changed, handle_room_objects).  No snapshot need be
\* the last to arrive: a message that a snapshot has overtaken may undo it, but
\* then the message that restores it is behind.
OwnerCoherent ==
    \A o \in Ids : Settled(o) =>
        owner[o] = sOwner[o] /\ (sOwner[o] # Me => shown[o] = sPose[o])

\* tick() publishes a pose only for an object that the server had as this
\* client's at some time of this session, its beginning included: what the
\* client remembers of an earlier session does not count, although the server
\* may have given the object away in between (clear_room_scoped_state).
PublishesOnlyGranted ==
    [][\A o \in Ids : slot'[o] # None /\ slot'[o] # slot[o] => o \in granted]_vars

\* "Ignored unless this client owns it" (net_sync_manager.gd,
\* submit_object_transform): a submission for another's object changes nothing.
SubmittedByOwner ==
    [][\A o \in Ids : owner[o] # Me => localPose'[o] \in {localPose[o], None}]_vars

Publishing(o, p) ==
    sOwner[o] = Me /\ localNo = Me /\ o \in registered /\ localPose[o] = p

\* The pose p of o reaches the server unless the client stops publishing it.
Published(o, p) == Publishing(o, p) ~> (sPose[o] = p \/ ~Publishing(o, p))
=============================================================================
