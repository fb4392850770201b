------------------------------- MODULE Presence -------------------------------
(***************************************************************************)
(* DeviceMapping (src/src/core/device_mapping.cpp) and the handlers of     *)
(* NetSyncClient that feed it: who is in the room, as the host is told.    *)
(*                                                                         *)
(* The id mapping comes over the control lane, among messages of other     *)
(* kinds, the room-pose snapshots over the SUB lane; both take their time, *)
(* and neither waits for the other.  The server gives a device the same    *)
(* number whenever it comes (docs/UPSTREAM_COMPATIBILITY.md), so a device  *)
(* stands for its number.                                                  *)
(***************************************************************************)
EXTENDS Integers, Sequences, SequencesExt

CONSTANTS
    Others,      \* the other devices
    Self,        \* this client's device
    None,        \* no snapshot; a control message that is no mapping
    InboxMax,    \* kControlInboxMax
    MaxCtl,      \* bound: mapping messages in flight
    MaxSub,      \* bound: snapshots in flight
    MaxSessions  \* bound: connections

ASSUME SelfAssumption == Self \notin Others
ASSUME NoneAssumption == \A s \in SUBSET (Others \cup {Self}) : s # None
ASSUME InboxAssumption == InboxMax \in Nat \ {0}
ASSUME BoundsAssumption ==
    MaxCtl \in Nat /\ MaxSub \in Nat /\ MaxSessions \in Nat \ {0}

Devices == Others \cup {Self}

VARIABLES
    local,      \* local_client_no_ is set
    known,      \* the keys of client_no_to_device_id_
    waiting,    \* pending_clients_
    announced,  \* announced_clients_
    remote,     \* the keys of remote_poses_
    inbox,      \* control_inbox_: a table for each mapping message in it, None
                \* for any other message
    room,       \* latest_room_pose_, None when not has_room_pose_
    session,    \* connections so far
    lost,       \* an observer's: a mapping message was dropped, and no later one
                \* has been applied
    \* The server and the sockets, external.
    ctl,        \* tables on their way
    sub,        \* snapshots on their way
    members,    \* the devices in the server's table
    posing,     \* those whose pose is in its snapshots
    greeted     \* the server has answered the hello of this session

tableVars == <<local, known, waiting, announced, remote>>
serverVars == <<ctl, sub, members, posing, greeted>>
vars == <<tableVars, inbox, room, session, lost, serverVars>>

Init ==
    /\ local = FALSE
    /\ known = {} /\ waiting = {} /\ announced = {} /\ remote = {}
    /\ inbox = <<>> /\ room = None
    /\ session = 1
    /\ lost = FALSE
    /\ ctl = <<>> /\ sub = <<>>
    /\ members = {} /\ posing = {} /\ greeted = FALSE

-----------------------------------------------------------------------------
(* The client.                                                             *)

\* connect(): DeviceMapping::clear and the rest of reset_session_state.  The
\* server still has this device, and its last pose, until it times out.
NewSession ==
    /\ session < MaxSessions
    /\ session' = session + 1
    /\ lost' = FALSE
    /\ local' = FALSE
    /\ known' = {} /\ waiting' = {} /\ announced' = {} /\ remote' = {}
    /\ inbox' = <<>> /\ room' = None
    /\ ctl' = <<>> /\ sub' = <<>> /\ greeted' = FALSE
    /\ UNCHANGED <<members, posing>>

\* Mutant: the local avatar is not left out.
AliveWithLocal == room

\* process_room_pose: the clients of the snapshot, without the local one once
\* its number is known.
Alive == IF local THEN room \ {Self} ELSE room

\* Mutant: a client that waits is not looked at again.
ConnectedFirstSeen == (Alive \cap known) \ (announced \cup waiting)

\* update_presence: those to announce.
Connected == (Alive \cap known) \ announced

AnnouncedNow == (announced \cup Connected) \cap Alive

WaitingNow ==
    ((waiting \cup (Alive \ (announced \cup known))) \ Connected) \cap Alive

\* process_room_pose, with the tables as they were before this poll's control
\* messages.
ProcessRoomPose ==
    IF room = None
    THEN UNCHANGED <<waiting, announced, remote>>
    ELSE waiting' = WaitingNow /\ announced' = AnnouncedNow /\ remote' = Alive

\* The mapping messages of the inbox.
Mapped == {i \in DOMAIN inbox : inbox[i] # None}

\* DeviceMapping::apply, for all of them in turn: each replaces the whole table,
\* and one that lists this device gives its number.
ApplyMappings ==
    /\ known' = IF Mapped = {} THEN known ELSE inbox[Max(Mapped)]
    /\ local' = (local \/ \E i \in Mapped : Self \in inbox[i])

\* poll() takes both lanes out under one lock; the rest of it is the main
\* thread's alone.
Poll ==
    /\ ProcessRoomPose
    /\ ApplyMappings
    /\ inbox' = <<>> /\ room' = None
    /\ lost' = (lost /\ Mapped = {})
    /\ UNCHANGED <<session, serverVars>>

\* handle_payload, RoomPose lane: the newest snapshot replaces an older one.
NetReceiveRoom ==
    /\ sub # <<>>
    /\ room' = Head(sub)
    /\ sub' = Tail(sub)
    /\ UNCHANGED <<tableVars, inbox, session, lost, ctl, members, posing,
                   greeted>>

\* handle_payload, Control lane: an inbox at its limit drops its oldest message,
\* of whatever kind.
Receive(m) ==
    /\ inbox' = IF Len(inbox) < InboxMax THEN Append(inbox, m)
                ELSE Tail(Append(inbox, m))
    /\ lost' = (lost \/ (Len(inbox) >= InboxMax /\ Head(inbox) # None))

NetReceiveMapping ==
    /\ ctl # <<>>
    /\ Receive(Head(ctl))
    /\ ctl' = Tail(ctl)
    /\ UNCHANGED <<tableVars, room, session, sub, members, posing, greeted>>

\* A variable, an RPC or an ownership message.
NetReceiveOther ==
    /\ Receive(None)
    /\ UNCHANGED <<tableVars, room, session, serverVars>>

-----------------------------------------------------------------------------
(* The server, external.                                                   *)

\* The table is sent to this client.
Tell ==
    /\ Len(ctl) < MaxCtl
    /\ ctl' = Append(ctl, members')

\* It answers the hello with the table.
ServerGreets ==
    /\ ~greeted
    /\ greeted' = TRUE
    /\ members' = members \cup {Self}
    /\ Tell
    /\ UNCHANGED <<tableVars, inbox, room, session, lost, sub, posing>>

\* A change of the table is sent to the clients it knows, once.
Told == IF greeted THEN Tell ELSE UNCHANGED ctl

ServerJoin(d) ==
    /\ d \notin members
    /\ members' = members \cup {d}
    /\ Told
    /\ UNCHANGED <<tableVars, inbox, room, session, lost, sub, posing,
                   greeted>>

\* The first pose of a device.
ServerPose(d) ==
    /\ d \in members \ posing
    /\ d = Self => greeted
    /\ posing' = posing \cup {d}
    /\ UNCHANGED <<tableVars, inbox, room, session, lost, ctl, sub, members,
                   greeted>>

\* A device times out; this one only between two sessions.
ServerDrop(d) ==
    /\ d \in members
    /\ d = Self => ~greeted
    /\ members' = members \ {d}
    /\ posing' = posing \ {d}
    /\ Told
    /\ UNCHANGED <<tableVars, inbox, room, session, lost, sub, greeted>>

ServerBroadcasts ==
    /\ Len(sub) < MaxSub
    /\ sub' = Append(sub, posing)
    /\ UNCHANGED <<tableVars, inbox, room, session, lost, ctl, members, posing,
                   greeted>>

-----------------------------------------------------------------------------

Next ==
    \/ NewSession
    \/ Poll
    \/ NetReceiveRoom
    \/ NetReceiveMapping
    \/ NetReceiveOther
    \/ ServerGreets
    \/ \E d \in Others : ServerJoin(d)
    \/ \E d \in Devices : ServerPose(d)
    \/ \E d \in Devices : ServerDrop(d)
    \/ ServerBroadcasts

Spec == Init /\ [][Next]_vars

\* The host polls in every frame and the network thread loops; (external) the
\* server answers a hello and keeps broadcasting the room.
Fairness ==
    WF_vars(Poll) /\ WF_vars(NetReceiveRoom) /\ WF_vars(NetReceiveMapping)
        /\ WF_vars(ServerGreets) /\ WF_vars(ServerBroadcasts)

FairSpec == Spec /\ Fairness

-----------------------------------------------------------------------------
(* Properties.                                                             *)

\* Every variable keeps its type; a client either waits or is announced, and
\* then the host can ask for its pose.
TypeOK ==
    /\ local \in BOOLEAN
    /\ known \subseteq Devices
    /\ remote \subseteq Devices
    /\ waiting \subseteq remote /\ announced \subseteq remote
    /\ waiting \cap announced = {}
    /\ inbox \in Seq((SUBSET Devices) \cup {None}) /\ Len(inbox) <= InboxMax
    /\ room = None \/ room \in SUBSET Devices
    /\ session \in 1..MaxSessions
    /\ lost \in BOOLEAN
    /\ ctl \in Seq(SUBSET Devices)
    /\ sub \in Seq(SUBSET Devices) /\ Len(sub) <= MaxSub
    /\ members \subseteq Devices /\ posing \subseteq members
    /\ greeted \in BOOLEAN

\* The host is never told of its own avatar as of a remote one, although the
\* snapshots after a reconnect show it before the mapping tells its number.
OwnNeverAnnounced == Self \notin announced

\* A client that stays in the room's snapshots is announced, however much later
\* than its first pose its mapping comes, unless later control messages push that
\* mapping out of a full inbox: nothing repeats it, and the client waits until
\* another one is applied (lost).  And one that has gone is reported gone, even
\* when it left while it was waiting for its mapping (update_presence).
RemoteTracked ==
    \A d \in Others :
        /\ d \in posing ~> (d \in announced \/ d \notin posing \/ lost)
        /\ (d \in announced \cup waiting /\ d \notin posing)
              ~> (d \notin announced \cup waiting \/ d \in posing)
===============================================================================
