------------------------------- MODULE Inbound -------------------------------
(***************************************************************************)
(* The inbound half of ZmqTransport (receive_sub, receive_control) and the *)
(* client's side of it (NetSyncClient::handle_payload, the swap of poll(), *)
(* reset_session_state).                                                   *)
(*                                                                         *)
(* A frame is what it can be compared with as a topic, the number of the   *)
(* message it belongs to, and libzmq's "more" flag.  A topic is a sequence *)
(* of symbols, so that one room's name can be a prefix of another's.  The  *)
(* SUB socket drops what exceeds its high-water mark; the control socket   *)
(* keeps the order.  Messages have one, two or three frames.               *)
(***************************************************************************)
EXTENDS Integers, Sequences, FiniteSets

CONSTANTS
    Rooms,       \* room ids: sequences of symbols without the NUL
    ObjSuffix,   \* kObjectTopicSuffix, which starts with the NUL
    SubHwm,      \* frames the SUB socket holds (kTransformReceiveHwm)
    InboxMax,    \* kControlInboxMax
    None,
    MaxMessages, \* bound: messages the server sends
    MaxSessions  \* bound: sessions

ASSUME RoomsAssumption ==
    /\ Rooms \subseteq Seq(STRING) /\ ObjSuffix \in Seq(STRING)
    /\ \A r, s \in Rooms : r # s \o ObjSuffix
ASSUME LimitsAssumption ==
    /\ InboxMax \in Nat \ {0}
    /\ {SubHwm, MaxMessages, MaxSessions} \subseteq Nat
    /\ None \notin Nat

VARIABLES
    room,       \* room_id_ of the running session
    session,
    stopping,   \* connect() or disconnect() waits in transport_.stop()
    netPc,      \* where the network thread is in its loop
    subSocket,  \* frames the SUB socket holds
    ctlSocket,  \* frames the control socket holds
    lastAvatar, \* receive_sub: last_avatar, None when got_avatar is false
    lastObject, \* receive_sub: last_object, None when got_object is false
    roomPose,   \* latest_room_pose_, None when has_room_pose_ is false
    roomObjects,
    inbox,      \* control_inbox_
    dropped,    \* control_inbox_dropped_ of this session
    \* What an observer sees; the code keeps none of it.
    sent,       \* the messages the server sent: lane, room and session
    newest,     \* the newest pose and objects the SUB socket took this session
    arrived,    \* control messages of this room delivered this session
    seen        \* what poll() handed on: lane, message, session

clientVars == <<roomPose, roomObjects, inbox, dropped>>
socketVars == <<subSocket, ctlSocket>>
netVars == <<netPc, lastAvatar, lastObject>>
vars == <<room, session, stopping, netVars, socketVars, clientVars,
          sent, newest, arrived, seen>>

NoNews == [pose |-> None, objects |-> None]

Init ==
    /\ room \in Rooms
    /\ session = 1
    /\ stopping = FALSE
    /\ netPc = "head"
    /\ subSocket = <<>> /\ ctlSocket = <<>>
    /\ lastAvatar = None /\ lastObject = None
    /\ roomPose = None /\ roomObjects = None /\ inbox = <<>> /\ dropped = 0
    /\ sent = <<>>
    /\ newest = NoNews
    /\ arrived = <<>>
    /\ seen = <<>>

-----------------------------------------------------------------------------
(* The server, external.                                                   *)

Frame(data, n, more) == [data |-> data, n |-> n, more |-> more]

\* A message with a topic frame alone, a payload, or a payload and a trailer.
Forms(topic, n) ==
    {<<Frame(topic, n, FALSE)>>,
     <<Frame(topic, n, TRUE), Frame(<<"payload">>, n, FALSE)>>,
     <<Frame(topic, n, TRUE), Frame(<<"payload">>, n, TRUE),
       Frame(topic, n, FALSE)>>}

Topic(lane, r) == IF lane = "objects" THEN r \o ObjSuffix ELSE r

Prefix(p, s) == Len(p) <= Len(s) /\ SubSeq(s, 1, Len(p)) = p

\* The newest publication that the socket takes for this room.
News(lane, r, form, taken) ==
    IF taken /\ r = room /\ Len(form) > 1
    THEN [newest EXCEPT ![lane] = Len(sent) + 1] ELSE newest

\* A room's avatar poses or objects are published; the subscription filters
\* by prefix and the socket drops at its high-water mark.
Publish(lane, r) ==
    /\ Len(sent) < MaxMessages
    /\ sent' = Append(sent, [lane |-> lane, room |-> r, session |-> session])
    /\ \E form \in Forms(Topic(lane, r), Len(sent) + 1) :
         LET taken == Prefix(room, Topic(lane, r)) /\ Len(subSocket) < SubHwm
         IN /\ subSocket' = IF taken THEN subSocket \o form ELSE subSocket
            /\ newest' = News(lane, r, form, taken)
    /\ UNCHANGED <<room, session, stopping, netVars, ctlSocket, clientVars,
                   arrived, seen>>

\* The server sends to this client alone; the first frame names a room.
SendControl(r) ==
    /\ Len(sent) < MaxMessages
    /\ sent' = Append(sent, [lane |-> "control", room |-> r, session |-> session])
    /\ \E form \in Forms(r, Len(sent) + 1) : ctlSocket' = ctlSocket \o form
    /\ UNCHANGED <<room, session, stopping, netVars, subSocket, clientVars,
                   newest, arrived, seen>>

-----------------------------------------------------------------------------
(* The network thread.                                                     *)

\* Mutant: the subscription's prefix match is taken for a match.
is_avatar_prefix(topic, r) == Prefix(r, topic) /\ ~Prefix(r \o ObjSuffix, topic)

is_avatar_topic(topic, r) == topic = r
is_object_topic(topic, r) == topic = r \o ObjSuffix

\* The loop's head and the send half of the iteration (module Transport).
LoopHead ==
    /\ netPc = "head"
    /\ netPc' = IF stopping THEN "done" ELSE "sub"
    /\ lastAvatar' = None
    /\ lastObject' = None
    /\ UNCHANGED <<room, session, stopping, socketVars, clientVars, sent,
                   newest, arrived, seen>>

\* The frames an iteration of a receive loop takes: a topic without "more" is
\* skipped, otherwise its payload comes with it.
Taken(socket) == IF Head(socket).more THEN 2 ELSE 1
Rest(socket) == SubSeq(socket, Taken(socket) + 1, Len(socket))

\* receive_sub: one iteration.  The newest payload of each kind is kept.
ReceiveSub ==
    /\ netPc = "sub"
    /\ subSocket # <<>>
    /\ subSocket' = Rest(subSocket)
    /\ LET topic == Head(subSocket).data
           avatar == is_avatar_topic(topic, room)
           object == ~avatar /\ is_object_topic(topic, room)
           paid == Taken(subSocket) = 2
       IN /\ lastAvatar' = IF paid /\ avatar THEN subSocket[2].n ELSE lastAvatar
          /\ lastObject' = IF paid /\ object THEN subSocket[2].n ELSE lastObject
    /\ UNCHANGED <<room, session, stopping, netPc, ctlSocket, clientVars, sent,
                   newest, arrived, seen>>

\* The socket is empty.
SubDrained ==
    /\ netPc = "sub"
    /\ subSocket = <<>>
    /\ netPc' = "avatar"
    /\ UNCHANGED <<room, session, stopping, lastAvatar, lastObject, socketVars,
                   clientVars, sent, newest, arrived, seen>>

\* The two on_payload_ calls of receive_sub, each under inbox_mutex_.
DeliverAvatar ==
    /\ netPc = "avatar"
    /\ roomPose' = IF lastAvatar = None THEN roomPose ELSE lastAvatar
    /\ netPc' = "object"
    /\ UNCHANGED <<room, session, stopping, lastAvatar, lastObject, socketVars,
                   roomObjects, inbox, dropped, sent, newest, arrived, seen>>

\* Mutant: an avatar frame of the same drain hides the object frame.
DeliverObjectUnlessAvatar ==
    /\ netPc = "object"
    /\ roomObjects' = IF lastObject = None \/ lastAvatar # None
                      THEN roomObjects ELSE lastObject
    /\ netPc' = "control"
    /\ UNCHANGED <<room, session, stopping, lastAvatar, lastObject, socketVars,
                   roomPose, inbox, dropped, sent, newest, arrived, seen>>

DeliverObject ==
    /\ netPc = "object"
    /\ roomObjects' = IF lastObject = None THEN roomObjects ELSE lastObject
    /\ netPc' = "control"
    /\ UNCHANGED <<room, session, stopping, lastAvatar, lastObject, socketVars,
                   roomPose, inbox, dropped, sent, newest, arrived, seen>>

\* Mutant: a full inbox discards the message that does not fit.
QueueControlNewestLost(n) ==
    /\ inbox' = IF Len(inbox) >= InboxMax THEN inbox ELSE Append(inbox, n)
    /\ dropped' = IF Len(inbox) >= InboxMax THEN dropped + 1 ELSE dropped

\* handle_payload: a full inbox gives up its oldest message and counts it.
QueueControl(n) ==
    IF Len(inbox) >= InboxMax
    THEN inbox' = Append(Tail(inbox), n) /\ dropped' = dropped + 1
    ELSE inbox' = Append(inbox, n) /\ UNCHANGED dropped

\* receive_control: one iteration.
ReceiveControl ==
    /\ netPc = "control"
    /\ ctlSocket # <<>>
    /\ ctlSocket' = Rest(ctlSocket)
    /\ IF Taken(ctlSocket) = 2 /\ Head(ctlSocket).data = room
       THEN QueueControl(ctlSocket[2].n) /\ arrived' = Append(arrived, ctlSocket[2].n)
       ELSE UNCHANGED <<inbox, dropped, arrived>>
    /\ UNCHANGED <<room, session, stopping, netVars, subSocket, roomPose,
                   roomObjects, sent, newest, seen>>

ControlDrained ==
    /\ netPc = "control"
    /\ ctlSocket = <<>>
    /\ netPc' = "head"
    /\ UNCHANGED <<room, session, stopping, lastAvatar, lastObject, socketVars,
                   clientVars, sent, newest, arrived, seen>>

-----------------------------------------------------------------------------
(* The main thread.                                                        *)

Seen(lane, n) ==
    IF n = None THEN <<>> ELSE <<[lane |-> lane, n |-> n, session |-> session]>>

\* poll(): everything is swapped out under inbox_mutex_ and processed.
Poll ==
    /\ ~stopping
    /\ seen' = seen \o Seen("pose", roomPose)
                    \o [i \in DOMAIN inbox |-> [lane |-> "control",
                                                n |-> inbox[i],
                                                session |-> session]]
                    \o Seen("objects", roomObjects)
    /\ roomPose' = None /\ roomObjects' = None /\ inbox' = <<>>
    /\ UNCHANGED <<room, session, stopping, netVars, socketVars, dropped, sent,
                   newest, arrived>>

\* connect() again, possibly for another room: transport_.stop() begins.
Stop ==
    /\ ~stopping
    /\ session < MaxSessions
    /\ stopping' = TRUE
    /\ UNCHANGED <<room, session, netVars, socketVars, clientVars, sent, newest,
                   arrived, seen>>

\* The thread is joined, its sockets are closed, reset_session_state empties
\* the inbox and a new thread starts.
Rejoin(r) ==
    /\ stopping
    /\ netPc = "done"
    /\ stopping' = FALSE
    /\ room' = r
    /\ session' = session + 1
    /\ netPc' = "head"
    /\ subSocket' = <<>> /\ ctlSocket' = <<>>
    /\ roomPose' = None /\ roomObjects' = None /\ inbox' = <<>>
    /\ dropped' = 0
    /\ newest' = NoNews
    /\ arrived' = <<>>
    /\ UNCHANGED <<lastAvatar, lastObject, sent, seen>>

NetNext ==
    \/ LoopHead \/ ReceiveSub \/ SubDrained \/ DeliverAvatar \/ DeliverObject
    \/ ReceiveControl \/ ControlDrained

Next ==
    \/ NetNext
    \/ Poll \/ Stop
    \/ \E r \in Rooms :
         \/ Publish("pose", r) \/ Publish("objects", r) \/ SendControl(r)
         \/ Rejoin(r)

Spec == Init /\ [][Next]_vars

-----------------------------------------------------------------------------
(* Properties.                                                             *)

\* What poll() hands on was sent on that lane, in the session it is handed on
\* in, and in order: no frame of a room whose name starts like this one's, none
\* of the room of an earlier connection, none twice (is_avatar_topic,
\* is_object_topic, receive_control, reset_session_state).
SeenInRoomAndOrder ==
    \A i \in DOMAIN seen :
        /\ sent[seen[i].n].lane = seen[i].lane
        /\ sent[seen[i].n].session = seen[i].session
        /\ seen[i].session = session => sent[seen[i].n].room = room
        /\ \A j \in 1..(i - 1) : seen[j].lane = seen[i].lane => seen[j].n < seen[i].n

HasSeen(lane, n) == \E i \in DOMAIN seen : seen[i].lane = lane /\ seen[i].n = n

\* When the loop is back at its head with nothing left to read, the newest pose
\* and the newest objects that reached the socket are in the client's slots or
\* were handed on: a drain that finds both, or frames of other rooms after
\* them, loses neither (receive_sub, handle_payload, poll).
NewestDelivered ==
    netPc = "head" /\ subSocket = <<>> =>
        /\ newest.pose \in {None, roomPose} \/ HasSeen("pose", newest.pose)
        /\ newest.objects \in {None, roomObjects}
             \/ HasSeen("objects", newest.objects)

\* Every control message of the room that arrived in the session waits, was
\* handed on, or is counted as dropped, and the newest one is never the one
\* dropped (handle_payload).
ControlAccounted ==
    LET handed == {i \in DOMAIN seen : seen[i].lane = "control"
                                        /\ seen[i].session = session}
        last == arrived[Len(arrived)]
    IN /\ Len(arrived) = Cardinality(handed) + Len(inbox) + dropped
       /\ arrived # <<>> => HasSeen("control", last)
                             \/ \E i \in DOMAIN inbox : inbox[i] = last
=============================================================================
