------------------------- MODULE TransportRefinement -------------------------
(***************************************************************************)
(* Module Transport implements its two promises: ControlLane for the       *)
(* control messages, and PoseSlot for the avatar and for every object.     *)
(* A session is over, for its packets, from the moment stop() has cleared  *)
(* the queues, although the network thread may still be running.           *)
(***************************************************************************)
EXTENDS Transport

Ended == netPc = "off" \/ call.op = "join"

\* A packet waits in the outbox or is held after a refused send.
WaitingPackets ==
    ({pending} \ {None}) \cup {outbox[i] : i \in DOMAIN outbox}

Lane == INSTANCE ControlLane WITH
    ended <- Ended, waiting <- WaitingPackets, delivered <- wire

AvatarSlot == INSTANCE PoseSlot WITH
    newest <- poseIn, shown <- poseOut, owed <- latest # None,
    carried <- IF netPc = "poseSend" THEN copy ELSE None, ended <- Ended

ObjectSlot(o) == INSTANCE PoseSlot WITH
    newest <- objectIn[o], shown <- objectOut[o], owed <- objects[o] # None,
    carried <- IF netPc = "objectSend" /\ IsNext(o) THEN copy ELSE None,
    ended <- Ended

\* The control lane of the two threads, seen through WaitingPackets, is the
\* queue of module ControlLane: accepted packets leave oldest first, are
\* dropped only past their TTL or by clear_outgoing, and none is carried into
\* the next session (try_enqueue_control, drain_control_sends,
\* clear_outgoing).
ImplementsControlLane == Lane!Spec

\* The slot of the avatar and the slots of the objects behave like module
\* PoseSlot: copying a payload out, sending it without the lock and clearing
\* the slot afterwards never settles a payload that was not itself sent
\* (try_send_latest_transform, try_send_latest_object_transforms).
ImplementsSlots ==
    /\ AvatarSlot!Spec
    /\ \A o \in ObjectIds : ObjectSlot(o)!Init
    /\ [][\A o \in ObjectIds :
            [ObjectSlot(o)!Next]_(ObjectSlot(o)!vars)]_vars
=============================================================================
