------------------------------- MODULE MCRoom -------------------------------
(***************************************************************************)
(* What the clients of a room and its server agree on: the variables of    *)
(* module NetworkVariables and the objects of module Objects.  They share  *)
(* no state: a behaviour moves one and leaves the other where it starts.   *)
(***************************************************************************)
EXTENDS MCNetworkVariables, TLC

CONSTANTS Ids, Poses, Nobody, Me, Other, Interval, Heartbeat, InboxMax, MaxCtl,
          MaxSub, p1, p2

VARIABLES localNo, registered, owner, shown, localPose, lastSentPose, age, inbox,
          room, slot, ctl, sub, sOwner, sPose, granted, dirtyObjects

Obj == INSTANCE Objects WITH lastSent <- lastSentPose, dirty <- dirtyObjects

objectVars == <<localNo, registered, owner, shown, localPose, lastSentPose, age,
                inbox, room, slot, ctl, sub, sOwner, sPose, granted, dirtyObjects>>

OneId == {1}
TwoPoses == {p1, p2}

\* The poses are alike; the run checks no liveness.
PosesAlike == Permutations(TwoPoses)

RoomInit == Init /\ Obj!Init

VariablesNext == Obj!Init /\ UNCHANGED objectVars /\ Next
ObjectsNext == Init /\ UNCHANGED vars /\ Obj!Next

RoomNext == VariablesNext \/ ObjectsNext

RoomSpec == RoomInit /\ [][RoomNext]_<<vars, objectVars>>

\* Module Objects: however ownership messages and snapshots overtake each other,
\* the client ends up with the server's owner, and with its pose of an object
\* that is not its own (handle_ownership_changed, handle_room_objects).
OwnerCoherent == Obj!OwnerCoherent

\* Module Objects: tick() publishes only an object that the server had as this
\* client's at some time of this session (clear_room_scoped_state).
PublishesOnlyGranted == Obj!PublishesOnlyGranted
=============================================================================
