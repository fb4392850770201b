------------------------------ MODULE MCPoses ------------------------------
(***************************************************************************)
(* The way poses come in, module Inbound, and the way the own pose goes    *)
(* out, module LocalPose.  They share no state: a behaviour moves one and  *)
(* leaves the other where it starts.  Two rooms, one's name a prefix of    *)
(* the other's; two poses and three send rates.                            *)
(***************************************************************************)
EXTENDS Inbound, OwnPose

CONSTANTS p1, p2

TwoRooms == {<<"a">>, <<"a", "b">>}
Suffix == <<"nul", "obj">>
TwoPoses == {p1, p2}

LocalAtRest == Local!Init /\ ~stealth /\ interval = Local!Slowest

PosesInit == Init /\ Local!Init

InboundMoves(step) == LocalAtRest /\ step /\ UNCHANGED localVars
LocalMoves(step) == Init /\ step /\ UNCHANGED vars

InboundNext ==
    \/ InboundMoves(LoopHead) \/ InboundMoves(ReceiveSub)
    \/ InboundMoves(SubDrained) \/ InboundMoves(DeliverAvatar)
    \/ InboundMoves(DeliverObject) \/ InboundMoves(ReceiveControl)
    \/ InboundMoves(ControlDrained) \/ InboundMoves(Poll) \/ InboundMoves(Stop)
    \/ \E r \in Rooms :
          \/ InboundMoves(Publish("pose", r)) \/ InboundMoves(Publish("objects", r))
          \/ InboundMoves(SendControl(r)) \/ InboundMoves(Rejoin(r))

LocalNext ==
    \/ \E p \in Poses : LocalMoves(Local!SetLocalPose(p))
    \/ LocalMoves(Local!Connect) \/ LocalMoves(Local!TransportStarts)
    \/ LocalMoves(Local!TransportFails)
    \/ LocalMoves(Local!SetTransformSendRate)
    \/ LocalMoves(Local!ClearLocalPose) \/ LocalMoves(Local!Frame)

PosesNext == InboundNext \/ LocalNext

PosesSpec == PosesInit /\ [][PosesNext]_<<vars, localVars>>
=============================================================================
