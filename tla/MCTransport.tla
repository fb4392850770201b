----------------------------- MODULE MCTransport -----------------------------
(***************************************************************************)
(* Module Transport and what it implements, on a small instance.  A        *)
(* session is of one of three kinds: control packets while the clock runs; *)
(* two payloads for the avatar and an object; or one payload for the       *)
(* avatar and two objects that share the thread with a control packet, in  *)
(* a single session without failures.  Time means nothing to poses, which  *)
(* come when the clock has run out.  What is restricted is the host's      *)
(* choice of calls and whether a send fails; no fairness speaks of these.  *)
(***************************************************************************)
EXTENDS TransportRefinement

CONSTANTS p1, p2

TwoPayloads == {p1, p2}
ZeroToTwo == 0..2

UsesControl == call.op = "control" \/ accepted > 0
UsedBy(o) ==
    \/ call.op = "object" /\ call.id = o
    \/ objectIn[o] # None \/ objectOut[o] # None
UsesAvatar == call.op = "pose" \/ poseIn # None \/ poseOut # None
UsesPoses == UsesAvatar \/ \E o \in ObjectIds : UsedBy(o)
UsesPayload(p) ==
    \/ call.op \in {"pose", "object"} /\ call.payload = p
    \/ p \in {poseIn, poseOut}
    \/ \E o \in ObjectIds : p \in {objectIn[o], objectOut[o]}

\* Two payloads meet in the same slot.
OneObject == ~UsesControl /\ ~UsedBy(2)

\* All lanes compete for the thread.
AllLanes ==
    /\ session = 1 /\ ~connError
    /\ call.op = "control" => accepted = 0
    /\ accepted <= 1 /\ expired = {}
    /\ \A p \in WaitingPackets \cup {wire[i] : i \in DOMAIN wire} : p.at = clock
    /\ ~UsesPayload(p2)

OneKind == UsesPoses => clock = MaxClock /\ (OneObject \/ AllLanes)

KindKept == OneKind' /\ (session' # session /\ UsesPoses => OneObject)
=============================================================================
