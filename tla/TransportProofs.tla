--------------------------- MODULE TransportProofs ---------------------------
(***************************************************************************)
(* Proofs about module Transport for every set of payloads and objects,    *)
(* every queue length, batch size and TTL, and any number of sessions.     *)
(***************************************************************************)
EXTENDS TransportRefinement, TLAPS

\* A refused send leaves connection_error_ and the callbacks made well typed.
LEMMA SendRefusedType ==
    ASSUME ControlType, SendRefused
    PROVE  connError' \in BOOLEAN /\ reports' \in Seq({"connected", "error"})
<1>1. CASE UNCHANGED <<connError, reports>>
  BY <1>1 DEF ControlType
<1>2. CASE Fail
  BY <1>2 DEF Fail, ControlType
<1> QED
  BY <1>1, <1>2 DEF SendRefused

\* Every step of either thread preserves the types.
LEMMA TypeOKStep == TypeOK /\ [Next]_vars => TypeOK'
<1> SUFFICES ASSUME TypeOK, [Next]_vars PROVE TypeOK'
  OBVIOUS
<1> USE DEF TypeOK, flags, queues, netLocals, controlHistory, poseHistory
<1>a. Idle \in Calls /\ [op |-> "clear"] \in Calls /\ [op |-> "join"] \in Calls
  BY DEF Idle, Calls
<1>b. NoObjects \in [ObjectIds -> Payloads \cup {None}]
  BY DEF NoObjects
<1>c. /\ <<>> \in Seq(Packets) /\ Len(<<>>) <= OutboxMax
      /\ <<>> \in Seq({"connected", "error"})
      /\ <<"error">> \in Seq({"connected", "error"})
  BY LimitsAssumption
<1>d. ASSUME StartSession PROVE HistoryType'
  <2>1. (/\ session \in Nat /\ accepted \in Nat /\ expired \subseteq Nat
         /\ cleared \in Nat)'
    BY <1>d DEF StartSession, HistoryType
  <2>2. (wire \in Seq(Packets) /\ torn \in BOOLEAN)'
    BY <1>d, <1>c DEF StartSession
  <2>3. (poseIn \in Payloads \cup {None} /\ poseOut \in Payloads \cup {None})'
    BY <1>d DEF StartSession
  <2>4. (/\ objectIn \in [ObjectIds -> Payloads \cup {None}]
         /\ objectOut \in [ObjectIds -> Payloads \cup {None}])'
    BY <1>d, <1>b DEF StartSession
  <2> QED
    BY <2>1, <2>2, <2>3, <2>4 DEF HistoryType
<1>1. CASE Tick
  <2>1. ControlType'
    BY <1>1 DEF Tick, ControlType
  <2>2. QueueType'
    BY <1>1 DEF Tick, QueueType
  <2>3. HistoryType'
    BY <1>1 DEF Tick, HistoryType
  <2> QED
    BY <2>1, <2>2, <2>3
<1>2. CASE Start
  <2>1. ControlType'
    BY <1>2, <1>c DEF Start, StartSession, NetPcs, ControlType
  <2>2. QueueType'
    BY <1>2 DEF Start, StartSession, QueueType
  <2>3. HistoryType'
    BY <1>2, <1>d DEF Start
  <2> QED
    BY <2>1, <2>2, <2>3
<1>3. CASE StartFails
  <2>1. ControlType'
    BY <1>3, <1>c DEF StartFails, StartSession, ControlType
  <2>2. QueueType'
    BY <1>3 DEF StartFails, StartSession, QueueType
  <2>3. HistoryType'
    BY <1>3, <1>d DEF StartFails
  <2> QED
    BY <2>1, <2>2, <2>3
<1>4. CASE \E c \in Calls : c.op \in {"control", "pose", "object"} /\ Submit(c)
  <2>1. ControlType'
    BY <1>4 DEF Submit, ControlType
  <2>2. QueueType'
    BY <1>4 DEF Submit, QueueType
  <2>3. HistoryType'
    BY <1>4 DEF Submit, HistoryType
  <2> QED
    BY <2>1, <2>2, <2>3
<1>5. CASE PushControl
  <2>1. ControlType'
    BY <1>5, <1>a DEF PushControl, ControlType
  <2>2. QueueType'
    <3>1. CASE Len(outbox) >= OutboxMax
      BY <1>5, <3>1 DEF PushControl, QueueType
    <3>2. CASE ~(Len(outbox) >= OutboxMax)
      <4> DEFINE p == [id |-> accepted + 1, session |-> session, at |-> clock]
      <4>1. p \in Packets
        BY DEF Packets, QueueType, HistoryType
      <4>2. outbox' = Append(outbox, p)
        BY <1>5, <3>2 DEF PushControl
      <4> HIDE DEF p
      <4>3. outbox' \in Seq(Packets) /\ Len(outbox') <= OutboxMax
        BY <3>2, <4>1, <4>2, LimitsAssumption DEF QueueType
      <4> QED
        BY <1>5, <4>3 DEF PushControl, QueueType
    <3> QED
      BY <3>1, <3>2
  <2>3. HistoryType'
    BY <1>5 DEF PushControl, HistoryType
  <2> QED
    BY <2>1, <2>2, <2>3
<1>6. CASE PushPose
  <2>1. ControlType'
    BY <1>6, <1>a DEF PushPose, ControlType
  <2>2. QueueType'
    BY <1>6 DEF PushPose, Calls, QueueType, ControlType
  <2>3. HistoryType'
    BY <1>6 DEF PushPose, Calls, HistoryType, ControlType
  <2> QED
    BY <2>1, <2>2, <2>3
<1>7. CASE PushObject
  <2>1. ControlType'
    BY <1>7, <1>a DEF PushObject, ControlType
  <2>2. QueueType'
    BY <1>7 DEF PushObject, Calls, QueueType, ControlType
  <2>3. HistoryType'
    BY <1>7 DEF PushObject, Calls, HistoryType, ControlType
  <2> QED
    BY <2>1, <2>2, <2>3
<1>8. CASE StopNotRunning
  <2>1. ControlType'
    BY <1>8 DEF StopNotRunning, ControlType
  <2>2. QueueType'
    BY <1>8 DEF StopNotRunning, QueueType
  <2>3. HistoryType'
    BY <1>8 DEF StopNotRunning, HistoryType
  <2> QED
    BY <2>1, <2>2, <2>3
<1>9. CASE StopSignal
  <2>1. ControlType'
    BY <1>9, <1>a DEF StopSignal, ControlType
  <2>2. QueueType'
    BY <1>9 DEF StopSignal, QueueType
  <2>3. HistoryType'
    BY <1>9 DEF StopSignal, HistoryType
  <2> QED
    BY <2>1, <2>2, <2>3
<1>10. CASE ClearOutgoing \/ StopClear
  <2>1. DropQueued /\ (UNCHANGED call \/ call' = [op |-> "join"])
    BY <1>10 DEF ClearOutgoing, StopClear
  <2>2. ControlType'
    BY <1>a, <2>1 DEF DropQueued, ControlType
  <2>3. QueueType' /\ HistoryType'
    BY <1>b, <1>c, <2>1 DEF DropQueued, QueueType, HistoryType
  <2> QED
    BY <2>1, <2>2, <2>3
<1>11. CASE StopJoin
  <2>1. ControlType'
    BY <1>11, <1>a DEF StopJoin, NetPcs, ControlType
  <2>2. QueueType'
    BY <1>11 DEF StopJoin, QueueType
  <2>3. HistoryType'
    BY <1>11 DEF StopJoin, HistoryType
  <2> QED
    BY <2>1, <2>2, <2>3
<1>12. CASE NetOpen
  <2>1. ControlType'
    BY <1>12 DEF NetOpen, NetPcs, ControlType
  <2>2. QueueType'
    BY <1>12 DEF NetOpen, QueueType
  <2>3. HistoryType'
    BY <1>12 DEF NetOpen, HistoryType
  <2> QED
    BY <2>1, <2>2, <2>3
<1>13. CASE NetOpenFails
  <2>1. ControlType'
    BY <1>13 DEF NetOpenFails, Fail, NetPcs, ControlType
  <2>2. QueueType'
    BY <1>13 DEF NetOpenFails, Fail, QueueType
  <2>3. HistoryType'
    BY <1>13 DEF NetOpenFails, Fail, HistoryType
  <2> QED
    BY <2>1, <2>2, <2>3
<1>14. CASE NetLoop
  <2>1. ControlType'
    BY <1>14 DEF NetLoop, NetPcs, ControlType
  <2>2. QueueType'
    BY <1>14 DEF NetLoop, QueueType
  <2>3. HistoryType'
    BY <1>14 DEF NetLoop, HistoryType
  <2> QED
    BY <2>1, <2>2, <2>3
<1>15. CASE NetDrain
  <2>1. ControlType'
    BY <1>15 DEF NetDrain, NetPcs, ControlType
  <2>2. QueueType'
    <3>1. CASE UNCHANGED <<pending, outbox>>
      BY <1>15, <3>1 DEF NetDrain, QueueType
    <3>2. CASE /\ outbox # <<>>
               /\ pending' = Head(outbox)
               /\ outbox' = Tail(outbox)
      <4>1. /\ pending' \in Packets
            /\ outbox' \in Seq(Packets)
            /\ Len(outbox') <= OutboxMax
        BY <3>2, LimitsAssumption DEF QueueType
      <4> QED
        BY <1>15, <4>1 DEF NetDrain, QueueType
    <3> QED
      BY <1>15, <3>1, <3>2 DEF NetDrain
  <2>3. HistoryType'
    BY <1>15 DEF NetDrain, HistoryType
  <2> QED
    BY <2>1, <2>2, <2>3
<1>16. CASE NetExpire
  <2>1. ControlType'
    BY <1>16 DEF NetExpire, NetPcs, ControlType
  <2>2. QueueType'
    BY <1>16 DEF NetExpire, QueueType
  <2>3. HistoryType'
    BY <1>16 DEF NetExpire, Packets, HistoryType, QueueType
  <2> QED
    BY <2>1, <2>2, <2>3
<1>17. CASE NetSendControl
  <2>1. ControlType'
    BY <1>17 DEF NetSendControl, NetPcs, ControlType
  <2>2. QueueType'
    BY <1>17 DEF NetSendControl, QueueType
  <2>3. HistoryType'
    BY <1>17 DEF NetSendControl, HistoryType, QueueType
  <2> QED
    BY <2>1, <2>2, <2>3
<1>18. CASE NetHoldControl
  <2>1. ControlType'
    BY <1>18, SendRefusedType DEF NetHoldControl, NetPcs, ControlType
  <2>2. QueueType'
    BY <1>18 DEF NetHoldControl, QueueType
  <2>3. HistoryType'
    BY <1>18 DEF NetHoldControl, HistoryType
  <2> QED
    BY <2>1, <2>2, <2>3
<1>19. CASE NetSendTorn
  <2>1. ControlType'
    BY <1>19 DEF NetSendTorn, NetPcs, ControlType
  <2>2. QueueType'
    BY <1>19 DEF NetSendTorn, QueueType
  <2>3. HistoryType'
    BY <1>19 DEF NetSendTorn, HistoryType
  <2> QED
    BY <2>1, <2>2, <2>3
<1>20. CASE NetPose
  <2>1. ControlType'
    BY <1>20 DEF NetPose, NetPcs, ControlType
  <2>2. QueueType'
    BY <1>20 DEF NetPose, QueueType
  <2>3. HistoryType'
    BY <1>20 DEF NetPose, HistoryType
  <2> QED
    BY <2>1, <2>2, <2>3
<1>21. CASE NetSendPose
  <2>1. ControlType'
    BY <1>21 DEF NetSendPose, NetPcs, ControlType
  <2>2. QueueType'
    BY <1>21 DEF NetSendPose, QueueType
  <2>3. HistoryType'
    BY <1>21 DEF NetSendPose, HistoryType, QueueType
  <2> QED
    BY <2>1, <2>2, <2>3
<1>22. CASE NetHoldPose
  <2>1. ControlType'
    BY <1>22, SendRefusedType DEF NetHoldPose, NetPcs, ControlType
  <2>2. QueueType'
    BY <1>22 DEF NetHoldPose, QueueType
  <2>3. HistoryType'
    BY <1>22 DEF NetHoldPose, HistoryType
  <2> QED
    BY <2>1, <2>2, <2>3
<1>23. CASE NetClearPose
  <2>1. ControlType'
    BY <1>23 DEF NetClearPose, Unsent, NetPcs, ControlType
  <2>2. QueueType'
    BY <1>23 DEF NetClearPose, Unsent, QueueType
  <2>3. HistoryType'
    BY <1>23 DEF NetClearPose, Unsent, HistoryType
  <2> QED
    BY <2>1, <2>2, <2>3
<1>24. CASE NetObjects
  <2>1. ControlType'
    BY <1>24 DEF NetObjects, NetPcs, ControlType
  <2>2. QueueType'
    BY <1>24 DEF NetObjects, QueueType
  <2>3. HistoryType'
    BY <1>24 DEF NetObjects, HistoryType
  <2> QED
    BY <2>1, <2>2, <2>3
<1>25. CASE NetCopyObject
  <2>1. ControlType'
    BY <1>25 DEF NetCopyObject, NetPcs, ControlType
  <2>2. QueueType'
    BY <1>25 DEF NetCopyObject, QueueType
  <2>3. HistoryType'
    BY <1>25 DEF NetCopyObject, HistoryType
  <2> QED
    BY <2>1, <2>2, <2>3
<1>26. CASE NetSendObject
  <2>1. ControlType'
    BY <1>26 DEF NetSendObject, NetPcs, ControlType
  <2>2. QueueType'
    BY <1>26 DEF NetSendObject, QueueType
  <2>3. HistoryType'
    BY <1>26 DEF NetSendObject, HistoryType, QueueType
  <2> QED
    BY <2>1, <2>2, <2>3
<1>27. CASE NetHoldObject
  <2>1. ControlType'
    BY <1>27, SendRefusedType DEF NetHoldObject, NetPcs, ControlType
  <2>2. QueueType'
    BY <1>27 DEF NetHoldObject, QueueType
  <2>3. HistoryType'
    BY <1>27 DEF NetHoldObject, HistoryType
  <2> QED
    BY <2>1, <2>2, <2>3
<1>28. CASE NetEraseObject
  <2>1. ControlType'
    BY <1>28 DEF NetEraseObject, Unsent, NetPcs, ControlType
  <2>2. QueueType'
    BY <1>28 DEF NetEraseObject, Unsent, QueueType
  <2>3. HistoryType'
    BY <1>28 DEF NetEraseObject, Unsent, HistoryType
  <2> QED
    BY <2>1, <2>2, <2>3
<1>29. CASE UNCHANGED vars
  BY <1>29 DEF vars, ControlType, QueueType, HistoryType
<1> HIDE DEF TypeOK
<1> QED
  BY <1>1, <1>2, <1>3, <1>4, <1>5, <1>6, <1>7, <1>8, <1>9, <1>10, <1>11,
     <1>12, <1>13, <1>14, <1>15, <1>16, <1>17, <1>18, <1>19, <1>20, <1>21,
     <1>22, <1>23, <1>24, <1>25, <1>26, <1>27, <1>28, <1>29
     DEF Next, MainNext, MainPush, MainStop, NetNext, NetControl, NetPoses,
         NetObjectPoses

\* The initial state is well typed.
LEMMA InitType == Init => TypeOK
<1> SUFFICES ASSUME Init PROVE TypeOK
  OBVIOUS
<1>1. ControlType
  <2>1. call \in Calls /\ netPc \in NetPcs
    BY DEF Init, Idle, Calls, NetPcs
  <2>2. reports \in Seq({"connected", "error"})
    BY DEF Init
  <2> QED
    BY <2>1, <2>2 DEF Init, ControlType
<1>2. QueueType
  BY LimitsAssumption DEF Init, QueueType, NoObjects
<1>3. HistoryType
  <2>1. /\ session \in Nat /\ accepted \in Nat /\ expired \subseteq Nat
        /\ cleared \in Nat
    BY DEF Init
  <2>2. wire \in Seq(Packets)
    BY DEF Init
  <2>3. /\ objectIn \in [ObjectIds -> Payloads \cup {None}]
        /\ objectOut \in [ObjectIds -> Payloads \cup {None}]
    BY DEF Init, NoObjects
  <2> QED
    BY <2>1, <2>2, <2>3 DEF Init, HistoryType
<1> QED
  BY <1>1, <1>2, <1>3 DEF TypeOK

\* Every reachable state is well typed and the outbox never exceeds its limit.
THEOREM TypeCorrect == Spec => []TypeOK
<1> QED
  BY InitType, TypeOKStep, PTL DEF Spec

-----------------------------------------------------------------------------
(* Which steps touch the control lane, the slots and the callbacks.        *)

controlLane == <<outbox, pending, wire, session, accepted, expired, cleared>>

\* Only these steps change the control lane.
LEMMA ControlFrame ==
    ASSUME [Next]_vars
    PROVE  \/ Start \/ StartFails \/ PushControl \/ ClearOutgoing \/ StopClear
           \/ NetDrain \/ NetExpire \/ NetSendControl
           \/ UNCHANGED controlLane
<1> USE DEF controlLane, flags, queues, netLocals, controlHistory, poseHistory
<1>1. ASSUME MainNext
      PROVE  \/ Start \/ StartFails \/ PushControl \/ ClearOutgoing \/ StopClear
             \/ UNCHANGED controlLane
  BY <1>1 DEF MainNext, Submit, MainPush, PushPose,
              PushObject, StopNotRunning, StopSignal, MainStop, StopJoin
<1>2. ASSUME NetControl
      PROVE  \/ NetDrain \/ NetExpire \/ NetSendControl
             \/ UNCHANGED controlLane
  BY <1>2 DEF NetControl, NetHoldControl, NetSendTorn
<1>3. ASSUME NetPoses \/ NetObjectPoses \/ NetOpen \/ NetOpenFails \/ NetLoop
      PROVE  UNCHANGED controlLane
  BY <1>3 DEF NetPoses, NetPose, NetSendPose, NetHoldPose, NetClearPose,
              NetObjectPoses, NetObjects, NetCopyObject, NetSendObject,
              NetHoldObject, NetEraseObject, NetOpen, NetOpenFails, NetLoop
<1>4. ASSUME Tick \/ UNCHANGED vars
      PROVE  UNCHANGED controlLane
  BY <1>4 DEF Tick, vars
<1> QED
  BY <1>1, <1>2, <1>3, <1>4 DEF Next, NetNext

-----------------------------------------------------------------------------
(* The control lane.                                                       *)

\* Every step keeps the control packets in order and in their session.
LEMMA OrderStep ==
    ASSUME TypeOK, CallInv, OrderInv, [Next]_vars
    PROVE  OrderInv'
<1>a. /\ outbox \in Seq(Packets) /\ wire \in Seq(Packets)
      /\ pending \in Packets \cup {None}
      /\ session \in Nat /\ accepted \in Nat
  BY DEF TypeOK, QueueType, HistoryType
<1>1. CASE Start \/ StartFails
  <2>1. outbox' = <<>> /\ pending' = None /\ wire' = <<>>
    BY <1>1 DEF Start, StartFails, StartSession, CallInv, queues
  <2> QED
    BY <2>1 DEF OrderInv, Increasing
<1>2. CASE PushControl
  <2>1. CASE UNCHANGED <<outbox, accepted>>
    BY <1>2, <2>1 DEF PushControl, OrderInv, Increasing
  <2>2. CASE /\ accepted' = accepted + 1
             /\ outbox' = Append(outbox, [id |-> accepted + 1,
                                          session |-> session, at |-> clock])
    <3> DEFINE p == [id |-> accepted + 1, session |-> session, at |-> clock]
    <3>1. p.id = accepted + 1 /\ p.session = session
      OBVIOUS
    <3>2. outbox' = Append(outbox, p)
      BY <2>2
    <3> HIDE DEF p
    <3>3. /\ DOMAIN outbox' = DOMAIN outbox \cup {Len(outbox) + 1}
          /\ \A i \in DOMAIN outbox : outbox'[i] = outbox[i]
          /\ outbox'[Len(outbox) + 1] = p
          /\ \A i \in DOMAIN outbox : i \in Nat /\ i < Len(outbox) + 1
          /\ Len(outbox) \in Nat
      BY <3>2, <1>a
    <3>4. UNCHANGED <<wire, pending, session>>
      BY <1>2 DEF PushControl
    <3>5. \A i \in DOMAIN wire : wire[i] \in Packets
      BY <1>a
    <3>6. \A i \in DOMAIN outbox : outbox[i] \in Packets
      BY <1>a
    <3>7. Increasing(outbox)'
      BY <1>a, <3>1, <3>3, <3>6, SMTT(40) DEF OrderInv, Increasing, Packets
    <3>8. \A i \in DOMAIN outbox' :
             outbox'[i].session = session' /\ outbox'[i].id <= accepted'
      BY <1>a, <2>2, <3>1, <3>3, <3>4, <3>6, SMTT(40) DEF OrderInv, Packets
    <3>9. ASSUME NEW i \in DOMAIN wire
          PROVE  /\ wire[i].session = session /\ wire[i].id <= accepted'
                 /\ \A j \in DOMAIN outbox' : wire[i].id < outbox'[j].id
      <4>1. wire[i].id \in Nat
        BY <3>5 DEF Packets
      <4>2. wire[i].session = session /\ wire[i].id <= accepted
        BY DEF OrderInv
      <4>3. \A j \in DOMAIN outbox : wire[i].id < outbox[j].id
        BY DEF OrderInv
      <4> QED
        BY <1>a, <2>2, <3>1, <3>3, <4>1, <4>2, <4>3
    <3>10. pending # None =>
             /\ pending.session = session
             /\ pending.id <= accepted'
             /\ \A i \in DOMAIN wire : wire[i].id < pending.id
             /\ \A j \in DOMAIN outbox' : pending.id < outbox'[j].id
      BY <1>a, <2>2, <3>1, <3>3 DEF OrderInv, Packets
    <3>11. Increasing(wire)
      BY DEF OrderInv
    <3> QED
      BY <3>4, <3>7, <3>8, <3>9, <3>10, <3>11 DEF OrderInv, Increasing
  <2> QED
    BY <1>2, <2>1, <2>2 DEF PushControl
<1>3. CASE ClearOutgoing \/ StopClear
  BY <1>3 DEF ClearOutgoing, StopClear, DropQueued, OrderInv, Increasing
<1>4. CASE NetDrain
  <2>1. UNCHANGED <<wire, session, accepted>>
    BY <1>4 DEF NetDrain, controlHistory
  <2>2. CASE UNCHANGED <<outbox, pending>>
    BY <2>1, <2>2 DEF OrderInv, Increasing
  <2>3. CASE /\ pending = None /\ outbox # <<>>
             /\ pending' = Head(outbox) /\ outbox' = Tail(outbox)
    <3>1. /\ Len(outbox) \in Nat
          /\ 1 \in DOMAIN outbox
          /\ pending' = outbox[1]
          /\ \A i \in DOMAIN outbox' :
               i \in Nat /\ 1 < i + 1 /\ i + 1 \in DOMAIN outbox
               /\ outbox'[i] = outbox[i + 1]
      BY <1>a, <2>3
    <3>2. Increasing(outbox)'
      BY <3>1 DEF OrderInv, Increasing
    <3>3. \A j \in DOMAIN outbox' : pending'.id < outbox'[j].id
      BY <3>1 DEF OrderInv, Increasing
    <3> QED
      BY <2>1, <3>1, <3>2, <3>3 DEF OrderInv, Increasing
  <2> QED
    BY <1>4, <2>2, <2>3 DEF NetDrain
<1>5. CASE NetExpire
  BY <1>5 DEF NetExpire, OrderInv, Increasing
<1>6. CASE NetSendControl
  <2>1. /\ pending # None /\ pending' = None
        /\ wire' = Append(wire, pending)
        /\ UNCHANGED <<outbox, session, accepted>>
    BY <1>6 DEF NetSendControl
  <2>2. /\ DOMAIN wire' = DOMAIN wire \cup {Len(wire) + 1}
        /\ \A i \in DOMAIN wire : wire'[i] = wire[i]
        /\ wire'[Len(wire) + 1] = pending
        /\ \A i \in DOMAIN wire : i \in Nat /\ i < Len(wire) + 1
        /\ Len(wire) \in Nat
    BY <1>a, <2>1
  <2>3. Increasing(wire)'
    BY <2>1, <2>2 DEF OrderInv, Increasing
  <2> QED
    BY <2>1, <2>2, <2>3 DEF OrderInv, Increasing
<1>7. CASE UNCHANGED controlLane
  BY <1>7 DEF controlLane, OrderInv, Increasing
<1> QED
  BY <1>1, <1>2, <1>3, <1>4, <1>5, <1>6, <1>7, ControlFrame

\* Every step keeps account of every accepted packet.
LEMMA AccountStep ==
    ASSUME TypeOK, CallInv, NoSilentLoss, [Next]_vars
    PROVE  NoSilentLoss'
<1> SUFFICES ASSUME NEW n \in (cleared' + 1)..accepted'
             PROVE  (InSeq(n, wire) \/ InSeq(n, outbox) \/ Held(n)
                     \/ n \in expired)'
  BY DEF NoSilentLoss
<1>a. /\ outbox \in Seq(Packets) /\ wire \in Seq(Packets)
      /\ session \in Nat /\ accepted \in Nat /\ cleared \in Nat
  BY DEF TypeOK, QueueType, HistoryType
<1>1. CASE Start \/ StartFails
  BY <1>1 DEF Start, StartFails, StartSession
<1>c. ASSUME n \in (cleared + 1)..accepted
      PROVE  InSeq(n, wire) \/ InSeq(n, outbox) \/ Held(n) \/ n \in expired
  BY <1>c DEF NoSilentLoss
<1>2. CASE PushControl
  <2>0. UNCHANGED <<wire, pending, expired, cleared>>
    BY <1>2 DEF PushControl
  <2>1. CASE UNCHANGED <<outbox, accepted>>
    BY <1>2, <1>c, <2>0, <2>1 DEF InSeq, Held
  <2>2. CASE /\ accepted' = accepted + 1
             /\ outbox' = Append(outbox, [id |-> accepted + 1,
                                          session |-> session, at |-> clock])
    <3> DEFINE p == [id |-> accepted + 1, session |-> session, at |-> clock]
    <3>1. p.id = accepted + 1
      OBVIOUS
    <3>2. outbox' = Append(outbox, p)
      BY <2>2
    <3> HIDE DEF p
    <3>3. /\ DOMAIN outbox' = DOMAIN outbox \cup {Len(outbox) + 1}
          /\ \A i \in DOMAIN outbox : outbox'[i] = outbox[i]
          /\ outbox'[Len(outbox) + 1] = p
      BY <3>2, <1>a
    <3>4. CASE n = accepted + 1
      BY <3>1, <3>3, <3>4 DEF InSeq
    <3>5. CASE n \in (cleared + 1)..accepted
      BY <1>2, <1>c, <2>0, <3>3, <3>5 DEF InSeq, Held
    <3> QED
      BY <1>a, <2>0, <2>2, <3>4, <3>5
  <2> QED
    BY <1>2, <2>1, <2>2 DEF PushControl
<1>3. CASE ClearOutgoing \/ StopClear
  <2>1. cleared' = accepted /\ accepted' = accepted
    BY <1>3 DEF ClearOutgoing, StopClear, DropQueued
  <2> QED
    BY <1>a, <2>1
<1>4. CASE NetDrain
  <2>1. UNCHANGED <<wire, accepted, expired, cleared>>
    BY <1>4 DEF NetDrain, controlHistory
  <2>2. CASE UNCHANGED <<outbox, pending>>
    BY <1>4, <1>c, <2>1, <2>2 DEF InSeq, Held
  <2>3. CASE /\ pending = None /\ outbox # <<>>
             /\ pending' = Head(outbox) /\ outbox' = Tail(outbox)
    <3>1. /\ Len(outbox) \in Nat
          /\ pending' = outbox[1]
          /\ pending' \in Packets
          /\ \A i \in DOMAIN outbox :
               i # 1 => i - 1 \in DOMAIN outbox' /\ outbox'[i - 1] = outbox[i]
      BY <1>a, <2>3
    <3>2. pending' # None
      BY <3>1, NoneAssumption
    <3>3. ASSUME InSeq(n, outbox) PROVE InSeq(n, outbox)' \/ Held(n)'
      <4>1. PICK i \in DOMAIN outbox : outbox[i].id = n
        BY <3>3 DEF InSeq
      <4>2. CASE i = 1
        BY <3>1, <3>2, <4>1, <4>2 DEF Held
      <4>3. CASE i # 1
        BY <3>1, <4>1, <4>3 DEF InSeq
      <4> QED
        BY <4>2, <4>3
    <3> QED
      BY <1>4, <1>c, <2>1, <2>3, <3>3 DEF InSeq, Held
  <2> QED
    BY <1>4, <2>2, <2>3 DEF NetDrain
<1>5. CASE NetExpire
  BY <1>5, <1>c DEF NetExpire, InSeq, Held
<1>6. CASE NetSendControl
  <2>1. /\ pending # None
        /\ wire' = Append(wire, pending)
        /\ UNCHANGED <<outbox, accepted, expired, cleared>>
    BY <1>6 DEF NetSendControl
  <2>2. pending \in Packets
    BY <2>1 DEF TypeOK, QueueType
  <2>3. /\ DOMAIN wire' = DOMAIN wire \cup {Len(wire) + 1}
        /\ \A i \in DOMAIN wire : wire'[i] = wire[i]
        /\ wire'[Len(wire) + 1] = pending
    BY <1>a, <2>1, <2>2
  <2> QED
    BY <1>6, <1>c, <2>1, <2>3 DEF InSeq, Held
<1>7. CASE UNCHANGED controlLane
  BY <1>7, <1>c DEF controlLane, InSeq, Held
<1> QED
  BY <1>1, <1>2, <1>3, <1>4, <1>5, <1>6, <1>7, ControlFrame

-----------------------------------------------------------------------------
(* The calls and the callbacks.                                            *)

\* Every step keeps the main thread's call, the flags and the queues in step.
LEMMA CallStep ==
    ASSUME TypeOK, CallInv, [Next]_vars
    PROVE  CallInv'
<1> USE DEF CallInv, flags, queues, netLocals, controlHistory, poseHistory
<1>1. CASE MainNext
  <2>1. CASE Start \/ StartFails
    BY <1>1, <2>1 DEF Start, StartFails, StartSession, Idle
  <2>2. CASE \E c \in Calls : c.op \in {"control", "pose", "object"} /\ Submit(c)
    BY <2>2 DEF Submit, Usable, Idle
  <2>3. CASE PushControl
    BY <2>3 DEF PushControl, Idle
  <2>4. CASE PushPose
    BY <2>4 DEF PushPose, Idle
  <2>5. CASE PushObject
    BY <2>5 DEF PushObject, Idle
  <2>6. CASE StopNotRunning
    BY <2>6 DEF StopNotRunning
  <2>7. CASE StopSignal
    BY <2>7 DEF StopSignal, Idle
  <2>8. CASE ClearOutgoing \/ StopClear
    BY <2>8 DEF ClearOutgoing, StopClear, DropQueued, Idle
  <2>9. CASE StopJoin
    BY <2>9 DEF StopJoin, Idle
  <2> QED
    BY <1>1, <2>1, <2>2, <2>3, <2>4, <2>5, <2>6, <2>7, <2>8, <2>9
       DEF MainNext, MainPush, MainStop
<1>2. CASE NetControl
  <2>1. CASE NetDrain
    <3>1. CASE pending' = pending /\ outbox' = outbox
      BY <2>1, <3>1 DEF NetDrain
    <3>2. CASE outbox # <<>> /\ pending = None /\ pending' = Head(outbox)
      <4>1. pending' \in Packets
        BY <3>2 DEF TypeOK, QueueType
      <4> QED
        BY <2>1, <3>2, <4>1, NoneAssumption DEF NetDrain
    <3> QED
      BY <2>1, <3>1, <3>2 DEF NetDrain
  <2>2. CASE NetExpire
    BY <2>2 DEF NetExpire
  <2>3. CASE NetSendControl
    BY <2>3 DEF NetSendControl
  <2>4. CASE NetHoldControl
    BY <2>4 DEF NetHoldControl
  <2>5. CASE NetSendTorn
    BY <2>5 DEF NetSendTorn
  <2> QED
    BY <1>2, <2>1, <2>2, <2>3, <2>4, <2>5 DEF NetControl
<1>3. CASE NetPoses
  <2>1. CASE NetClearPose
    BY <2>1 DEF NetClearPose, Unsent
  <2>2. CASE NetPose \/ NetSendPose \/ NetHoldPose
    BY <2>2 DEF NetPose, NetSendPose, NetHoldPose
  <2> QED
    BY <1>3, <2>1, <2>2 DEF NetPoses
<1>4. CASE NetObjectPoses
  <2>1. CASE NetEraseObject
    <3>1. PICK o \in objectIds :
            objects' = [objects EXCEPT ![o] = Unsent(@, copy)]
      BY <2>1 DEF NetEraseObject
    <3>2. objects = NoObjects => objects' = NoObjects
      BY <3>1 DEF NoObjects, Unsent, TypeOK, QueueType
    <3> QED
      BY <2>1, <3>2 DEF NetEraseObject
  <2>2. CASE NetObjects \/ NetCopyObject
    BY <2>2 DEF NetObjects, NetCopyObject
  <2>3. CASE NetSendObject \/ NetHoldObject
    BY <2>3 DEF NetSendObject, NetHoldObject
  <2> QED
    BY <1>4, <2>1, <2>2, <2>3 DEF NetObjectPoses
<1>5. CASE NetOpen \/ NetOpenFails \/ NetLoop
  BY <1>5 DEF NetOpen, NetOpenFails, NetLoop
<1>6. CASE Tick \/ UNCHANGED vars
  BY <1>6 DEF Tick, vars
<1> HIDE DEF CallInv
<1> QED
  BY <1>1, <1>2, <1>3, <1>4, <1>5, <1>6 DEF Next, NetNext

\* The callbacks of a session start with on_connected_ or have none.
LEMMA ReportStep ==
    ASSUME TypeOK, ReportInv, [Next]_vars
    PROVE  ReportInv'
<1> USE DEF ReportInv, ConnectedFirst, flags, queues, netLocals,
            controlHistory, poseHistory
<1>a. reports \in Seq({"connected", "error"})
  BY DEF TypeOK, ControlType
<1>b. ASSUME Fail PROVE ConnectedFirst'
  <2>1. /\ DOMAIN reports' = DOMAIN reports \cup {Len(reports) + 1}
        /\ \A i \in DOMAIN reports : reports'[i] = reports[i]
        /\ reports'[Len(reports) + 1] = "error"
    BY <1>a, <1>b DEF Fail
  <2> QED
    BY <2>1
<1>c. ASSUME SendRefused PROVE ConnectedFirst'
  BY <1>b, <1>c DEF SendRefused
<1>1. CASE Start
  BY <1>1 DEF Start
<1>2. CASE StartFails
  <2>1. reports' = <<"error">> /\ netPc' = "off"
    BY <1>2 DEF StartFails, StartSession
  <2> QED
    BY <2>1
<1>3. CASE MainNext /\ ~(Start \/ StartFails)
  <2>1. reports' = reports
    BY <1>3 DEF MainNext, Submit, MainPush, PushControl, PushPose, PushObject,
                ClearOutgoing, StopNotRunning, StopSignal, MainStop, StopClear,
                DropQueued, StopJoin
  <2>2. netPc' = netPc \/ netPc' = "off"
    BY <1>3 DEF MainNext, Submit, MainPush, PushControl, PushPose, PushObject,
                ClearOutgoing, StopNotRunning, StopSignal, MainStop, StopClear,
                DropQueued, StopJoin
  <2> QED
    BY <2>1, <2>2
<1>4. CASE NetOpen
  <2>1. reports' = <<"connected">> /\ netPc' = "loop"
    BY <1>4 DEF NetOpen
  <2> QED
    BY <2>1
<1>5. CASE NetOpenFails
  BY <1>5, <1>b DEF NetOpenFails
<1>6. CASE NetLoop
  BY <1>6 DEF NetLoop
<1>7. CASE NetHoldControl \/ NetHoldPose \/ NetHoldObject
  BY <1>7, <1>c DEF NetHoldControl, NetHoldPose, NetHoldObject
<1>8. CASE NetControl /\ ~NetHoldControl
  BY <1>8 DEF NetControl, NetDrain, NetExpire, NetSendControl, NetSendTorn
<1>9. CASE NetPoses /\ ~NetHoldPose
  BY <1>9 DEF NetPoses, NetPose, NetSendPose, NetClearPose
<1>10. CASE NetObjectPoses /\ ~NetHoldObject
  BY <1>10 DEF NetObjectPoses, NetObjects, NetCopyObject, NetSendObject,
               NetEraseObject
<1>11. CASE Tick \/ UNCHANGED vars
  BY <1>11 DEF Tick, vars
<1> HIDE DEF ReportInv
<1> QED
  BY <1>1, <1>2, <1>3, <1>4, <1>5, <1>6, <1>7, <1>8, <1>9, <1>10, <1>11
     DEF Next, NetNext

-----------------------------------------------------------------------------
(* The latest-wins slots.                                                  *)

SlotSafety == SlotInv /\ LatestNotLost

\* Every step keeps the slots and the newest poses in step.
LEMMA SlotStep ==
    ASSUME TypeOK, CallInv, SlotSafety, [Next]_vars
    PROVE  SlotSafety'
<1> USE DEF SlotSafety, SlotInv, LatestNotLost, IsNext, flags, queues,
            netLocals, controlHistory, poseHistory
<1>a. /\ objects \in [ObjectIds -> Payloads \cup {None}]
      /\ objectIn \in [ObjectIds -> Payloads \cup {None}]
      /\ objectOut \in [ObjectIds -> Payloads \cup {None}]
      /\ objectIds \subseteq ObjectIds
      /\ call \in Calls
  BY DEF TypeOK, ControlType, QueueType, HistoryType
<1>b. \A o, p \in objectIds : IsNext(o) /\ IsNext(p) => o = p
  BY <1>a, ObjectIdsAssumption
<1>1. CASE Start \/ StartFails
  <2>1. /\ latest' = None /\ objects' = NoObjects
        /\ netPc' \in {"open", "off"}
        /\ poseIn' = None /\ objectIn' = NoObjects
    BY <1>1 DEF Start, StartFails, StartSession, CallInv
  <2> QED
    BY <2>1 DEF NoObjects
<1>2. CASE \E c \in Calls : c.op \in {"control", "pose", "object"} /\ Submit(c)
  BY <1>2 DEF Submit, Idle
<1>3. CASE PushControl
  BY <1>3 DEF PushControl, Idle
<1>4. CASE PushPose
  <2>1. call.payload \in Payloads
    BY <1>4, <1>a DEF PushPose, Calls
  <2> QED
    BY <1>4, <2>1, PayloadsAssumption DEF PushPose, Idle
<1>5. CASE PushObject
  <2>1. call.payload \in Payloads /\ call.id \in ObjectIds
    BY <1>5, <1>a DEF PushObject, Calls
  <2>2. \A o \in ObjectIds :
          /\ o = call.id => objects'[o] = call.payload
                            /\ objectIn'[o] = call.payload
          /\ o # call.id => objects'[o] = objects[o]
                            /\ objectIn'[o] = objectIn[o]
    BY <1>5, <1>a DEF PushObject
  <2> QED
    BY <1>5, <2>1, <2>2, PayloadsAssumption DEF PushObject, Idle
<1>6. CASE StopNotRunning
  BY <1>6 DEF StopNotRunning
<1>7. CASE StopSignal
  BY <1>7 DEF StopSignal, Idle
<1>8. CASE ClearOutgoing \/ StopClear
  <2>1. /\ latest' = None /\ objects' = NoObjects
        /\ poseIn' = None /\ objectIn' = NoObjects
        /\ UNCHANGED <<netPc, copy, objectIds, poseOut, objectOut>>
    BY <1>8 DEF ClearOutgoing, StopClear, DropQueued
  <2> QED
    BY <2>1 DEF NoObjects
<1>9. CASE StopJoin
  BY <1>9 DEF StopJoin
<1>10. CASE NetOpen \/ NetOpenFails \/ NetLoop
  BY <1>10 DEF NetOpen, NetOpenFails, NetLoop
<1>11. CASE NetControl
  BY <1>11 DEF NetControl, NetDrain, NetExpire, NetSendControl, NetHoldControl,
               NetSendTorn
<1>12. CASE NetPose
  BY <1>12 DEF NetPose
<1>13. CASE NetSendPose
  BY <1>13 DEF NetSendPose
<1>14. CASE NetHoldPose
  BY <1>14 DEF NetHoldPose
<1>15. CASE NetClearPose
  BY <1>15 DEF NetClearPose, Unsent
<1>16. CASE NetObjects
  BY <1>16 DEF NetObjects
<1>17. CASE NetCopyObject
  <2>1. UNCHANGED <<latest, objects, poseIn, poseOut, objectIn, objectOut, call>>
    BY <1>17 DEF NetCopyObject
  <2>2. CASE netPc' # "objectSend"
    BY <1>17, <2>1, <2>2 DEF NetCopyObject
  <2>3. CASE netPc' = "objectSend"
    <3>1. PICK o \in objectIds : IsNext(o) /\ objects[o] # None
      BY <1>17, <2>3 DEF NetCopyObject
    <3>2. UNCHANGED objectIds
      BY <1>17, <2>3 DEF NetCopyObject
    <3>3. \A p \in ObjectIds : IsNext(p)' => p = o
      BY <1>b, <3>1, <3>2
    <3> QED
      BY <1>17, <2>1, <2>3, <3>1, <3>3 DEF NetCopyObject
  <2> QED
    BY <2>2, <2>3
<1>18. CASE NetSendObject
  <2>1. PICK o \in objectIds :
          IsNext(o) /\ objectOut' = [objectOut EXCEPT ![o] = copy]
    BY <1>18 DEF NetSendObject
  <2>2. /\ objectOut'[o] = copy
        /\ \A p \in ObjectIds : p # o => objectOut'[p] = objectOut[p]
    BY <2>1, <1>a
  <2>3. /\ netPc = "objectSend" /\ netPc' = "objectErase"
        /\ UNCHANGED <<latest, objects, poseIn, poseOut, objectIn, objectIds,
                       copy, call>>
    BY <1>18 DEF NetSendObject
  <2>4. \A p \in ObjectIds : IsNext(p)' => p = o
    BY <1>b, <2>1, <2>3
  <2>5. objects[o] = None => objectIn[o] = None
    BY <1>a, <2>1, <2>3
  <2>6. ASSUME NEW p \in ObjectIds, objects[p] = None
        PROVE  objectIn[p] \in {objectOut'[p], None}
    BY <2>2, <2>5, <2>6
  <2>7. \A p \in ObjectIds : IsNext(p)' => objectOut'[p] = copy
    BY <2>2, <2>4
  <2>8. SlotInv'
    BY <2>3, <2>7
  <2>9. LatestNotLost'
    BY <2>3, <2>6
  <2> QED
    BY <2>8, <2>9
<1>19. CASE NetHoldObject
  BY <1>19 DEF NetHoldObject
<1>20. CASE NetEraseObject
  <2>1. PICK o \in objectIds :
          /\ IsNext(o)
          /\ objects' = [objects EXCEPT ![o] = Unsent(@, copy)]
    BY <1>20 DEF NetEraseObject
  <2>2. /\ objects'[o] = IF objects[o] = copy THEN None ELSE objects[o]
        /\ \A p \in ObjectIds : p # o => objects'[p] = objects[p]
    BY <2>1, <1>a DEF Unsent
  <2>3. /\ netPc = "objectErase" /\ netPc' = "objectCopy"
        /\ UNCHANGED <<latest, poseIn, poseOut, objectIn, objectOut, call>>
    BY <1>20 DEF NetEraseObject
  <2>4. objectOut[o] = copy
    BY <1>a, <2>1, <2>3
  <2> QED
    BY <1>a, <2>2, <2>3, <2>4
<1>21. CASE Tick \/ UNCHANGED vars
  BY <1>21 DEF Tick, vars
<1> HIDE DEF SlotSafety
<1> QED
  BY <1>1, <1>2, <1>3, <1>4, <1>5, <1>6, <1>7, <1>8, <1>9, <1>10, <1>11,
     <1>12, <1>13, <1>14, <1>15, <1>16, <1>17, <1>18, <1>19, <1>20, <1>21
     DEF Next, MainNext, MainPush, MainStop, NetNext, NetPoses, NetObjectPoses

-----------------------------------------------------------------------------
(* The theorems.                                                           *)

\* The strengthened invariant holds in every reachable state.
THEOREM SafetyInvariant == Spec => []SafetyInv
<1>1. Init => SafetyInv
  <2> SUFFICES ASSUME Init PROVE SafetyInv
    OBVIOUS
  <2>1. TypeOK
    BY InitType
  <2>2. CallInv
    BY DEF Init, CallInv, Idle
  <2>3. OrderInv
    BY DEF Init, OrderInv, Increasing
  <2>4. NoSilentLoss
    BY DEF Init, NoSilentLoss
  <2>5. SlotInv /\ LatestNotLost
    BY DEF Init, SlotInv, LatestNotLost, NoObjects, Idle
  <2>6. ReportInv
    BY DEF Init, ReportInv, ConnectedFirst
  <2> QED
    BY <2>1, <2>2, <2>3, <2>4, <2>5, <2>6 DEF SafetyInv
<1>2. SafetyInv /\ [Next]_vars => SafetyInv'
  <2> SUFFICES ASSUME SafetyInv, [Next]_vars PROVE SafetyInv'
    OBVIOUS
  <2>a. /\ TypeOK /\ CallInv /\ OrderInv /\ NoSilentLoss
        /\ SlotSafety /\ ReportInv
    BY DEF SafetyInv, SlotSafety
  <2>1. TypeOK'
    BY <2>a, TypeOKStep
  <2>2. CallInv'
    BY <2>a, CallStep
  <2>3. OrderInv'
    BY <2>a, OrderStep
  <2>4. NoSilentLoss'
    BY <2>a, AccountStep
  <2>5. SlotSafety'
    BY <2>a, SlotStep
  <2>6. ReportInv'
    BY <2>a, ReportStep
  <2> QED
    BY <2>1, <2>2, <2>3, <2>4, <2>5, <2>6 DEF SafetyInv, SlotSafety
<1> QED
  BY <1>1, <1>2, PTL DEF Spec

\* Control messages leave in the order of acceptance, none twice, for every
\* outbox limit, batch size and TTL (drain_control_sends).
THEOREM ControlOrdered == Spec => []ControlFifo
<1>1. SafetyInv => ControlFifo
  BY DEF SafetyInv, OrderInv, ControlFifo
<1> QED
  BY <1>1, SafetyInvariant, PTL

\* No packet of one session reaches another (stop, clear_outgoing, start).
THEOREM SessionsIsolated == Spec => []SessionIsolation
<1>1. SafetyInv => SessionIsolation
  BY DEF SafetyInv, OrderInv, CallInv, SessionIsolation
<1> QED
  BY <1>1, SafetyInvariant, PTL

\* Backpressure, however long, loses no accepted control packet: only the TTL and
\* clear_outgoing do.
THEOREM AllAccountedFor == Spec => []NoSilentLoss
<1>1. SafetyInv => NoSilentLoss
  BY DEF SafetyInv
<1> QED
  BY <1>1, SafetyInvariant, PTL

\* The compare-and-clear after an unlocked send never loses a newer pose, for
\* any set of objects and payloads, equal payloads included.
THEOREM NewestPoseKept == Spec => []LatestNotLost
<1>1. SafetyInv => LatestNotLost
  BY DEF SafetyInv
<1> QED
  BY <1>1, SafetyInvariant, PTL

\* on_connected_ comes first or not at all.
THEOREM ConnectedReportedFirst == Spec => []ConnectedFirst
<1>1. SafetyInv => ConnectedFirst
  BY DEF SafetyInv, ReportInv
<1> QED
  BY <1>1, SafetyInvariant, PTL

-----------------------------------------------------------------------------
(* The refinements.                                                        *)

\* A drain works with a time that has been, and what is sent from a slot is a
\* payload.
CopyInv ==
    /\ drainNow <= clock
    /\ netPc \in {"poseSend", "objectSend"} => copy # None

\* Both hold in every state.
LEMMA CopyInvariant == Spec => []CopyInv
<1> USE DEF CopyInv, flags, queues, netLocals, controlHistory, poseHistory
<1>1. Init => CopyInv
  BY DEF Init
<1>2. TypeOK /\ CopyInv /\ [Next]_vars => CopyInv'
  <2> SUFFICES ASSUME TypeOK, CopyInv, [Next]_vars PROVE CopyInv'
    OBVIOUS
  <2>a. drainNow \in Nat /\ clock \in Nat
    BY DEF TypeOK, QueueType
  <2>1. CASE MainNext
    BY <2>1 DEF MainNext, Start, StartFails, StartSession, Submit, MainPush,
                PushControl, PushPose, PushObject, ClearOutgoing,
                StopNotRunning, StopSignal, MainStop, StopClear, DropQueued,
                StopJoin
  <2>2. CASE NetControl
    BY <2>2 DEF NetControl, NetDrain, NetExpire, NetSendControl, NetHoldControl,
                NetSendTorn
  <2>3. CASE NetPoses \/ NetObjectPoses
    BY <2>3 DEF NetPoses, NetPose, NetSendPose, NetHoldPose, NetClearPose,
                NetObjectPoses, NetObjects, NetCopyObject, NetSendObject,
                NetHoldObject, NetEraseObject
  <2>4. CASE NetOpen \/ NetOpenFails \/ NetLoop
    BY <2>a, <2>4 DEF NetOpen, NetOpenFails, NetLoop
  <2>5. CASE Tick \/ UNCHANGED vars
    BY <2>a, <2>5 DEF Tick, vars
  <2> QED
    BY <2>1, <2>2, <2>3, <2>4, <2>5 DEF Next, NetNext
<1> QED
  BY <1>1, <1>2, TypeCorrect, PTL DEF Spec

\* A session ends, for its packets, only when stop() clears the queues.
LEMMA EndedFrame ==
    ASSUME [Next]_vars, ~Start, ~StopClear
    PROVE  Ended' <=> Ended
<1> USE DEF Ended, flags, queues, netLocals, controlHistory, poseHistory
<1>1. CASE MainNext
  BY <1>1 DEF MainNext, StartFails, Submit, MainPush, PushControl, PushPose,
              PushObject, ClearOutgoing, DropQueued, StopNotRunning, StopSignal,
              MainStop, StopJoin, StartSession, Idle
<1>2. CASE NetControl
  BY <1>2 DEF NetControl, NetDrain, NetExpire, NetSendControl, NetHoldControl,
              NetSendTorn
<1>3. CASE NetPoses \/ NetObjectPoses
  BY <1>3 DEF NetPoses, NetPose, NetSendPose, NetHoldPose, NetClearPose,
              NetObjectPoses, NetObjects, NetCopyObject, NetSendObject,
              NetHoldObject, NetEraseObject
<1>4. CASE NetOpen \/ NetOpenFails \/ NetLoop
  BY <1>4 DEF NetOpen, NetOpenFails, NetLoop
<1>5. CASE Tick \/ UNCHANGED vars
  BY <1>5 DEF Tick, vars
<1> QED
  BY <1>1, <1>2, <1>3, <1>4, <1>5 DEF Next, NetNext

\* What waits, after the steps that change the outbox or the held packet.
LEMMA WaitingSteps ==
    ASSUME TypeOK
    PROVE  /\ outbox = <<>> /\ pending = None => WaitingPackets = {}
           /\ pending # None => pending \in WaitingPackets
           /\ \A p \in WaitingPackets :
                p \in Packets /\ (p = pending \/ \E i \in DOMAIN outbox : p = outbox[i])
<1>a. outbox \in Seq(Packets) /\ pending \in Packets \cup {None}
  BY DEF TypeOK, QueueType
<1> QED
  BY <1>a DEF WaitingPackets

\* Every step of the transport is a step of the control lane or none.
LEMMA LaneStep ==
    ASSUME SafetyInv, CopyInv, [Next]_vars
    PROVE  [Lane!Next]_(Lane!vars)
<1> USE DEF flags, queues, netLocals, controlHistory, poseHistory
<1>a. /\ outbox \in Seq(Packets) /\ pending \in Packets \cup {None}
      /\ wire \in Seq(Packets) /\ session \in Nat /\ accepted \in Nat
      /\ clock \in Nat /\ drainNow \in Nat /\ TypeOK
  BY DEF SafetyInv, TypeOK, QueueType, HistoryType
<1>1. CASE Start \/ StartFails
  <2>1. StartSession /\ UNCHANGED <<queues, clock>>
    BY <1>1 DEF Start, StartFails
  <2>2. Ended /\ outbox = <<>> /\ pending = None
    BY <2>1 DEF StartSession, SafetyInv, CallInv, Ended
  <2>3. WaitingPackets = {} /\ UNCHANGED WaitingPackets
    BY <1>a, <2>1, <2>2, WaitingSteps DEF WaitingPackets
  <2>4. Lane!Begin
    BY <2>1, <2>2, <2>3 DEF Lane!Begin, StartSession, Ended
  <2> QED
    BY <2>4 DEF Lane!Next
<1>2. CASE PushControl
  <2>1. CASE UNCHANGED <<outbox, accepted>>
    <3>1. Ended' <=> Ended
      BY <1>2, EndedFrame DEF PushControl, Start, StartSession, StopClear, Idle
    <3> QED
      BY <1>2, <2>1, <3>1 DEF PushControl, Lane!vars, WaitingPackets
  <2>2. CASE /\ accepted' = accepted + 1
             /\ outbox' = Append(outbox, [id |-> accepted + 1,
                                          session |-> session, at |-> clock])
    <3> DEFINE p == [id |-> accepted + 1, session |-> session, at |-> clock]
    <3>1. p \in Packets
      BY <1>a DEF Packets
    <3>2. outbox' = Append(outbox, p) /\ pending' = pending
      BY <1>2, <2>2 DEF PushControl
    <3>3. WaitingPackets' = WaitingPackets \cup {p}
      <4> HIDE DEF p
      <4>1. {outbox'[i] : i \in DOMAIN outbox'} = {outbox[i] : i \in DOMAIN outbox} \cup {p}
        <5>1. /\ DOMAIN outbox' = DOMAIN outbox \cup {Len(outbox) + 1}
              /\ \A i \in DOMAIN outbox : outbox'[i] = outbox[i]
              /\ outbox'[Len(outbox) + 1] = p
          BY <1>a, <3>1, <3>2
        <5> QED
          BY <5>1
      <4> QED
        BY <3>2, <4>1 DEF WaitingPackets
    <3>4. ~Ended /\ ~Ended'
      BY <1>2 DEF PushControl, SafetyInv, CallInv, Ended, Idle
    <3>5. Lane!Accept
      <4>1. UNCHANGED <<session, cleared, wire, clock>>
        BY <1>2 DEF PushControl
      <4>2. UNCHANGED Ended
        BY <3>4 DEF Ended
      <4> HIDE DEF p
      <4>3. accepted' = accepted + 1
        BY <2>2
      <4> QED
        BY <3>3, <3>4, <4>1, <4>2, <4>3 DEF p, Lane!Accept
    <3> QED
      BY <3>5 DEF Lane!Next
  <2> QED
    BY <1>2, <2>1, <2>2 DEF PushControl
<1>3. CASE ClearOutgoing \/ StopClear
  <2>1. DropQueued /\ (UNCHANGED call \/ call' = [op |-> "join"])
    BY <1>3 DEF ClearOutgoing, StopClear
  <2>2. (Ended => Ended') /\ Ended' \in BOOLEAN
    <3>1. UNCHANGED call \/ ~Ended
      BY <1>3 DEF ClearOutgoing, StopClear, SafetyInv, CallInv, Ended
    <3> QED
      BY <2>1, <3>1 DEF DropQueued, Ended
  <2>3. WaitingPackets' = {}
    BY <2>1 DEF DropQueued, WaitingPackets
  <2>4. Lane!Drop
    BY <2>1, <2>2, <2>3 DEF DropQueued, Lane!Drop
  <2> QED
    BY <2>4 DEF Lane!Next
<1>4. CASE NetDrain
  <2>1. Ended' <=> Ended
    BY <1>4 DEF NetDrain, Ended
  <2>2. WaitingPackets' = WaitingPackets
    <3>1. CASE UNCHANGED <<pending, outbox>>
      BY <3>1 DEF WaitingPackets
    <3>2. CASE pending = None /\ outbox # <<>> /\ pending' = Head(outbox) /\ outbox' = Tail(outbox)
      <4>1. {outbox[i] : i \in DOMAIN outbox}
              = {Head(outbox)} \cup {outbox'[i] : i \in DOMAIN outbox'}
        <5>1. /\ \A i \in DOMAIN outbox' : i + 1 \in DOMAIN outbox /\ outbox'[i] = outbox[i + 1]
              /\ \A i \in DOMAIN outbox : i = 1 \/ (i - 1 \in DOMAIN outbox' /\ outbox'[i - 1] = outbox[i])
              /\ 1 \in DOMAIN outbox /\ Head(outbox) = outbox[1]
          BY <1>a, <3>2
        <5> QED
          BY <5>1
      <4>2. Head(outbox) \in Packets
        BY <1>a, <3>2
      <4> QED
        BY <3>2, <4>1, <4>2, NoneAssumption DEF WaitingPackets
    <3> QED
      BY <1>4, <3>1, <3>2 DEF NetDrain
  <2> QED
    BY <1>4, <2>1, <2>2 DEF NetDrain, Lane!vars
<1>5. CASE NetExpire \/ NetSendControl
  <2>1. /\ pending # None /\ pending' = None
        /\ UNCHANGED <<outbox, call, session, accepted, cleared, clock>>
        /\ netPc = "send" /\ netPc' = "drain"
    BY <1>5 DEF NetExpire, NetSendControl
  <2>2. Ended' <=> Ended
    BY <2>1 DEF Ended
  <2>3. pending \in WaitingPackets /\ \A q \in WaitingPackets : pending.id <= q.id
    <3>1. pending \in Packets /\ \A j \in DOMAIN outbox : outbox[j] \in Packets
      BY <1>a, <2>1
    <3>2. pending.id \in Nat /\ \A j \in DOMAIN outbox : outbox[j].id \in Nat
      BY <3>1 DEF Packets
    <3> QED
      BY <1>a, <2>1, <3>2, WaitingSteps DEF SafetyInv, OrderInv
  <2>4. WaitingPackets' = WaitingPackets \ {pending}
    <3>1. \A j \in DOMAIN outbox : outbox[j] # pending
      <4>1. pending.id \in Nat
        BY <1>a, <2>1 DEF Packets
      <4> QED
        BY <2>1, <4>1 DEF SafetyInv, OrderInv
    <3> QED
      BY <2>1, <3>1 DEF WaitingPackets
  <2>5. CASE NetExpire
    <3>1. clock - pending.at > TTL
      <4>1. drainNow - pending.at > TTL
        BY <2>5 DEF NetExpire, Overdue
      <4>2. pending.at \in Nat
        BY <1>a, <2>1 DEF Packets
      <4> QED
        BY <1>a, <4>1, <4>2, LimitsAssumption DEF CopyInv
    <3>2. Lane!Expire(pending)
      BY <2>1, <2>2, <2>3, <2>4, <2>5, <3>1 DEF NetExpire, Lane!Expire, Lane!Oldest
    <3> QED
      BY <2>3, <3>2 DEF Lane!Next
  <2>6. CASE NetSendControl
    <3>1. Lane!Deliver(pending)
      BY <2>1, <2>2, <2>3, <2>4, <2>6 DEF NetSendControl, Lane!Deliver, Lane!Oldest
    <3> QED
      BY <2>3, <3>1 DEF Lane!Next
  <2> QED
    BY <1>5, <2>5, <2>6
<1>6. CASE Tick
  <2>1. Lane!Tick
    BY <1>6 DEF Tick, Lane!Tick, Ended, WaitingPackets
  <2> QED
    BY <2>1 DEF Lane!Next
<1>7. CASE /\ UNCHANGED controlLane
           /\ ~Start /\ ~StopClear /\ ~Tick
  <2>1. Ended' <=> Ended
    BY <1>7, EndedFrame
  <2>2. clock' = clock
    BY <1>7 DEF Next, MainNext, StartFails, Submit, MainPush,
                PushControl, PushPose, PushObject, ClearOutgoing, DropQueued,
                StopNotRunning, StopSignal,
                MainStop, StopJoin, NetNext, NetControl, NetDrain, NetExpire,
                NetSendControl, NetHoldControl, NetSendTorn, NetPoses, NetPose,
                NetSendPose, NetHoldPose, NetClearPose, NetObjectPoses,
                NetObjects, NetCopyObject, NetSendObject, NetHoldObject,
                NetEraseObject, NetOpen, NetOpenFails, NetLoop, vars
  <2> QED
    BY <1>7, <2>1, <2>2 DEF controlLane, Lane!vars, WaitingPackets
<1> QED
  BY <1>1, <1>2, <1>3, <1>4, <1>5, <1>6, <1>7, ControlFrame

\* The queue of module ControlLane is what the control lane of the two threads
\* implements, whatever the outbox limit, the batch size and the TTL.
THEOREM LaneImplemented == Spec => ImplementsControlLane
<1>1. Init => Lane!Init
  BY DEF Init, Lane!Init, Ended, WaitingPackets
<1>2. SafetyInv /\ CopyInv /\ [Next]_vars => [Lane!Next]_(Lane!vars)
  BY LaneStep
<1> QED
  BY <1>1, <1>2, SafetyInvariant, CopyInvariant, PTL
     DEF Spec, ImplementsControlLane, Lane!Spec

\* The steps that touch the avatar's slot; for every other the slot stutters.
LEMMA AvatarStep ==
    ASSUME SafetyInv, CopyInv, [Next]_vars
    PROVE  [AvatarSlot!Next]_(AvatarSlot!vars)
<1> USE DEF flags, queues, netLocals, controlHistory, poseHistory
<1>a. /\ latest \in Payloads \cup {None} /\ copy \in Payloads \cup {None}
      /\ poseIn \in Payloads \cup {None} /\ call \in Calls
  BY DEF SafetyInv, TypeOK, QueueType, HistoryType, ControlType
<1>1. CASE Start \/ StartFails
  <2>1. /\ Ended /\ latest = None /\ netPc = "off" /\ latest' = latest
        /\ poseIn' = None /\ poseOut' = None /\ netPc' # "poseSend"
    BY <1>1 DEF Start, StartFails, StartSession, SafetyInv, CallInv, Ended
  <2>2. AvatarSlot!Begin
    BY <2>1 DEF AvatarSlot!Begin, Ended
  <2> QED
    BY <2>2 DEF AvatarSlot!Next
<1>2. CASE PushPose
  <2>1. call.payload \in Payloads
    BY <1>2, <1>a DEF PushPose, Calls
  <2>2. /\ ~Ended /\ ~Ended' /\ UNCHANGED <<netPc, copy, poseOut>>
        /\ latest' = call.payload /\ poseIn' = call.payload
    BY <1>2 DEF PushPose, SafetyInv, CallInv, Ended, Idle
  <2>3. latest' # None /\ poseIn' # None
    BY <2>1, <2>2, PayloadsAssumption
  <2>4. AvatarSlot!Submit
    BY <2>2, <2>3 DEF AvatarSlot!Submit, Ended
  <2> QED
    BY <2>4 DEF AvatarSlot!Next
<1>3. CASE ClearOutgoing \/ StopClear
  <2>1. /\ latest' = None /\ poseIn' = None
        /\ UNCHANGED <<netPc, copy, poseOut>>
        /\ Ended => call' = call
    BY <1>3 DEF ClearOutgoing, StopClear, DropQueued, SafetyInv, CallInv, Ended
  <2>2. AvatarSlot!Drop
    BY <2>1 DEF AvatarSlot!Drop, Ended
  <2> QED
    BY <2>2 DEF AvatarSlot!Next
<1>4. CASE NetPose
  <2>1. (Ended' <=> Ended) /\ UNCHANGED <<latest, poseIn, poseOut>>
        /\ copy' = latest /\ netPc = "pose"
    BY <1>4 DEF NetPose, Ended
  <2>2. CASE latest = None
    BY <1>4, <2>1, <2>2 DEF NetPose, AvatarSlot!vars, Ended
  <2>3. CASE latest # None
    <3>1. netPc' = "poseSend" /\ latest = poseIn
      BY <1>4, <2>3 DEF NetPose, SafetyInv, SlotInv
    <3>2. AvatarSlot!Take
      BY <2>1, <2>3, <3>1 DEF AvatarSlot!Take, Ended
    <3> QED
      BY <3>2 DEF AvatarSlot!Next
  <2> QED
    BY <2>2, <2>3
<1>5. CASE NetSendPose
  <2>1. (Ended' <=> Ended) /\ UNCHANGED <<latest, poseIn>> /\ copy # None
        /\ poseOut' = copy /\ netPc = "poseSend" /\ netPc' = "poseClear"
    BY <1>5 DEF NetSendPose, Ended, CopyInv
  <2>2. AvatarSlot!Show
    BY <2>1 DEF AvatarSlot!Show, Ended
  <2> QED
    BY <2>2 DEF AvatarSlot!Next
<1>6. CASE NetHoldPose
  <2>1. (Ended' <=> Ended) /\ UNCHANGED <<latest, poseIn, poseOut>> /\ copy # None
        /\ netPc = "poseSend" /\ netPc' = "objects"
    BY <1>6 DEF NetHoldPose, Ended, CopyInv
  <2>2. AvatarSlot!GiveUp
    BY <2>1 DEF AvatarSlot!GiveUp, Ended
  <2> QED
    BY <2>2 DEF AvatarSlot!Next
<1>7. CASE NetClearPose
  <2>1. (Ended' <=> Ended) /\ UNCHANGED <<poseIn, poseOut>>
        /\ netPc = "poseClear" /\ netPc' = "objects" /\ latest' = Unsent(latest, copy)
    BY <1>7 DEF NetClearPose, Ended
  <2>2. CASE latest # None /\ latest = copy
    <3>1. latest' = None /\ poseOut = copy /\ latest = poseIn
      BY <2>1, <2>2 DEF Unsent, SafetyInv, SlotInv
    <3>2. AvatarSlot!Settle
      BY <2>1, <2>2, <3>1 DEF AvatarSlot!Settle, Ended
    <3> QED
      BY <3>2 DEF AvatarSlot!Next
  <2>3. CASE ~(latest # None /\ latest = copy)
    <3>1. latest' = latest
      BY <2>1, <2>3 DEF Unsent
    <3> QED
      BY <2>1, <3>1 DEF AvatarSlot!vars, Ended
  <2> QED
    BY <2>2, <2>3
<1>8. CASE /\ ~Start /\ ~StartFails /\ ~PushPose /\ ~ClearOutgoing /\ ~StopClear
           /\ ~NetPoses
  <2>1. Ended' <=> Ended
    BY <1>8, EndedFrame
  <2>2. \/ UNCHANGED <<latest, poseIn, poseOut>>
           /\ netPc # "poseSend" /\ netPc' # "poseSend"
        \/ UNCHANGED <<latest, poseIn, poseOut, netPc, copy>>
    <3>1. CASE MainNext
      BY <1>8, <3>1 DEF MainNext, Submit, MainPush, PushControl, PushObject,
                 StopNotRunning, StopSignal, MainStop, StopJoin
    <3>2. CASE NetControl
      BY <3>2 DEF NetControl, NetDrain, NetExpire, NetSendControl,
                  NetHoldControl, NetSendTorn
    <3>3. CASE NetObjectPoses
      BY <3>3 DEF NetObjectPoses, NetObjects, NetCopyObject, NetSendObject,
                  NetHoldObject, NetEraseObject
    <3>4. CASE NetOpen \/ NetOpenFails \/ NetLoop \/ Tick \/ UNCHANGED vars
      BY <3>4 DEF NetOpen, NetOpenFails, NetLoop, Tick, vars
    <3> QED
      BY <1>8, <3>1, <3>2, <3>3, <3>4 DEF Next, NetNext
  <2> QED
    BY <2>1, <2>2 DEF AvatarSlot!vars, Ended
<1> QED
  BY <1>1, <1>2, <1>3, <1>4, <1>5, <1>6, <1>7, <1>8 DEF NetPoses

\* The same for the slot of an object.
LEMMA ObjectStep ==
    ASSUME SafetyInv, CopyInv, [Next]_vars, NEW o \in ObjectIds
    PROVE  [ObjectSlot(o)!Next]_(ObjectSlot(o)!vars)
<1> USE DEF flags, queues, netLocals, controlHistory, poseHistory
<1>a. /\ objects \in [ObjectIds -> Payloads \cup {None}]
      /\ copy \in Payloads \cup {None}
      /\ objectIn \in [ObjectIds -> Payloads \cup {None}]
      /\ objectOut \in [ObjectIds -> Payloads \cup {None}]
      /\ call \in Calls /\ objectIds \subseteq ObjectIds
  BY DEF SafetyInv, TypeOK, QueueType, HistoryType, ControlType
<1>b. \A p, q \in objectIds : IsNext(p) /\ IsNext(q) => p = q
  BY <1>a, ObjectIdsAssumption DEF IsNext
<1>1. CASE Start \/ StartFails
  <2>1. /\ Ended /\ objects = NoObjects /\ netPc = "off" /\ UNCHANGED <<objects, objectIds>>
        /\ objectIn' = NoObjects /\ objectOut' = NoObjects /\ netPc' # "objectSend"
    BY <1>1 DEF Start, StartFails, StartSession, SafetyInv, CallInv, Ended
  <2>2. /\ objects[o] = None /\ objects'[o] = None
        /\ objectIn'[o] = None /\ objectOut'[o] = None
    BY <2>1 DEF NoObjects
  <2>3. ObjectSlot(o)!Begin
    BY <2>1, <2>2 DEF ObjectSlot!Begin, Ended
  <2> QED
    BY <2>3 DEF ObjectSlot!Next
<1>2. CASE PushObject
  <2>1. call.payload \in Payloads /\ call.id \in ObjectIds
    BY <1>2, <1>a DEF PushObject, Calls
  <2>2. /\ ~Ended /\ ~Ended' /\ UNCHANGED <<netPc, copy, objectIds, objectOut>>
        /\ objects' = [objects EXCEPT ![call.id] = call.payload]
        /\ objectIn' = [objectIn EXCEPT ![call.id] = call.payload]
    BY <1>2 DEF PushObject, SafetyInv, CallInv, Ended, Idle
  <2>3. CASE call.id = o
    <3>1. objects'[o] # None /\ objectIn'[o] # None
      BY <1>a, <2>1, <2>2, <2>3, PayloadsAssumption
    <3>2. ObjectSlot(o)!Submit
      BY <2>2, <3>1 DEF ObjectSlot!Submit, Ended, IsNext
    <3> QED
      BY <3>2 DEF ObjectSlot!Next
  <2>4. CASE call.id # o
    <3>1. objects'[o] = objects[o] /\ objectIn'[o] = objectIn[o]
      BY <1>a, <2>1, <2>2, <2>4
    <3> QED
      BY <2>2, <3>1 DEF ObjectSlot!vars, Ended, IsNext
  <2> QED
    BY <2>3, <2>4
<1>3. CASE ClearOutgoing \/ StopClear
  <2>1. /\ objects' = NoObjects /\ objectIn' = NoObjects
        /\ UNCHANGED <<netPc, copy, objectIds, objectOut>>
        /\ Ended => call' = call
    BY <1>3 DEF ClearOutgoing, StopClear, DropQueued, SafetyInv, CallInv, Ended
  <2>2. objects'[o] = None /\ objectIn'[o] = None
    BY <2>1 DEF NoObjects
  <2>3. ObjectSlot(o)!Drop
    BY <2>1, <2>2 DEF ObjectSlot!Drop, Ended, IsNext
  <2> QED
    BY <2>3 DEF ObjectSlot!Next
<1>4. CASE NetCopyObject
  <2>1. /\ Ended' <=> Ended
        /\ UNCHANGED <<objects, objectIn, objectOut>> /\ netPc = "objectCopy"
    BY <1>4 DEF NetCopyObject, Ended
  <2>2. CASE netPc' # "objectSend"
    BY <2>1, <2>2 DEF ObjectSlot!vars, Ended
  <2>3. CASE netPc' = "objectSend"
    <3>1. PICK p \in objectIds : /\ IsNext(p) /\ copy' = objects[p]
                                 /\ objects[p] # None /\ objectIds' = objectIds
      BY <1>4, <2>1, <2>3 DEF NetCopyObject
    <3>2. CASE p = o
      <4>1. IsNext(o)' /\ copy' = objects[o] /\ objects[o] = objectIn[o]
        BY <3>1, <3>2 DEF IsNext, SafetyInv, SlotInv
      <4>2. ObjectSlot(o)!Take
        BY <2>1, <2>3, <3>1, <3>2, <4>1 DEF ObjectSlot!Take, Ended
      <4> QED
        BY <4>2 DEF ObjectSlot!Next
    <3>3. CASE p # o
      <4>1. ~IsNext(o) /\ ~IsNext(o)'
        BY <1>b, <3>1, <3>3 DEF IsNext
      <4> QED
        BY <2>1, <4>1 DEF ObjectSlot!vars, Ended
    <3> QED
      BY <3>2, <3>3
  <2> QED
    BY <2>2, <2>3
<1>5. CASE NetSendObject
  <2>1. /\ Ended' <=> Ended
        /\ UNCHANGED <<objects, objectIn, copy>> /\ copy # None
        /\ netPc = "objectSend" /\ netPc' = "objectErase"
    BY <1>5 DEF NetSendObject, Ended, CopyInv
  <2>2. PICK p \in objectIds : IsNext(p) /\ objectOut' = [objectOut EXCEPT ![p] = copy]
    BY <1>5 DEF NetSendObject
  <2>3. CASE p = o
    <3>1. objectOut'[o] = copy /\ IsNext(o)
      BY <1>a, <2>2, <2>3
    <3>2. ObjectSlot(o)!Show
      BY <2>1, <3>1 DEF ObjectSlot!Show, Ended
    <3> QED
      BY <3>2 DEF ObjectSlot!Next
  <2>4. CASE p # o
    <3>1. objectOut'[o] = objectOut[o] /\ ~IsNext(o)
      BY <1>a, <1>b, <2>2, <2>4 DEF IsNext
    <3> QED
      BY <2>1, <3>1 DEF ObjectSlot!vars, Ended
  <2> QED
    BY <2>3, <2>4
<1>6. CASE NetHoldObject
  <2>1. /\ Ended' <=> Ended
        /\ UNCHANGED <<objects, objectIn, objectOut>> /\ copy # None
        /\ netPc = "objectSend" /\ netPc' = "loop"
    BY <1>6 DEF NetHoldObject, Ended, CopyInv
  <2>2. CASE IsNext(o)
    <3>1. ObjectSlot(o)!GiveUp
      BY <2>1, <2>2 DEF ObjectSlot!GiveUp, Ended
    <3> QED
      BY <3>1 DEF ObjectSlot!Next
  <2>3. CASE ~IsNext(o)
    BY <2>1, <2>3 DEF ObjectSlot!vars, Ended
  <2> QED
    BY <2>2, <2>3
<1>7. CASE NetEraseObject
  <2>1. /\ Ended' <=> Ended
        /\ UNCHANGED <<objectIn, objectOut, copy>>
        /\ netPc = "objectErase" /\ netPc' = "objectCopy"
    BY <1>7 DEF NetEraseObject, Ended
  <2>2. PICK p \in objectIds :
          IsNext(p) /\ objects' = [objects EXCEPT ![p] = Unsent(@, copy)]
    BY <1>7 DEF NetEraseObject
  <2>3. CASE p = o /\ objects[o] # None /\ objects[o] = copy
    <3>1. objects'[o] = None /\ objectOut[o] = copy /\ objects[o] = objectIn[o]
      BY <1>a, <2>1, <2>2, <2>3 DEF Unsent, SafetyInv, SlotInv
    <3>2. ObjectSlot(o)!Settle
      BY <2>1, <2>3, <3>1 DEF ObjectSlot!Settle, Ended
    <3> QED
      BY <3>2 DEF ObjectSlot!Next
  <2>4. CASE ~(p = o /\ objects[o] # None /\ objects[o] = copy)
    <3>1. objects'[o] = objects[o]
      BY <1>a, <2>2, <2>4 DEF Unsent
    <3> QED
      BY <2>1, <3>1 DEF ObjectSlot!vars, Ended
  <2> QED
    BY <2>3, <2>4
<1>8. CASE /\ ~Start /\ ~StartFails /\ ~PushObject /\ ~ClearOutgoing /\ ~StopClear
           /\ ~NetCopyObject /\ ~NetSendObject /\ ~NetHoldObject /\ ~NetEraseObject
  <2>1. Ended' <=> Ended
    BY <1>8, EndedFrame
  <2>2. /\ UNCHANGED <<objects, objectIn, objectOut>>
        /\ \/ netPc # "objectSend" /\ netPc' # "objectSend"
           \/ UNCHANGED <<netPc, copy, objectIds>>
    <3>1. CASE MainNext
      BY <1>8, <3>1 DEF MainNext, Submit, MainPush, PushControl, PushPose,
                 StopNotRunning, StopSignal, MainStop, StopJoin
    <3>2. CASE NetControl
      BY <3>2 DEF NetControl, NetDrain, NetExpire, NetSendControl,
                  NetHoldControl, NetSendTorn
    <3>3. CASE NetPoses \/ NetObjects
      BY <3>3 DEF NetPoses, NetPose, NetSendPose, NetHoldPose, NetClearPose,
                  NetObjects
    <3>4. CASE NetOpen \/ NetOpenFails \/ NetLoop \/ Tick \/ UNCHANGED vars
      BY <3>4 DEF NetOpen, NetOpenFails, NetLoop, Tick, vars
    <3> QED
      BY <1>8, <3>1, <3>2, <3>3, <3>4 DEF Next, NetNext, NetObjectPoses
  <2> QED
    BY <2>1, <2>2 DEF ObjectSlot!vars, Ended, IsNext
<1> QED
  BY <1>1, <1>2, <1>3, <1>4, <1>5, <1>6, <1>7, <1>8

\* The avatar's slot and every object's slot keep the promise of module
\* PoseSlot: only showing the newest payload, or clear_outgoing, settles what is
\* owed.
THEOREM SlotsImplemented == Spec => ImplementsSlots
<1>1. Init => AvatarSlot!Init /\ \A o \in ObjectIds : ObjectSlot(o)!Init
  <2> SUFFICES ASSUME Init
               PROVE  AvatarSlot!Init /\ \A o \in ObjectIds : ObjectSlot(o)!Init
    OBVIOUS
  <2>1. AvatarSlot!Init
    BY DEF Init, AvatarSlot!Init, Ended
  <2>2. ASSUME NEW o \in ObjectIds PROVE ObjectSlot(o)!Init
    BY DEF Init, ObjectSlot!Init, Ended, NoObjects
  <2> QED
    BY <2>1, <2>2
<1>2. SafetyInv /\ CopyInv /\ [Next]_vars => [AvatarSlot!Next]_(AvatarSlot!vars)
  BY AvatarStep
<1>3. SafetyInv /\ CopyInv /\ [Next]_vars =>
        [\A o \in ObjectIds : [ObjectSlot(o)!Next]_(ObjectSlot(o)!vars)]_vars
  BY ObjectStep
<1> QED
  BY <1>1, <1>2, <1>3, SafetyInvariant, CopyInvariant, PTL
     DEF Spec, ImplementsSlots, AvatarSlot!Spec
=============================================================================
