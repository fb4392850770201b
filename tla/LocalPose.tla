------------------------------ MODULE LocalPose ------------------------------
(***************************************************************************)
(* The local avatar's pose on its way to the transport: set_local_pose,    *)
(* clear_local_pose, set_transform_send_rate and send_local_pose_if_due of *)
(* NetSyncClient (src/src/core/netsync_client.cpp), which poll() calls     *)
(* once a frame.                                                           *)
(*                                                                         *)
(* The host polls once a tick.  A time stamp is kept as its age in ticks,  *)
(* capped where the code no longer tells ages apart.                       *)
(***************************************************************************)
EXTENDS Integers

CONSTANTS
    Poses,      \* what pose_signature tells apart
    Stealth,    \* the body a stealth client sends
    None,
    Intervals,  \* 1 / transform_send_rate for the rates the host may set
    Heartbeat   \* kPoseHeartbeatSeconds

PosesAssumption == None \notin Poses \cup {Stealth} /\ Stealth \notin Poses
TimesAssumption ==
    /\ Intervals \subseteq Nat \ {0}
    /\ \E slowest \in Intervals : \A i \in Intervals : i <= slowest
    /\ Heartbeat \in Nat \ {0}

VARIABLES
    transport,  \* "stopped", "running" or "failed"
    stealth,    \* config_.stealth_mode
    interval,   \* 1 / config_.transform_send_rate
    pose,       \* local_pose_, None when has_local_pose_ is false
    signature,  \* last_pose_signature_, None when there is none
    sinceSend,  \* age of last_pose_send_time_
    sinceSent,  \* age of last_pose_change_send_time_
    \* What an observer sees; the code keeps none of it.
    handed,     \* the body last given to set_latest_transform this session
    late,       \* ticks for which the body to send was not that one
    silent      \* ticks since that, while there was a body to send

vars == <<transport, stealth, interval, pose, signature, sinceSend, sinceSent,
          handed, late, silent>>

Slowest == CHOOSE i \in Intervals : \A j \in Intervals : j <= i
Cap == Heartbeat + 2 * Slowest + 1
Older(age) == IF age < Cap THEN age + 1 ELSE age

\* The state reset_session_state leaves; -1e9 is older than anything.
Fresh ==
    /\ pose' = None
    /\ signature' = None
    /\ sinceSend' = Cap
    /\ sinceSent' = Cap
    /\ handed' = None
    /\ late' = 0
    /\ silent' = 0

Init ==
    /\ transport = "stopped"
    /\ stealth \in BOOLEAN
    /\ interval \in Intervals
    /\ pose = None
    /\ signature = None
    /\ sinceSend = Cap
    /\ sinceSent = Cap
    /\ handed = None
    /\ late = 0
    /\ silent = 0

\* connect(), or disconnect(): a configuration and a fresh session.  Discovery
\* starts the transport later.
Connect ==
    /\ transport' \in {"stopped", "running"}
    /\ stealth' \in BOOLEAN
    /\ interval' \in Intervals
    /\ Fresh

TransportStarts ==
    /\ transport = "stopped"
    /\ transport' = "running"
    /\ UNCHANGED <<stealth, interval, pose, signature, sinceSend, sinceSent,
                   handed, late, silent>>

\* Only connect() mends it.
TransportFails ==
    /\ transport = "running"
    /\ transport' = "failed"
    /\ late' = 0
    /\ silent' = 0
    /\ UNCHANGED <<stealth, interval, pose, signature, sinceSend, sinceSent, handed>>

SetTransformSendRate ==
    /\ interval' \in Intervals
    /\ UNCHANGED <<transport, stealth, pose, signature, sinceSend, sinceSent, handed,
                   late, silent>>

SetLocalPose(p) ==
    /\ pose' = p
    /\ UNCHANGED <<transport, stealth, interval, signature, sinceSend, sinceSent,
                   handed, late, silent>>

\* Mutant: the signature survives.
ClearLocalPoseKeeps ==
    /\ pose' = None
    /\ handed' = IF stealth THEN handed ELSE None
    /\ UNCHANGED <<transport, stealth, interval, signature, sinceSend, sinceSent,
                   late, silent>>

\* What was handed over before a clear no longer counts as shown.
ClearLocalPose ==
    /\ pose' = None
    /\ signature' = None
    /\ handed' = IF stealth THEN handed ELSE None
    /\ UNCHANGED <<transport, stealth, interval, sinceSend, sinceSent, late, silent>>

Body == IF stealth THEN Stealth ELSE pose
Live == transport = "running" /\ Body # None

\* The guards of send_local_pose_if_due, at the ages of this poll.
Due(age) == Live /\ age >= interval
Quiet(age) == signature = Body /\ age < Heartbeat

StillSilent == silent' = IF Live THEN silent + 1 ELSE 0

\* Mutant: a quiet poll restarts the heartbeat too.
StayQuietRestarts ==
    /\ sinceSend' = 0
    /\ sinceSent' = 0
    /\ StillSilent
    /\ UNCHANGED <<signature, handed>>

\* Nothing moved and no heartbeat is due: only the throttle starts again.
StayQuiet ==
    /\ sinceSend' = 0
    /\ sinceSent' = Older(sinceSent)
    /\ StillSilent
    /\ UNCHANGED <<signature, handed>>

NotDue ==
    /\ sinceSend' = Older(sinceSend)
    /\ sinceSent' = Older(sinceSent)
    /\ StillSilent
    /\ UNCHANGED <<signature, handed>>

\* set_latest_transform is called, with the next sequence number.
HandOver ==
    /\ sinceSend' = 0
    /\ sinceSent' = 0
    /\ silent' = 0
    /\ signature' = Body
    /\ handed' = Body

\* A frame: time passes and poll() runs send_local_pose_if_due.
Frame ==
    /\ \/ ~Due(Older(sinceSend)) /\ NotDue
       \/ Due(Older(sinceSend)) /\ Quiet(Older(sinceSent)) /\ StayQuiet
       \/ Due(Older(sinceSend)) /\ ~Quiet(Older(sinceSent)) /\ HandOver
    /\ late' = IF Live /\ handed' # Body THEN late + 1 ELSE 0
    /\ UNCHANGED <<transport, stealth, interval, pose>>

Next ==
    \/ Connect \/ TransportStarts \/ TransportFails \/ SetTransformSendRate
    \/ \E p \in Poses : SetLocalPose(p)
    \/ ClearLocalPose
    \/ Frame

Spec == Init /\ [][Next]_vars

-----------------------------------------------------------------------------
(* Properties.                                                             *)

\* A pose that differs from what was handed over last, or the same pose again
\* after clear_local_pose, is handed over within one send interval of a polled
\* and connected client: neither the change detection nor a poll that stayed
\* quiet delays it further (send_local_pose_if_due).
PoseNeverStale == late < Slowest

\* An unchanged pose, and a stealth client's empty one, is repeated: a
\* connected client that has something to say is never silent for longer than
\* the heartbeat and one send interval, although quiet polls keep moving
\* last_pose_send_time_ (send_local_pose_if_due).
HeartbeatKept == silent < Heartbeat + Slowest
=============================================================================
