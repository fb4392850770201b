------------------------------ MODULE OwnPose ------------------------------
(***************************************************************************)
(* Module LocalPose beside modules that have a None of their own: its      *)
(* state, what is assumed of its constants and what it promises, for the   *)
(* run that checks it and the proofs about it.                             *)
(***************************************************************************)
EXTENDS Integers

CONSTANTS Poses, Stealth, NoPose, Intervals, Heartbeat

VARIABLES transport, stealth, interval, pose, signature, sinceSend, sinceSent,
          handed, late, silent

localVars == <<transport, stealth, interval, pose, signature, sinceSend,
               sinceSent, handed, late, silent>>

Local == INSTANCE LocalPose WITH None <- NoPose

ASSUME OwnPoseAssumption == Local!PosesAssumption /\ Local!TimesAssumption

\* Module LocalPose: a changed pose, or one set again after clear_local_pose,
\* is handed over within one send interval (send_local_pose_if_due).
PoseNeverStale == Local!PoseNeverStale

\* Module LocalPose: an unchanged pose is repeated with the heartbeat, although
\* quiet polls keep moving last_pose_send_time_ (send_local_pose_if_due).
HeartbeatKept == Local!HeartbeatKept
=============================================================================
