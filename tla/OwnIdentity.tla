---------------------------- MODULE OwnIdentity ----------------------------
(***************************************************************************)
(* Module DeviceId beside modules that have a pc and a None of their own:  *)
(* its state, what is assumed of its constants and what it promises, for   *)
(* the run that checks it and the proofs about it.                         *)
(***************************************************************************)
EXTENDS Integers

CONSTANTS Size, NoId, MaxLaunches

VARIABLES file, idPc, generated, result, ok, launches, established, unread

fileVars == <<file, idPc, generated, result, ok, launches, established, unread>>

Identity == INSTANCE DeviceId WITH pc <- idPc, None <- NoId

ASSUME IdentityAssumption == Identity!SizeAssumption

\* Module DeviceId: a value that a launch has read, or has written completely,
\* is what the file holds from then on, wherever a later launch dies
\* (load_or_create_device_id).
IdentitySurvives == Identity!IdentitySurvives
=============================================================================
