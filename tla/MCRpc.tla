-------------------------------- MODULE MCRpc --------------------------------
(***************************************************************************)
(* Module Rpc on a small instance; Rpc.cfg gives the constants.            *)
(***************************************************************************)
EXTENDS Rpc

TwoLimits == {0, 2}
TwoWindows == {1, 2}
=============================================================================
