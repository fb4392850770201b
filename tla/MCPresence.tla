------------------------------ MODULE MCPresence ------------------------------
(***************************************************************************)
(* Module Presence on a small instance; Presence.cfg gives the constants.  *)
(***************************************************************************)
EXTENDS Presence

CONSTANT a

OneOther == {a}
===============================================================================
