------------------------------ MODULE MCScene ------------------------------
(***************************************************************************)
(* Module Scene with three nodes, two of which have the same id: one that  *)
(* takes the place of the other.                                           *)
(***************************************************************************)
EXTENDS Scene

CONSTANTS a, b, c

ThreeNodes == {a, b, c}
TwoNodes == {a, c}
SharedId == [n \in ThreeNodes |-> IF n = c THEN 2 ELSE 1]
OneClaims == {a}
TwoNumbers == {1, 2}
=============================================================================
