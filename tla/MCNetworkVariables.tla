------------------------- MODULE MCNetworkVariables -------------------------
(***************************************************************************)
(* Module NetworkVariables on small instances.                             *)
(***************************************************************************)
EXTENDS NetworkVariables

CONSTANTS g, c, v1, v2

GlobalAndClient == {g, c}
JustClient == {c}
ScopeOf == [k \in Keys |-> IF k = g THEN "global" ELSE "mine"]
TwoValues == {v1, v2}

\* Bound: a behaviour writes the global variable or the client variable, not
\* both.  The two meet only in the channels, which keep their order.
OneKeyWritten ==
    Cardinality({k \in Keys : \/ server[k] # None
                              \/ intent[k] # None
                              \/ lastSent[k] # None}) <= 1
=============================================================================
