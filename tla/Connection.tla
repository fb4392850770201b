----------------------------- MODULE Connection -----------------------------
(***************************************************************************)
(* What a client promises of the life of its connections.  Each one passes *)
(* its phases in order and skips none; the host is told once, at most,     *)
(* that it is ready; a connection that has lost its readiness does not get *)
(* it back, it only fails or ends; and after a failure nothing happens     *)
(* until the host begins another one or lets go.                           *)
(***************************************************************************)
EXTENDS Naturals

VARIABLES
    phase,     \* how far the connection is
    announced, \* Ready events of this connection
    number     \* connections begun so far

vars == <<phase, announced, number>>

Alive == {"connecting", "connected", "synchronizing", "ready", "failing"}

Init ==
    /\ phase = "disconnected"
    /\ announced = 0
    /\ number = 0

\* A connection is begun, or cannot be.
Begin ==
    /\ phase \in {"disconnected", "error"}
    /\ phase' \in {"connecting", "error"}
    /\ announced' = 0
    /\ number' = number + 1

\* The sockets are up.
Open ==
    /\ phase = "connecting"
    /\ phase' = "connected"
    /\ UNCHANGED <<announced, number>>

\* The client introduces itself.
Greet ==
    /\ phase = "connected"
    /\ phase' = "synchronizing"
    /\ UNCHANGED <<announced, number>>

BecomeReady ==
    /\ phase = "synchronizing"
    /\ announced = 0
    /\ phase' = "ready"
    /\ announced' = 1
    /\ UNCHANGED number

LoseReadiness ==
    /\ phase = "ready"
    /\ phase' = "failing"
    /\ UNCHANGED <<announced, number>>

Fail ==
    /\ phase \in Alive
    /\ phase' = "error"
    /\ UNCHANGED <<announced, number>>

End ==
    /\ phase' = "disconnected"
    /\ announced' = 0
    /\ UNCHANGED number

Next == Begin \/ Open \/ Greet \/ BecomeReady \/ LoseReadiness \/ Fail \/ End

Spec == Init /\ [][Next]_vars
=============================================================================
