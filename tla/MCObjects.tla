------------------------------ MODULE MCObjects ------------------------------
(***************************************************************************)
(* Module Objects on a small instance, for what must eventually happen.    *)
(***************************************************************************)
EXTENDS Objects

CONSTANTS p1, p2

OneId == {1}
TwoPoses == {p1, p2}

\* While this client owns an object, the pose it submits reaches the server,
\* even when an earlier send of the same pose was lost on a change of owner, the
\* message that would have reset the send state was dropped by a full inbox, and
\* a late message or snapshot has taken the ownership back for a while (tick).
\* One pose stands for all: module Objects only ever compares them.
PosePublished == \A o \in Ids : Published(o, p1)
=============================================================================
