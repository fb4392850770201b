------------------------------ MODULE PoseSlot ------------------------------
(***************************************************************************)
(* What the transport promises of a latest-wins slot, the avatar's or one  *)
(* object's.  The newest payload of the session is owed until it has been  *)
(* shown; only payloads taken from the slot are shown; the debt is settled *)
(* only by showing the newest payload itself, or when the host or the end  *)
(* of the session drops it.                                                *)
(***************************************************************************)

CONSTANT None

VARIABLES
    newest,  \* the newest payload of the session that was not dropped
    shown,   \* the payload last put on the wire
    owed,    \* the slot is filled
    carried, \* the payload being sent
    ended    \* no session, or one whose slots were cleared

vars == <<newest, shown, owed, carried, ended>>

Init ==
    /\ newest = None
    /\ shown = None
    /\ owed = FALSE
    /\ carried = None
    /\ ended = TRUE

\* A session begins; it may be over at once.
Begin ==
    /\ ended
    /\ ~owed
    /\ carried = None
    /\ newest' = None
    /\ shown' = None
    /\ ended' \in BOOLEAN
    /\ UNCHANGED <<owed, carried>>

\* Any payload: the host chooses it.
Submit ==
    /\ ~ended
    /\ newest' # None
    /\ owed' = TRUE
    /\ UNCHANGED <<shown, carried, ended>>

Take ==
    /\ owed
    /\ carried = None
    /\ carried' = newest
    /\ UNCHANGED <<newest, shown, owed, ended>>

Show ==
    /\ carried # None
    /\ shown' = carried
    /\ carried' = None
    /\ UNCHANGED <<newest, owed, ended>>

GiveUp ==
    /\ carried # None
    /\ carried' = None
    /\ UNCHANGED <<newest, shown, owed, ended>>

Settle ==
    /\ owed
    /\ shown = newest
    /\ owed' = FALSE
    /\ UNCHANGED <<newest, shown, carried, ended>>

\* The payload is dropped; the session may be over with that.
Drop ==
    /\ ended => ended'
    /\ ended' \in BOOLEAN
    /\ newest' = None
    /\ owed' = FALSE
    /\ UNCHANGED <<shown, carried>>

Next == Begin \/ Submit \/ Take \/ Show \/ GiveUp \/ Settle \/ Drop

Spec == Init /\ [][Next]_vars
=============================================================================
