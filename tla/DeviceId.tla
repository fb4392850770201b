------------------------------ MODULE DeviceId ------------------------------
(***************************************************************************)
(* The device id file (src/src/core/device_id.cpp): one launch after       *)
(* another calls load_or_create_device_id on the same file, any of them    *)
(* may die on the way, and opening, writing or flushing may fail.          *)
(*                                                                         *)
(* An id has Size pieces; what a file holds is how many pieces of which    *)
(* id.  stdio buffers the pieces: fwrite only fills the buffer, and the    *)
(* file changes when fopen truncates it and when fclose flushes.           *)
(***************************************************************************)
EXTENDS Integers

CONSTANTS
    Size,       \* pieces of an id
    None,       \* no file; no id
    MaxLaunches \* bound: launches

SizeAssumption == Size \in Nat \ {0} /\ MaxLaunches \in Nat

VARIABLES
    file,        \* what the file holds, None when there is none
    pc,          \* where the launch is in load_or_create_device_id
    generated,   \* the launch's new id, None when it did not generate one
    result,      \* what the launch returned, None before
    ok,          \* what write_device_id returned, None before
    launches,
    established, \* the value that launches have to go on returning
    unread       \* this launch could not open an existing file

vars == <<file, pc, generated, result, ok, launches, established, unread>>

Init ==
    /\ file = None
    /\ pc = "off"
    /\ generated = None
    /\ result = None
    /\ ok = None
    /\ launches = 0
    /\ established = None
    /\ unread = FALSE

Launch ==
    /\ pc = "off"
    /\ launches < MaxLaunches
    /\ launches' = launches + 1
    /\ pc' = "read"
    /\ generated' = None /\ result' = None /\ ok' = None
    /\ unread' = FALSE
    /\ UNCHANGED <<file, established>>

\* generate_uuid_v4: an id no launch has used.
New == [id |-> launches, pieces |-> Size]

\* Mutant: the file is opened for writing before it is read.
ReadTruncating ==
    /\ pc = "read"
    /\ file # None /\ file.pieces > 0
    /\ generated' = file
    /\ file' = [file EXCEPT !.pieces = 0]
    /\ pc' = "close"
    /\ UNCHANGED <<result, ok, launches, established, unread>>

\* read_device_id finds a value, which the launch returns as it is.
ReadValue ==
    /\ pc = "read"
    /\ file # None /\ file.pieces > 0
    /\ result' = file
    /\ established' = file
    /\ pc' = "done"
    /\ UNCHANGED <<file, generated, ok, launches, unread>>

\* It finds nothing: no file, an empty one, or one it cannot open.
ReadNothing ==
    /\ pc = "read"
    /\ generated' = New
    /\ unread' = (file # None /\ file.pieces > 0)
    /\ pc' = "write"
    /\ UNCHANGED <<file, result, ok, launches, established>>

\* write_device_id cannot open the file.
OpenFails ==
    /\ pc = "write"
    /\ ok' = FALSE
    /\ result' = generated
    /\ pc' = "done"
    /\ UNCHANGED <<file, generated, launches, established, unread>>

\* It opens the file, which truncates it, and fwrite fills the buffer.  A file
\* that could not be read is given up here, as the header says.
OpenAndWrite ==
    /\ pc = "write"
    /\ file' = [id |-> generated.id, pieces |-> 0]
    /\ established' = IF unread THEN None ELSE established
    /\ pc' = "close"
    /\ UNCHANGED <<generated, result, ok, launches, unread>>

\* fclose flushes the buffer, or as much of it as the disk takes; its result
\* is not looked at.
CloseAndReturn ==
    /\ pc = "close"
    /\ \E n \in 0..Size : file' = [file EXCEPT !.pieces = n]
    /\ established' = IF file'.pieces = Size THEN file' ELSE established
    /\ ok' = TRUE
    /\ result' = generated
    /\ pc' = "done"
    /\ UNCHANGED <<generated, launches, unread>>

\* The process ends, wherever it was; the system may have written some of a
\* buffer that was being flushed.
Exit ==
    /\ pc # "off"
    /\ pc' = "off"
    /\ IF pc = "close" THEN \E n \in 0..Size : file' = [file EXCEPT !.pieces = n]
                       ELSE UNCHANGED file
    /\ UNCHANGED <<generated, result, ok, launches, established, unread>>

Next ==
    \/ Launch \/ ReadValue \/ ReadNothing
    \/ OpenFails \/ OpenAndWrite \/ CloseAndReturn \/ Exit

Spec == Init /\ [][Next]_vars

\* A value that a launch has read, or has written completely, is what the file
\* holds from then on, wherever a later launch dies: only a launch that cannot
\* open the file gives it up.  A truncated id that was read is kept like any
\* other (load_or_create_device_id; device_id.hpp: "the value must survive a
\* process restart").
IdentitySurvives == established # None => file = established

\* write_device_id "Returns false when the write failed" (device_id.hpp).
WriteReported == pc = "done" /\ ok = TRUE => file = generated
=============================================================================
