----------------------------- MODULE ControlLane -----------------------------
(***************************************************************************)
(* What the transport promises of control messages, without threads, locks *)
(* or sockets.  Within a session every accepted packet waits; the oldest   *)
(* waiting packet is the only one that can leave, either delivered or,     *)
(* past its time to live, dropped.  Everything that waits is dropped at    *)
(* once when the host asks for it and when the session ends, and a new     *)
(* session starts with nothing.                                            *)
(***************************************************************************)
EXTENDS Integers, Sequences

CONSTANT TTL

VARIABLES
    ended,     \* no session, or one whose packets were abandoned
    session,
    accepted,  \* how many packets the session has accepted
    cleared,   \* how many of them were behind the host when it dropped all
    waiting,   \* the set of packets that wait
    delivered, \* the packets delivered in this session, in order
    clock

vars == <<ended, session, accepted, cleared, waiting, delivered, clock>>

Init ==
    /\ ended = TRUE
    /\ session = 0
    /\ accepted = 0
    /\ cleared = 0
    /\ waiting = {}
    /\ delivered = <<>>
    /\ clock = 0

Tick ==
    /\ clock' = clock + 1
    /\ UNCHANGED <<ended, session, accepted, cleared, waiting, delivered>>

\* A session begins; it may be over at once.
Begin ==
    /\ ended
    /\ waiting = {}
    /\ ended' \in BOOLEAN
    /\ session' = session + 1
    /\ accepted' = 0
    /\ cleared' = 0
    /\ delivered' = <<>>
    /\ UNCHANGED <<waiting, clock>>

Accept ==
    /\ ~ended
    /\ accepted' = accepted + 1
    /\ waiting' = waiting \cup {[id |-> accepted + 1,
                                session |-> session,
                                at |-> clock]}
    /\ UNCHANGED <<ended, session, cleared, delivered, clock>>

Oldest(p) == p \in waiting /\ \A q \in waiting : p.id <= q.id

Deliver(p) ==
    /\ Oldest(p)
    /\ waiting' = waiting \ {p}
    /\ delivered' = Append(delivered, p)
    /\ UNCHANGED <<ended, session, accepted, cleared, clock>>

Expire(p) ==
    /\ Oldest(p)
    /\ clock - p.at > TTL
    /\ waiting' = waiting \ {p}
    /\ UNCHANGED <<ended, session, accepted, cleared, delivered, clock>>

\* Everything that waits is dropped; the session may be over with that.
Drop ==
    /\ ended => ended'
    /\ ended' \in BOOLEAN
    /\ waiting' = {}
    /\ cleared' = accepted
    /\ UNCHANGED <<session, accepted, delivered, clock>>

Next ==
    \/ Tick \/ Begin \/ Accept \/ Drop
    \/ \E p \in waiting : Deliver(p) \/ Expire(p)

Spec == Init /\ [][Next]_vars
=============================================================================
