-------------------------------- MODULE Scene --------------------------------
(***************************************************************************)
(* The scene side: NetSyncManager (addons/styly_netsync/                   *)
(* net_sync_manager.gd) and the NetSyncObject nodes it serves, over the    *)
(* bridge's poll() (src/godot/netsync_bridge.cpp).                         *)
(*                                                                         *)
(* Everything here runs on the main thread, but not one thing after the    *)
(* other: a signal runs the host's code in the middle of a frame, and that *)
(* code may add or remove a node, disconnect or connect again.  By the     *)
(* time the first signal of a poll() is emitted the client has already     *)
(* handled every message of it.  The client is reduced to what the scene   *)
(* sees of it (its detail is modules Session and Objects): its number, the *)
(* owner of each registered object, and the events of a poll.              *)
(***************************************************************************)
EXTENDS Integers, Sequences

CONSTANTS
    Nodes,       \* NetSyncObject nodes
    IdOf,        \* IdOf[n]: object_id of n, not 0
    Claiming,    \* the nodes with claim_ownership_on_ready
    None,        \* no node
    Numbers,     \* the client numbers a server gives out
    MaxSessions, \* bound: calls of connect_to_server
    MaxInbox     \* bound: messages waiting for one poll()

ASSUME NodesAssumption == None \notin Nodes /\ Claiming \subseteq Nodes
ASSUME NumbersAssumption == Numbers \subseteq Nat \ {0}
ASSUME BoundsAssumption == MaxSessions \in Nat /\ MaxInbox \in Nat

Ids == {IdOf[n] : n \in Nodes}
Owners == Numbers \cup {0}

VARIABLES
    frame,     \* where _process is; "handler" and "changed" run the host's code
    events,    \* what client_->poll() returned and is not emitted yet
    keys,      \* the ids that _process has still to apply
    applying,  \* _apply_remote_state: its node and the state it was given
    objects,   \* _objects
    manager,   \* the nodes with a _manager
    nodeOwner, \* _owner_client_no
    hasTarget, \* the nodes with _has_target
    armed,     \* the nodes connected to ready_to_sync
    claimed,   \* the nodes with _claimed
    \* The client.
    live,      \* a session is there
    polled,    \* it has been polled, so the hello is out
    clientNo,  \* client_no(), 0 before the mapping
    fired,     \* ready_fired_
    owner,     \* the owner of each object, 0 when not registered
    posed,     \* the objects with has_pose
    inbox,     \* the messages of the next poll()
    \* What an observer sees.
    session,   \* how many sessions there have been
    heard,     \* the session whose event was emitted last
    asked,     \* the objects that a claim has asked for in this session
    touched    \* the objects that the host has touched since the last visit began

nodeVars == <<manager, nodeOwner, hasTarget, armed, claimed>>
clientVars == <<live, polled, clientNo, fired, owner, posed, inbox>>
frameVars == <<frame, events, keys, applying>>
vars == <<frameVars, objects, nodeVars, clientVars, session, heard, asked, touched>>

Init ==
    /\ frame = "idle" /\ events = <<>> /\ keys = {} /\ applying = None
    /\ objects = [i \in Ids |-> None]
    /\ manager = {} /\ armed = {} /\ claimed = {} /\ hasTarget = {}
    /\ nodeOwner = [n \in Nodes |-> 0]
    /\ live = FALSE /\ polled = FALSE /\ clientNo = 0 /\ fired = FALSE
    /\ owner = [i \in Ids |-> 0]
    /\ posed = {}
    /\ inbox = <<>>
    /\ session = 0 /\ heard = 0 /\ asked = {} /\ touched = {}

\* is_ready(), the initial variables set apart.
IsReady == live /\ clientNo # 0
OwnedByMe(n) == n \in manager /\ nodeOwner[n] # 0 /\ nodeOwner[n] = clientNo

-----------------------------------------------------------------------------
(* The host's code, between two frames or in a handler.                    *)

HostRuns == frame \in {"idle", "handler", "changed"}

\* What the host did to the objects in S, during a visit or after it.
Touch(S) == touched' = IF frame = "handler" THEN touched ELSE touched \cup S

\* _claim_once of the nodes in S.  request_ownership reaches the client only
\* while the node has a manager, and the outbox only in a session.
Claim(S) ==
    LET new == S \ claimed IN
    /\ claimed' = claimed \cup new
    /\ asked' = asked \cup (IF live THEN {IdOf[n] : n \in new \cap manager'} ELSE {})

\* _enter_tree, _try_register and register_object.  An object that another node
\* has registered keeps its entry.
Enter(n) ==
    /\ HostRuns
    /\ n \notin manager
    /\ manager' = manager \cup {n}
    /\ objects' = [objects EXCEPT ![IdOf[n]] = n]
    /\ armed' = IF n \in Claiming THEN armed \cup {n} ELSE armed
    /\ Claim(IF n \in Claiming /\ IsReady THEN {n} ELSE {})
    /\ Touch({IdOf[n]})
    /\ UNCHANGED <<frameVars, nodeOwner, hasTarget, clientVars, session, heard>>

\* _exit_tree and unregister_object: the entry goes, whoever registered it.
Exit(n) ==
    /\ HostRuns
    /\ n \in manager
    /\ manager' = manager \ {n}
    /\ objects' = [objects EXCEPT ![IdOf[n]] = None]
    /\ owner' = [owner EXCEPT ![IdOf[n]] = 0]
    /\ posed' = posed \ {IdOf[n]}
    /\ Touch({IdOf[n]})
    /\ UNCHANGED <<frameVars, nodeOwner, hasTarget, armed, claimed, live, polled,
                   clientNo, fired, inbox, session, heard, asked>>

\* The client drops its room-scoped state in connect() and in disconnect().
ResetClient ==
    /\ polled' = FALSE
    /\ clientNo' = 0 /\ fired' = FALSE
    /\ owner' = [i \in Ids |-> 0]
    /\ posed' = {}
    /\ inbox' = <<>>
    /\ Touch(Ids)
    /\ UNCHANGED <<frameVars, objects, nodeVars, heard>>

ConnectToServer ==
    /\ HostRuns
    /\ ~live /\ session < MaxSessions
    /\ live' = TRUE
    /\ session' = session + 1
    /\ asked' = {}
    /\ ResetClient

DisconnectFromServer ==
    /\ HostRuns
    /\ live
    /\ live' = FALSE
    /\ ResetClient
    /\ UNCHANGED <<session, asked>>

-----------------------------------------------------------------------------
(* The server, external: its messages between two frames.                  *)

Send(m) ==
    /\ frame = "idle"
    /\ live /\ polled
    /\ Len(inbox) < MaxInbox
    /\ inbox' = Append(inbox, m)
    /\ UNCHANGED <<frameVars, objects, nodeVars, live, polled, clientNo, fired,
                   owner, posed, session, heard, asked, touched>>

\* The mapping comes first, and once.
Mapped == clientNo # 0 \/ \E k \in DOMAIN inbox : inbox[k].kind = "mapping"
SendMapping == \E n \in Numbers : ~Mapped /\ Send([kind |-> "mapping", no |-> n])
SendOwner ==
    \E i \in Ids, o \in Owners, kind \in {"owner", "room"} :
        Mapped /\ Send([kind |-> kind, id |-> i, no |-> o])

-----------------------------------------------------------------------------
(* A frame: _process.                                                      *)

Event(m) == [kind |-> m.kind, id |-> m.id, no |-> m.no, session |-> session]

\* The poses that it submits first are the subject of module Objects.
BeginFrame ==
    /\ frame = "idle"
    /\ frame' = "poll"
    /\ polled' = live
    /\ touched' = {}
    /\ UNCHANGED <<events, keys, applying, objects, nodeVars, live, clientNo,
                   fired, owner, posed, inbox, session, heard, asked>>

\* client_->poll() handles its messages before any signal is emitted.  The
\* mapping gives the client its number; an object that is not registered is ignored,
\* and a snapshot is news only when the owner differs.
PollMessage ==
    /\ frame = "poll"
    /\ inbox # <<>>
    /\ inbox' = Tail(inbox)
    /\ LET m == Head(inbox) IN
       IF m.kind = "mapping"
       THEN /\ clientNo' = m.no
            /\ events' = Append(events, [kind |-> "assigned", session |-> session])
            /\ UNCHANGED <<owner, posed>>
       ELSE LET known == objects[m.id] # None
                news == IF m.kind = "owner" THEN TRUE
                        ELSE known /\ owner[m.id] # m.no
            IN
            /\ owner' = IF known THEN [owner EXCEPT ![m.id] = m.no] ELSE owner
            /\ posed' = IF known /\ m.kind = "room" /\ m.no # clientNo
                        THEN posed \cup {m.id} ELSE posed
            /\ events' = IF news THEN Append(events, Event(m)) ELSE events
            /\ UNCHANGED clientNo
    /\ UNCHANGED <<frame, keys, applying, objects, nodeVars, live, polled,
                   fired, session, heard, asked, touched>>

\* update_ready ends it.
PollReturns ==
    /\ frame = "poll"
    /\ inbox = <<>>
    /\ frame' = "emit"
    /\ fired' = IsReady
    /\ events' = IF IsReady /\ ~fired
                 THEN Append(events, [kind |-> "ready", session |-> session])
                 ELSE events
    /\ UNCHANGED <<keys, applying, objects, nodeVars, live, polled, clientNo,
                   owner, posed, inbox, session, heard, asked, touched>>

\* _on_ownership_changed of node n: a node that becomes ours stops following.
Changed(n, new) ==
    /\ nodeOwner' = [nodeOwner EXCEPT ![n] = new]
    /\ hasTarget' = IF nodeOwner[n] # new /\ new # 0 /\ new = clientNo /\ n \in manager
                    THEN hasTarget \ {n} ELSE hasTarget

\* emit_event and the manager's handler of it, which ends in the host's.
EmitEvent ==
    /\ frame = "emit"
    /\ events # <<>>
    /\ LET e == Head(events) IN
       /\ heard' = e.session
       /\ IF e.kind = "ready"
          THEN /\ armed' = {}
               /\ manager' = manager
               /\ Claim(armed)
               /\ UNCHANGED <<nodeOwner, hasTarget>>
          ELSE /\ IF e.kind # "assigned" /\ objects[e.id] # None
                  THEN Changed(objects[e.id], e.no)
                  ELSE UNCHANGED <<nodeOwner, hasTarget>>
               /\ UNCHANGED <<manager, armed, claimed, asked>>
    /\ events' = Tail(events)
    /\ frame' = "handler"
    /\ UNCHANGED <<keys, applying, objects, clientVars, session, touched>>

HandlerReturns ==
    /\ frame = "handler"
    /\ frame' = "emit"
    /\ UNCHANGED <<events, keys, applying, objects, nodeVars, clientVars,
                   session, heard, asked, touched>>

\* The loop over a snapshot of the keys of _objects.
BeginApply ==
    /\ frame = "emit"
    /\ events = <<>>
    /\ keys' = {i \in Ids : objects[i] # None}
    /\ frame' = "apply"
    /\ UNCHANGED <<events, applying, objects, nodeVars, clientVars, session,
                   heard, asked, touched>>

\* _apply_remote_state, up to the signal that tells of a new owner.
TellOwner(i) ==
    /\ applying' = [node |-> objects[i], owner |-> owner[i], posed |-> i \in posed]
    /\ Changed(objects[i], owner[i])
    /\ frame' = IF nodeOwner[objects[i]] # owner[i] THEN "changed" ELSE "target"

VisitKeeps ==
    UNCHANGED <<events, objects, manager, armed, claimed, clientVars, session, heard,
                asked, touched>>

\* Mutant: an object without an owner is left alone before its node is told.
ApplyOwnerUnlessFree(i) ==
    /\ frame = "apply"
    /\ i \in keys
    /\ keys' = keys \ {i}
    /\ IF objects[i] = None \/ owner[i] = 0
       THEN UNCHANGED <<frame, applying, nodeOwner, hasTarget>>
       ELSE TellOwner(i)
    /\ VisitKeeps

\* One turn of the loop; the entry of the snapshot may be gone.
ApplyOwner(i) ==
    /\ frame = "apply"
    /\ i \in keys
    /\ keys' = keys \ {i}
    /\ IF objects[i] = None
       THEN UNCHANGED <<frame, applying, nodeOwner, hasTarget>>
       ELSE TellOwner(i)
    /\ VisitKeeps

ChangedReturns ==
    /\ frame = "changed"
    /\ frame' = "target"
    /\ UNCHANGED <<events, keys, applying, objects, nodeVars, clientVars,
                   session, heard, asked, touched>>

\* Its rest: the pose of another client's object is followed.
ApplyTarget ==
    /\ frame = "target"
    /\ hasTarget' = IF applying.owner = 0 \/ OwnedByMe(applying.node) \/ ~applying.posed
                    THEN hasTarget ELSE hasTarget \cup {applying.node}
    /\ applying' = None
    /\ frame' = "apply"
    /\ UNCHANGED <<events, keys, objects, manager, nodeOwner, armed, claimed,
                   clientVars, session, heard, asked, touched>>

EndFrame ==
    /\ frame = "apply"
    /\ keys = {}
    /\ frame' = "idle"
    /\ UNCHANGED <<events, keys, applying, objects, nodeVars, clientVars,
                   session, heard, asked, touched>>

-----------------------------------------------------------------------------

FrameSteps ==
    \/ BeginFrame \/ PollMessage \/ PollReturns
    \/ EmitEvent \/ HandlerReturns
    \/ BeginApply \/ (\E i \in Ids : ApplyOwner(i)) \/ ChangedReturns
    \/ ApplyTarget \/ EndFrame

Next ==
    \/ \E n \in Nodes : Enter(n) \/ Exit(n)
    \/ ConnectToServer \/ DisconnectFromServer
    \/ SendMapping \/ SendOwner
    \/ FrameSteps

Spec == Init /\ [][Next]_vars

\* Godot calls _process in every frame, and the host's handlers return.
FairSpec == Spec /\ WF_vars(FrameSteps)

-----------------------------------------------------------------------------
(* Properties.                                                             *)

\* A registered node comes to know the owner the client knows, whatever its
\* own handlers and those of other nodes do to the scene and to the connection
\* in the middle of a frame (_process, _apply_remote_state).
NodeFollows ==
    \A n \in Nodes :
        (objects[IdOf[n]] = n /\ nodeOwner[n] # owner[IdOf[n]])
            ~> (objects[IdOf[n]] # n \/ nodeOwner[n] = owner[IdOf[n]])

\* When _process has visited the registered nodes, each of them knows the owner
\* that the client knows: no handler that ran on the way, whatever node it added
\* or removed, made the visit pass over another one or tell it of an old owner
\* (_process, _apply_remote_state).
VisitTellsOwner ==
    frame = "idle" =>
        \A i \in Ids \ touched :
            objects[i] # None => nodeOwner[objects[i]] = owner[i]

\* "Tear down the connection and drop all room-scoped state" (net_sync_manager.gd,
\* disconnect_from_server): once it has returned, no signal tells of that room.
SilentAfterDisconnect ==
    [][frame' = "handler" /\ frame = "emit" => live /\ heard' = session]_vars

\* "A Node3D whose world transform is synchronised across the room"
\* (net_sync_object.gd): a node that has an id and has found its manager is
\* served by it until it leaves the tree, unless a newer node takes its id.
NodeServed ==
    \A n \in manager : objects[IdOf[n]] # None

\* "Take ownership as soon as the client is ready" (net_sync_object.gd,
\* claim_ownership_on_ready): in every session, once the host has been told.
ClaimMade ==
    frame = "idle" /\ IsReady =>
        \A n \in Claiming \cap manager : IdOf[n] \in asked
=============================================================================
