----------------------------- MODULE SceneProofs -----------------------------
(***************************************************************************)
(* Proofs about module Scene for any nodes, ids (shared ones too), client  *)
(* numbers, sessions and length of the inbox.                              *)
(***************************************************************************)
EXTENDS Scene, SequenceTheorems, TLAPS

-----------------------------------------------------------------------------
(* The inductive invariant.                                                *)

Frames == {"idle", "poll", "emit", "handler", "apply", "changed", "target"}

Messages == [kind : {"mapping"}, no : Numbers]
                \cup [kind : {"owner", "room"}, id : Ids, no : Owners]

Events == [kind : {"assigned", "ready"}, session : Nat]
                \cup [kind : {"owner", "room"}, id : Ids, no : Owners, session : Nat]

Visits == [node : Nodes, owner : Owners, posed : BOOLEAN]

FrameType ==
    /\ frame \in Frames
    /\ events \in Seq(Events)
    /\ keys \subseteq Ids
    /\ frame \in {"changed", "target"} => applying \in Visits

NodeType ==
    /\ objects \in [Ids -> Nodes \cup {None}]
    /\ manager \subseteq Nodes /\ hasTarget \subseteq Nodes
    /\ armed \subseteq Nodes /\ claimed \subseteq Nodes
    /\ nodeOwner \in [Nodes -> Owners]

ClientType ==
    /\ live \in BOOLEAN /\ polled \in BOOLEAN /\ fired \in BOOLEAN
    /\ clientNo \in Owners
    /\ owner \in [Ids -> Owners]
    /\ posed \subseteq Ids
    /\ inbox \in Seq(Messages)

ObserverType ==
    /\ session \in Nat /\ heard \in Nat
    /\ asked \subseteq Ids /\ touched \subseteq Ids

TypeOK == FrameType /\ NodeType /\ ClientType /\ ObserverType

\* The entry of an id is a node of that id: a node is told of one object only.
EntryInv == \A i \in Ids : objects[i] # None => IdOf[objects[i]] = i

\* There are ids to visit only during a visit.
KeysInv == frame \in {"idle", "poll", "emit", "handler"} => keys = {}

\* From the start of a visit to the next frame, a node knows its owner unless its
\* turn is still to come or the host has touched the object.
VisitInv ==
    frame \in {"apply", "changed", "target", "idle"} =>
        \A i \in Ids \ (keys \cup touched) :
            objects[i] # None => nodeOwner[objects[i]] = owner[i]

SceneInv == TypeOK /\ EntryInv /\ KeysInv /\ VisitInv

-----------------------------------------------------------------------------
(* Lemmas.                                                                 *)

\* The constants.
LEMMA SceneConstants ==
    /\ None \notin Nodes /\ 0 \in Owners /\ Numbers \subseteq Owners
    /\ Owners \subseteq Nat
    /\ \A n \in Nodes : IdOf[n] \in Ids
BY NodesAssumption, NumbersAssumption DEF Owners, Ids

\* _claim_once touches nodes and asks for their objects only.
LEMMA ClaimType ==
    ASSUME NEW S \in SUBSET Nodes, Claim(S), claimed \subseteq Nodes, asked \subseteq Ids
    PROVE  claimed' \subseteq Nodes /\ asked' \subseteq Ids
BY SceneConstants DEF Claim

\* What the host touches are objects.
LEMMA TouchType ==
    ASSUME NEW S \in SUBSET Ids, Touch(S), touched \subseteq Ids
    PROVE  touched' \subseteq Ids
BY DEF Touch

\* During a visit, and after it, what the host touches is remembered.
LEMMA TouchRemembered ==
    ASSUME NEW S, Touch(S), frame # "handler"
    PROVE  touched' = touched \cup S
BY DEF Touch

\* _on_ownership_changed gives the node its new owner.
LEMMA ChangedType ==
    ASSUME NodeType, NEW n \in Nodes, NEW new \in Owners, Changed(n, new)
    PROVE  /\ nodeOwner' \in [Nodes -> Owners]
           /\ nodeOwner' = [nodeOwner EXCEPT ![n] = new]
           /\ hasTarget' \subseteq Nodes
BY DEF NodeType, Changed

\* An entry that is there is a node.
LEMMA EntryType ==
    ASSUME NodeType, NEW i \in Ids, objects[i] # None
    PROVE  objects[i] \in Nodes
BY DEF NodeType

\* An event of the model is an event.
LEMMA EventRecord ==
    ASSUME NEW k \in {"assigned", "ready"}, NEW n \in Nat
    PROVE  [kind |-> k, session |-> n] \in Events
BY DEF Events

\* The kinds of message and what each carries.
LEMMA MessageCases ==
    ASSUME NEW m \in Messages
    PROVE  \/ m.kind = "mapping" /\ m.no \in Numbers
           \/ m.kind \in {"owner", "room"} /\ m.id \in Ids /\ m.no \in Owners
BY DEF Messages

\* The kinds of event and what each carries.
LEMMA EventCases ==
    ASSUME NEW e \in Events
    PROVE  /\ e.session \in Nat
           /\ \/ e.kind \in {"assigned", "ready"}
              \/ e.kind \in {"owner", "room"} /\ e.id \in Ids /\ e.no \in Owners
BY DEF Events

-----------------------------------------------------------------------------
(* Each part of the invariant is kept.                                     *)

\* Every action of the host, the server and the frame keeps the types.
LEMMA TypeStep ==
    ASSUME TypeOK, [Next]_vars
    PROVE  TypeOK'
<1> USE DEF TypeOK, FrameType, NodeType, ClientType, ObserverType
<1>1. CASE UNCHANGED vars
  BY <1>1 DEF vars, frameVars, nodeVars, clientVars
<1>2. ASSUME NEW n \in Nodes, Enter(n) PROVE TypeOK'
  <2>1. claimed' \subseteq Nodes /\ asked' \subseteq Ids
    <3>1. Claim(IF n \in Claiming /\ IsReady THEN {n} ELSE {})
      BY <1>2 DEF Enter
    <3> QED
      BY <3>1, ClaimType
  <2>2. touched' \subseteq Ids
    BY <1>2, TouchType, SceneConstants DEF Enter
  <2>3. FrameType' /\ ClientType' /\ session' = session /\ heard' = heard
    BY <1>2 DEF Enter, frameVars, clientVars
  <2>4. /\ objects' \in [Ids -> Nodes \cup {None}]
        /\ manager' \subseteq Nodes /\ hasTarget' \subseteq Nodes /\ armed' \subseteq Nodes
        /\ nodeOwner' \in [Nodes -> Owners]
    BY <1>2, SceneConstants DEF Enter
  <2> QED
    BY <2>1, <2>2, <2>3, <2>4
<1>3. ASSUME NEW n \in Nodes, Exit(n) PROVE TypeOK'
  <2>1. touched' \subseteq Ids
    BY <1>3, TouchType, SceneConstants DEF Exit
  <2> QED
    BY <1>3, <2>1, SceneConstants DEF Exit, frameVars
<1>4. ASSUME ResetClient, live' \in BOOLEAN, session' \in Nat, asked' \subseteq Ids
      PROVE  TypeOK'
  <2>1. touched' \subseteq Ids
    BY <1>4, TouchType DEF ResetClient
  <2>2. polled' \in BOOLEAN /\ fired' \in BOOLEAN
    BY <1>4, Zenon DEF ResetClient
  <2>3. /\ clientNo' \in Owners /\ owner' \in [Ids -> Owners] /\ posed' \subseteq Ids
        /\ inbox' \in Seq(Messages)
    BY <1>4, SceneConstants DEF ResetClient
  <2>4. FrameType' /\ NodeType' /\ heard' \in Nat
    BY <1>4 DEF ResetClient, frameVars, nodeVars
  <2> QED
    BY <1>4, <2>1, <2>2, <2>3, <2>4
<1>5. CASE ConnectToServer
  BY <1>4, <1>5 DEF ConnectToServer
<1>6. CASE DisconnectFromServer
  BY <1>4, <1>6 DEF DisconnectFromServer
<1>7. ASSUME NEW m \in Messages, Send(m) PROVE TypeOK'
  <2>1. inbox' \in Seq(Messages)
    BY <1>7, AppendProperties DEF Send
  <2> QED
    BY <1>7, <2>1 DEF Send, frameVars, nodeVars
<1>8. CASE SendMapping
  <2>1. PICK n \in Numbers : Send([kind |-> "mapping", no |-> n])
    BY <1>8 DEF SendMapping
  <2>2. [kind |-> "mapping", no |-> n] \in Messages
    BY DEF Messages
  <2> QED
    BY <1>7, <2>1, <2>2
<1>9. CASE SendOwner
  <2>1. PICK i \in Ids, o \in Owners, k \in {"owner", "room"} :
            Send([kind |-> k, id |-> i, no |-> o])
    BY <1>9 DEF SendOwner
  <2>2. [kind |-> k, id |-> i, no |-> o] \in Messages
    BY DEF Messages
  <2> QED
    BY <1>7, <2>1, <2>2
<1>10. CASE BeginFrame
  BY <1>10 DEF BeginFrame, nodeVars, Frames
<1>11. CASE PollMessage
  <2> DEFINE m == Head(inbox)
  <2>1. m \in Messages /\ inbox' \in Seq(Messages)
    BY <1>11, HeadTailProperties DEF PollMessage
  <2>2. /\ UNCHANGED <<frame, keys, applying, objects, nodeVars, live, polled,
                       fired, session, heard, asked, touched>>
    BY <1>11 DEF PollMessage
  <2>3. CASE m.kind = "mapping"
    <3>1. m.no \in Numbers
      BY <2>1, <2>3, MessageCases
    <3>2. /\ clientNo' = m.no /\ UNCHANGED <<owner, posed>>
          /\ events' = Append(events, [kind |-> "assigned", session |-> session])
      BY <1>11, <2>3 DEF PollMessage
    <3>3. events' \in Seq(Events)
      BY <3>2, EventRecord, AppendProperties
    <3> QED
      BY <2>1, <2>2, <3>1, <3>2, <3>3, SceneConstants DEF nodeVars
  <2>4. CASE m.kind # "mapping"
    <3>1. m.kind \in {"owner", "room"} /\ m.id \in Ids /\ m.no \in Owners
      BY <2>1, <2>4, MessageCases
    <3>2. /\ owner' = owner \/ owner' = [owner EXCEPT ![m.id] = m.no]
          /\ posed' = posed \/ posed' = posed \cup {m.id}
          /\ events' = events \/ events' = Append(events, Event(m))
          /\ clientNo' = clientNo
      BY <1>11, <2>4 DEF PollMessage
    <3>3. Event(m) \in Events
      BY <3>1 DEF Event, Events
    <3>4. events' \in Seq(Events)
      BY <3>2, <3>3, AppendProperties
    <3>5. owner' \in [Ids -> Owners] /\ posed' \subseteq Ids
      BY <3>1, <3>2
    <3> QED
      BY <2>1, <2>2, <3>2, <3>4, <3>5 DEF nodeVars
  <2> QED
    BY <2>3, <2>4
<1>12. CASE PollReturns
  <2>1. [kind |-> "ready", session |-> session] \in Events
    BY EventRecord
  <2>2. events' \in Seq(Events)
    BY <1>12, <2>1, AppendProperties DEF PollReturns
  <2>3. fired' \in BOOLEAN
    BY <1>12, Zenon DEF PollReturns, IsReady
  <2> QED
    BY <1>12, <2>2, <2>3 DEF PollReturns, nodeVars, Frames
<1>13. CASE EmitEvent
  <2> DEFINE e == Head(events)
  <2>1. e \in Events /\ events' \in Seq(Events)
    BY <1>13, HeadTailProperties DEF EmitEvent
  <2>2. /\ heard' = e.session /\ frame' = "handler"
        /\ UNCHANGED <<keys, applying, objects, clientVars, session, touched>>
    BY <1>13 DEF EmitEvent
  <2>3. heard' \in Nat
    BY <2>1, <2>2, EventCases
  <2>4. CASE e.kind = "ready"
    <3>1. /\ armed' = {} /\ manager' = manager /\ Claim(armed)
          /\ UNCHANGED <<nodeOwner, hasTarget>>
      BY <1>13, <2>4 DEF EmitEvent
    <3>2. claimed' \subseteq Nodes /\ asked' \subseteq Ids
      BY <3>1, ClaimType
    <3> QED
      BY <2>1, <2>2, <2>3, <3>1, <3>2 DEF clientVars, Frames
  <2>5. CASE e.kind # "ready"
    <3>1. /\ UNCHANGED <<manager, armed, claimed, asked>>
          /\ IF e.kind # "assigned" /\ objects[e.id] # None
             THEN Changed(objects[e.id], e.no)
             ELSE UNCHANGED <<nodeOwner, hasTarget>>
      BY <1>13, <2>5 DEF EmitEvent
    <3>2. nodeOwner' \in [Nodes -> Owners] /\ hasTarget' \subseteq Nodes
      <4>1. CASE e.kind # "assigned" /\ objects[e.id] # None
        <5>1. e.id \in Ids /\ e.no \in Owners
          BY <2>1, <2>5, <4>1, EventCases
        <5> QED
          BY <3>1, <4>1, <5>1, EntryType, ChangedType
      <4>2. CASE ~(e.kind # "assigned" /\ objects[e.id] # None)
        BY <3>1, <4>2
      <4> QED
        BY <4>1, <4>2
    <3> QED
      BY <2>1, <2>2, <2>3, <3>1, <3>2 DEF clientVars, Frames
  <2> QED
    BY <2>4, <2>5
<1>14. CASE HandlerReturns
  BY <1>14 DEF HandlerReturns, nodeVars, clientVars, Frames
<1>15. CASE BeginApply
  BY <1>15 DEF BeginApply, nodeVars, clientVars, Frames
<1>16. ASSUME NEW i \in Ids, ApplyOwner(i) PROVE TypeOK'
  <2>1. /\ keys' \subseteq Ids
        /\ UNCHANGED <<events, objects, manager, armed, claimed, clientVars, session,
                       heard, asked, touched>>
    BY <1>16 DEF ApplyOwner, VisitKeeps
  <2>2. CASE objects[i] = None
    BY <1>16, <2>1, <2>2 DEF ApplyOwner, clientVars
  <2>3. CASE objects[i] # None
    <3>1. TellOwner(i)
      BY <1>16, <2>3 DEF ApplyOwner
    <3>2. objects[i] \in Nodes /\ owner[i] \in Owners
      BY <2>3, EntryType
    <3>3. nodeOwner' \in [Nodes -> Owners] /\ hasTarget' \subseteq Nodes
      BY <3>1, <3>2, ChangedType DEF TellOwner
    <3>4. (i \in posed) \in BOOLEAN
      OBVIOUS
    <3>5. applying' \in Visits
      <4> DEFINE b == i \in posed
      <4>1. b \in BOOLEAN
        BY <3>4
      <4>2. applying' = [node |-> objects[i], owner |-> owner[i], posed |-> b]
        BY <3>1 DEF TellOwner
      <4> HIDE DEF b
      <4> QED
        BY <3>2, <4>1, <4>2, Zenon DEF Visits
    <3>6. frame' \in Frames
      BY <3>1 DEF TellOwner, Frames
    <3> QED
      BY <2>1, <3>3, <3>5, <3>6 DEF clientVars
  <2> QED
    BY <2>2, <2>3
<1>17. CASE ChangedReturns
  BY <1>17 DEF ChangedReturns, nodeVars, clientVars, Frames
<1>18. CASE ApplyTarget
  <2>1. applying.node \in Nodes
    BY <1>18 DEF ApplyTarget, Visits
  <2>2. hasTarget' \subseteq Nodes
    BY <1>18, <2>1 DEF ApplyTarget
  <2> QED
    BY <1>18, <2>2 DEF ApplyTarget, clientVars, Frames
<1>19. CASE EndFrame
  BY <1>19 DEF EndFrame, nodeVars, clientVars, Frames
<1> QED
  BY <1>1, <1>2, <1>3, <1>5, <1>6, <1>8, <1>9, <1>10, <1>11, <1>12, <1>13, <1>14,
     <1>15, <1>16, <1>17, <1>18, <1>19 DEF Next, FrameSteps

\* register_object and unregister_object are all that changes an entry.
LEMMA EntryStep ==
    ASSUME TypeOK, EntryInv, [Next]_vars
    PROVE  EntryInv'
<1>1. ASSUME NEW n \in Nodes, Enter(n) PROVE EntryInv'
  BY <1>1, SceneConstants DEF Enter, EntryInv, TypeOK, NodeType
<1>2. ASSUME NEW n \in Nodes, Exit(n) PROVE EntryInv'
  BY <1>2, SceneConstants DEF Exit, EntryInv, TypeOK, NodeType
<1>3. CASE UNCHANGED objects
  BY <1>3 DEF EntryInv
<1>4. CASE UNCHANGED vars
  BY <1>3, <1>4 DEF vars
<1>5. CASE ConnectToServer \/ DisconnectFromServer
  BY <1>3, <1>5 DEF ConnectToServer, DisconnectFromServer, ResetClient
<1>6. CASE SendMapping \/ SendOwner
  BY <1>3, <1>6 DEF SendMapping, SendOwner, Send
<1>7. CASE BeginFrame \/ PollMessage \/ PollReturns
  BY <1>3, <1>7 DEF BeginFrame, PollMessage, PollReturns
<1>8. CASE EmitEvent \/ HandlerReturns \/ BeginApply
  BY <1>3, <1>8 DEF EmitEvent, HandlerReturns, BeginApply
<1>9. CASE (\E i \in Ids : ApplyOwner(i)) \/ ChangedReturns \/ ApplyTarget \/ EndFrame
  BY <1>3, <1>9 DEF ApplyOwner, VisitKeeps, ChangedReturns, ApplyTarget, EndFrame
<1> QED
  BY <1>1, <1>2, <1>4, <1>5, <1>6, <1>7, <1>8, <1>9 DEF Next, FrameSteps

\* A visit starts with all registered ids and ends with none.
LEMMA KeysStep ==
    ASSUME TypeOK, KeysInv, [Next]_vars
    PROVE  KeysInv'
<1> USE DEF KeysInv
<1>1. CASE UNCHANGED <<frame, keys>>
  BY <1>1
<1>2. CASE UNCHANGED vars
  BY <1>1, <1>2 DEF vars, frameVars
<1>3. CASE \E n \in Nodes : Enter(n) \/ Exit(n)
  BY <1>1, <1>3 DEF Enter, Exit, frameVars
<1>4. CASE ConnectToServer \/ DisconnectFromServer
  BY <1>1, <1>4 DEF ConnectToServer, DisconnectFromServer, ResetClient, frameVars
<1>5. CASE SendMapping \/ SendOwner
  BY <1>1, <1>5 DEF SendMapping, SendOwner, Send, frameVars
<1>6. CASE PollMessage
  BY <1>1, <1>6 DEF PollMessage
<1>7. CASE BeginFrame \/ PollReturns \/ EmitEvent \/ HandlerReturns
  BY <1>7 DEF BeginFrame, PollReturns, EmitEvent, HandlerReturns
<1>8. CASE BeginApply
  BY <1>8 DEF BeginApply
<1>9. ASSUME NEW i \in Ids, ApplyOwner(i) PROVE KeysInv'
  BY <1>9 DEF ApplyOwner, TellOwner
<1>10. CASE ChangedReturns \/ ApplyTarget \/ EndFrame
  BY <1>10 DEF ChangedReturns, ApplyTarget, EndFrame
<1> QED
  BY <1>2, <1>3, <1>4, <1>5, <1>6, <1>7, <1>8, <1>9, <1>10 DEF Next, FrameSteps

\* Handlers touch what they change, a turn of the loop tells its own node only, and
\* owners change in poll() alone, which no visit overlaps.
LEMMA VisitStep ==
    ASSUME TypeOK, EntryInv, VisitInv, [Next]_vars
    PROVE  VisitInv'
<1> USE DEF VisitInv
<1>1. CASE UNCHANGED <<frame, keys, touched, objects, nodeOwner, owner>>
  BY <1>1
<1>2. CASE UNCHANGED vars
  BY <1>1, <1>2 DEF vars, frameVars, nodeVars, clientVars
<1>3. ASSUME NEW n \in Nodes, Enter(n) PROVE VisitInv'
  <2>1. CASE frame = "handler"
    BY <1>3, <2>1 DEF Enter, frameVars
  <2>2. CASE frame # "handler"
    <3>1. touched' = touched \cup {IdOf[n]}
      BY <1>3, <2>2, TouchRemembered DEF Enter
    <3>2. /\ objects' = [objects EXCEPT ![IdOf[n]] = n]
          /\ UNCHANGED <<frame, keys, nodeOwner, owner>>
      BY <1>3 DEF Enter, frameVars, clientVars
    <3> QED
      BY <3>1, <3>2 DEF TypeOK, NodeType
  <2> QED
    BY <2>1, <2>2
<1>4. ASSUME NEW n \in Nodes, Exit(n) PROVE VisitInv'
  <2>1. CASE frame = "handler"
    BY <1>4, <2>1 DEF Exit, frameVars
  <2>2. CASE frame # "handler"
    <3>1. touched' = touched \cup {IdOf[n]}
      BY <1>4, <2>2, TouchRemembered DEF Exit
    <3>2. /\ objects' = [objects EXCEPT ![IdOf[n]] = None]
          /\ owner' = [owner EXCEPT ![IdOf[n]] = 0]
          /\ UNCHANGED <<frame, keys, nodeOwner>>
      BY <1>4 DEF Exit, frameVars
    <3> QED
      BY <3>1, <3>2 DEF TypeOK, NodeType, ClientType
  <2> QED
    BY <2>1, <2>2
<1>5. ASSUME ResetClient PROVE VisitInv'
  <2>1. CASE frame = "handler"
    BY <1>5, <2>1 DEF ResetClient, frameVars
  <2>2. CASE frame # "handler"
    BY <1>5, <2>2, TouchRemembered DEF ResetClient
  <2> QED
    BY <2>1, <2>2
<1>6. CASE ConnectToServer \/ DisconnectFromServer
  BY <1>5, <1>6 DEF ConnectToServer, DisconnectFromServer
<1>7. CASE SendMapping \/ SendOwner
  BY <1>1, <1>7 DEF SendMapping, SendOwner, Send, frameVars, nodeVars
<1>8. CASE BeginFrame \/ PollMessage \/ PollReturns \/ EmitEvent \/ HandlerReturns
  BY <1>8 DEF BeginFrame, PollMessage, PollReturns, EmitEvent, HandlerReturns
<1>9. CASE BeginApply
  <2>1. keys' = {i \in Ids : objects[i] # None} /\ objects' = objects
    BY <1>9 DEF BeginApply
  <2> QED
    BY <2>1
<1>10. ASSUME NEW i \in Ids, ApplyOwner(i) PROVE VisitInv'
  <2>1. /\ frame = "apply" /\ keys' = keys \ {i}
        /\ UNCHANGED <<objects, owner, touched>>
    BY <1>10 DEF ApplyOwner, VisitKeeps, clientVars
  <2>2. CASE objects[i] = None
    BY <1>10, <2>1, <2>2 DEF ApplyOwner
  <2>3. CASE objects[i] # None
    <3>1. objects[i] \in Nodes /\ owner[i] \in Owners
      BY <2>3, EntryType DEF TypeOK, ClientType
    <3>2. Changed(objects[i], owner[i])
      BY <1>10, <2>3 DEF ApplyOwner, TellOwner
    <3>3. nodeOwner' = [nodeOwner EXCEPT ![objects[i]] = owner[i]]
      BY <3>2 DEF Changed
    <3>4. ASSUME NEW j \in Ids \ (keys' \cup touched'), objects'[j] # None
          PROVE  nodeOwner'[objects'[j]] = owner'[j]
      <4>1. CASE j = i
        BY <2>1, <3>1, <3>3, <4>1 DEF TypeOK, NodeType
      <4>2. CASE j # i
        <5>1. objects[j] \in Nodes /\ objects[j] # objects[i]
          BY <2>1, <2>3, <3>4, <4>2, EntryType DEF TypeOK, EntryInv
        <5>2. nodeOwner[objects[j]] = owner[j]
          BY <2>1, <3>4, <4>2
        <5> QED
          BY <2>1, <3>3, <5>1, <5>2 DEF TypeOK, NodeType
      <4> QED
        BY <4>1, <4>2
    <3> QED
      BY <3>4
  <2> QED
    BY <2>2, <2>3
<1>11. CASE ChangedReturns \/ ApplyTarget \/ EndFrame
  BY <1>11 DEF ChangedReturns, ApplyTarget, EndFrame, nodeVars, clientVars
<1> QED
  BY <1>2, <1>3, <1>4, <1>6, <1>7, <1>8, <1>9, <1>10, <1>11 DEF Next, FrameSteps

-----------------------------------------------------------------------------
(* The theorems.                                                           *)

\* Nothing is registered before the first frame.
LEMMA SceneInit == Init => SceneInv
<1> SUFFICES ASSUME Init PROVE SceneInv
  OBVIOUS
<1>1. live \in BOOLEAN /\ polled \in BOOLEAN /\ fired \in BOOLEAN
  BY Zenon DEF Init
<1>2. TypeOK
  BY <1>1, SceneConstants DEF Init, TypeOK, FrameType, NodeType, ClientType,
     ObserverType, Frames
<1> QED
  BY <1>2 DEF Init, SceneInv, EntryInv, KeysInv, VisitInv

\* The inductive invariant of the scene.
THEOREM SceneInvariant == Spec => []SceneInv
<1>1. SceneInv /\ [Next]_vars => SceneInv'
  BY TypeStep, EntryStep, KeysStep, VisitStep DEF SceneInv
<1> QED
  BY SceneInit, <1>1, PTL DEF Spec

\* For any nodes, ids and numbers: when _process has visited its nodes, each that
\* the host left alone knows the owner that the client knows, whatever handlers
\* did on the way (_process, _apply_remote_state).
THEOREM VisitAlwaysTells == Spec => []VisitTellsOwner
<1>1. SceneInv => VisitTellsOwner
  BY DEF SceneInv, VisitInv, KeysInv, VisitTellsOwner
<1> QED
  BY SceneInvariant, <1>1, PTL
=============================================================================
