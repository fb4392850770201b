----------------------------- MODULE ClientProofs -----------------------------
(***************************************************************************)
(* Proofs about the smaller parts of a client: who is in the room, module  *)
(* Presence, for any set of other devices, any length of the inbox and any *)
(* number of sessions and snapshots in flight; the own avatar, module      *)
(* LocalPose, for any poses, any heartbeat and any send rates of which one *)
(* is the slowest; what it needs before a session: a server, module        *)
(* Discovery, for any servers, interfaces and buffers, and an identity,    *)
(* module DeviceId, for ids of any size and any number of launches; and    *)
(* what a message makes of a value, module Codec, for any number, scale,   *)
(* rotation, flag byte and text.                                           *)
(***************************************************************************)
EXTENDS Presence, OwnPose, ServerSearch, OwnIdentity, Codec, SequenceTheorems,
        FiniteSetTheorems, WellFoundedInduction, TLAPS

-----------------------------------------------------------------------------
(* The inductive invariant.                                                *)

\* The mapping message that puts this device into the table gives its number, in
\* the same apply: there is no poll between the two.
NumberWithTable == Self \in known => local

PresenceInv == TypeOK /\ NumberWithTable /\ OwnNeverAnnounced

-----------------------------------------------------------------------------
(* Lemmas.                                                                 *)

\* A set of natural numbers has a least element.
LEMMA LeastNat ==
    ASSUME NEW T, T \subseteq Nat, T # {}
    PROVE  \E x \in T : \A y \in T : x <= y
<1> DEFINE R == OpToRel(<, Nat)
<1>1. IsWellFoundedOn(R, Nat)
  BY NatLessThanWellFounded
<1>2. \A x, y \in Nat : <<y, x>> \in R <=> y < x
  BY DEF OpToRel
<1> HIDE DEF R
<1>3. PICK x \in T : \A y \in T : ~(<<y, x>> \in R)
  BY <1>1, WFMin
<1>4. ASSUME NEW y \in T PROVE x <= y
  <2>1. x \in Nat /\ y \in Nat /\ ~(y < x)
    BY <1>2, <1>3
  <2> QED
    BY <2>1
<1> QED
  BY <1>4

\* A bounded set of natural numbers has a greatest element.
LEMMA GreatestBounded ==
    ASSUME NEW b \in Nat, NEW T, T \subseteq 0..b, T # {}
    PROVE  \E x \in T : \A y \in T : x >= y
<1> DEFINE U == {b - x : x \in T}
<1>a. ASSUME NEW x \in T PROVE b - x \in Nat
  <2>1. x \in 0..b
    OBVIOUS
  <2> QED
    BY <2>1
<1>1. U \subseteq Nat /\ U # {}
  BY <1>a, Zenon
<1>2. PICK u \in U : \A y \in U : u <= y
  BY <1>1, LeastNat
<1>3. PICK x \in T : u = b - x
  OBVIOUS
<1>4. ASSUME NEW y \in T PROVE x >= y
  <2>1. b - x <= b - y
    BY <1>2, <1>3
  <2>2. x \in 0..b /\ y \in 0..b
    OBVIOUS
  <2> QED
    BY <2>1, <2>2
<1> QED
  BY <1>4

\* An inbox that takes a message keeps its limit.
LEMMA ReceivedType ==
    ASSUME TypeOK, NEW m \in (SUBSET Devices) \cup {None}, Receive(m)
    PROVE  /\ inbox' \in Seq((SUBSET Devices) \cup {None}) /\ Len(inbox') <= InboxMax
           /\ lost' \in BOOLEAN
<1> DEFINE M == (SUBSET Devices) \cup {None}
<1>1. inbox \in Seq(M) /\ Len(inbox) <= InboxMax /\ InboxMax \in Nat
  BY InboxAssumption DEF TypeOK
<1> m \in M
  OBVIOUS
<1> HIDE DEF M
<1>2. /\ Append(inbox, m) \in Seq(M) /\ Append(inbox, m) # <<>>
      /\ Len(Append(inbox, m)) = Len(inbox) + 1
  BY <1>1, AppendProperties
<1>3. /\ Tail(Append(inbox, m)) \in Seq(M)
      /\ Len(Tail(Append(inbox, m))) = Len(inbox)
  BY <1>1, <1>2, HeadTailProperties
<1>4. inbox' \in Seq(M) /\ Len(inbox') <= InboxMax
  BY <1>1, <1>2, <1>3 DEF Receive
<1>5. lost' \in BOOLEAN
  BY Zenon DEF Receive
<1> QED
  BY <1>4, <1>5 DEF M

\* update_presence keeps who waits and who is announced apart, among the clients
\* of the snapshot, and never announces a device that is not in the table.
LEMMA UpdatePresence ==
    ASSUME PresenceInv, ProcessRoomPose
    PROVE  /\ remote' \subseteq Devices
           /\ waiting' \subseteq remote' /\ announced' \subseteq remote'
           /\ waiting' \cap announced' = {}
           /\ Self \notin announced'
<1>1. CASE room = None
  BY <1>1 DEF PresenceInv, TypeOK, OwnNeverAnnounced, ProcessRoomPose
<1>2. CASE room # None
  <2>1. room \subseteq Devices
    BY <1>2 DEF PresenceInv, TypeOK
  <2>2. waiting' = WaitingNow /\ announced' = AnnouncedNow /\ remote' = Alive
    BY <1>2 DEF ProcessRoomPose
  <2>3. Alive \subseteq Devices
    BY <2>1 DEF Alive
  <2>4. Self \notin Connected
    BY DEF Connected, Alive, PresenceInv, NumberWithTable
  <2>5. waiting \cap announced = {} /\ Self \notin announced
    BY DEF PresenceInv, TypeOK, OwnNeverAnnounced
  <2>6. WaitingNow \cap AnnouncedNow = {}
    BY <2>5 DEF WaitingNow, AnnouncedNow
  <2>7. WaitingNow \subseteq Alive /\ AnnouncedNow \subseteq Alive
    BY DEF WaitingNow, AnnouncedNow
  <2>8. Self \notin AnnouncedNow
    BY <2>4, <2>5 DEF AnnouncedNow
  <2> QED
    BY <2>2, <2>3, <2>6, <2>7, <2>8
<1> QED
  BY <1>1, <1>2

\* A table that lists this device comes with its number.
LEMMA Mappings ==
    ASSUME PresenceInv, ApplyMappings
    PROVE  /\ local' \in BOOLEAN /\ known' \subseteq Devices
           /\ NumberWithTable'
<1>1. local' \in BOOLEAN
  BY Zenon DEF ApplyMappings
<1>2. /\ inbox \in Seq((SUBSET Devices) \cup {None}) /\ known \subseteq Devices
      /\ NumberWithTable
  BY DEF PresenceInv, TypeOK
<1>3. CASE Mapped = {}
  <2>1. known' = known
    BY <1>3 DEF ApplyMappings
  <2>2. local => local'
    BY DEF ApplyMappings
  <2> QED
    BY <1>1, <1>2, <2>1, <2>2 DEF NumberWithTable
<1>4. CASE Mapped # {}
  <2>1. Mapped \subseteq 0..Len(inbox) /\ Len(inbox) \in Nat
    BY <1>2 DEF Mapped
  <2>2. \E x \in Mapped : \A y \in Mapped : x >= y
    BY <1>4, <2>1, GreatestBounded
  <2>3. Max(Mapped) \in Mapped
    BY <2>2 DEF Max
  <2>4. inbox[Max(Mapped)] \in SUBSET Devices
    <3>1. ASSUME NEW i \in Mapped PROVE inbox[i] \in SUBSET Devices
      <4>1. i \in DOMAIN inbox /\ inbox[i] # None
        BY DEF Mapped
      <4>2. inbox[i] \in (SUBSET Devices) \cup {None}
        BY <1>2, <4>1, ElementOfSeq
      <4> QED
        BY <4>1, <4>2
    <3> QED
      BY <2>3, <3>1
  <2>5. known' = inbox[Max(Mapped)]
    BY <1>4 DEF ApplyMappings
  <2>6. Self \in known' => local'
    BY <2>3, <2>5 DEF ApplyMappings
  <2> QED
    BY <1>1, <2>4, <2>5, <2>6 DEF NumberWithTable
<1> QED
  BY <1>3, <1>4

\* Every action keeps the invariant.
LEMMA PresenceStep ==
    ASSUME PresenceInv, [Next]_vars
    PROVE  PresenceInv'
<1> USE DEF tableVars, serverVars
<1>a. /\ local \in BOOLEAN /\ known \subseteq Devices /\ remote \subseteq Devices
      /\ waiting \subseteq remote /\ announced \subseteq remote
      /\ waiting \cap announced = {}
      /\ inbox \in Seq((SUBSET Devices) \cup {None}) /\ Len(inbox) <= InboxMax
      /\ room = None \/ room \in SUBSET Devices
      /\ session \in 1..MaxSessions
      /\ lost \in BOOLEAN /\ ctl \in Seq(SUBSET Devices)
      /\ sub \in Seq(SUBSET Devices) /\ Len(sub) <= MaxSub
      /\ members \subseteq Devices /\ posing \subseteq members
      /\ greeted \in BOOLEAN
      /\ TypeOK /\ NumberWithTable /\ OwnNeverAnnounced
  BY DEF PresenceInv, TypeOK
<1>b. InboxMax \in Nat /\ MaxSub \in Nat /\ MaxSessions \in Nat
  BY InboxAssumption, BoundsAssumption
<1>c. /\ <<>> \in Seq(SUBSET Devices) /\ <<>> \in Seq((SUBSET Devices) \cup {None})
      /\ Len(<<>>) = 0
  OBVIOUS
<1>1. ASSUME UNCHANGED tableVars PROVE NumberWithTable' /\ OwnNeverAnnounced'
  BY <1>1, <1>a DEF NumberWithTable, OwnNeverAnnounced
<1>2. CASE NewSession
  <2>1. session' \in 1..MaxSessions
    BY <1>2, <1>a, <1>b DEF NewSession
  <2>2. /\ local' = FALSE /\ known' = {} /\ waiting' = {} /\ announced' = {} /\ remote' = {}
        /\ inbox' = <<>> /\ room' = None /\ sub' = <<>> /\ greeted' = FALSE
        /\ ctl' = <<>> /\ lost' = FALSE
        /\ UNCHANGED <<members, posing>>
    BY <1>2 DEF NewSession
  <2>3. local' \in BOOLEAN /\ greeted' \in BOOLEAN /\ lost' \in BOOLEAN
    BY <2>2
  <2>4. /\ inbox' \in Seq((SUBSET Devices) \cup {None}) /\ Len(inbox') <= InboxMax
        /\ ctl' \in Seq(SUBSET Devices)
        /\ sub' \in Seq(SUBSET Devices) /\ Len(sub') <= MaxSub
    BY <1>b, <1>c, <2>2
  <2>5. TypeOK'
    BY <1>a, <2>1, <2>2, <2>3, <2>4 DEF TypeOK
  <2> QED
    BY <2>2, <2>5 DEF PresenceInv, NumberWithTable, OwnNeverAnnounced
<1>3. CASE Poll
  <2>1. /\ ProcessRoomPose /\ ApplyMappings
        /\ inbox' = <<>> /\ room' = None
        /\ UNCHANGED <<session, ctl, sub, members, posing, greeted>>
    BY <1>3 DEF Poll
  <2>2. /\ remote' \subseteq Devices
        /\ waiting' \subseteq remote' /\ announced' \subseteq remote'
        /\ waiting' \cap announced' = {}
        /\ Self \notin announced'
    BY <2>1, UpdatePresence
  <2>3. local' \in BOOLEAN /\ known' \subseteq Devices /\ NumberWithTable'
    BY <2>1, Mappings
  <2>4. lost' \in BOOLEAN
    BY <1>3, Zenon DEF Poll
  <2>5. TypeOK'
    BY <1>a, <1>b, <1>c, <2>1, <2>2, <2>3, <2>4 DEF TypeOK
  <2> QED
    BY <2>2, <2>3, <2>5 DEF PresenceInv, OwnNeverAnnounced
<1>4. CASE NetReceiveRoom
  <2>1. /\ sub # <<>> /\ room' = Head(sub) /\ sub' = Tail(sub)
        /\ UNCHANGED <<local, known, waiting, announced, remote, inbox, session,
                       lost, ctl, members, posing, greeted>>
    BY <1>4 DEF NetReceiveRoom
  <2>2. /\ Head(sub) \in SUBSET Devices /\ Tail(sub) \in Seq(SUBSET Devices)
        /\ Len(Tail(sub)) <= MaxSub
    BY <1>a, <1>b, <2>1, HeadTailProperties
  <2>3. TypeOK'
    BY <1>a, <2>1, <2>2 DEF TypeOK
  <2> QED
    BY <1>1, <2>1, <2>3 DEF PresenceInv
<1>5. ASSUME NEW m \in (SUBSET Devices) \cup {None}, Receive(m),
              ctl' \in Seq(SUBSET Devices),
              UNCHANGED <<local, known, waiting, announced, remote, room, session, sub,
                          members, posing, greeted>>
       PROVE  PresenceInv'
  <2>1. /\ inbox' \in Seq((SUBSET Devices) \cup {None}) /\ Len(inbox') <= InboxMax
        /\ lost' \in BOOLEAN
    BY <1>5, <1>a, ReceivedType
  <2>2. TypeOK'
    BY <1>5, <1>a, <2>1 DEF TypeOK
  <2> QED
    BY <1>1, <1>5, <2>2 DEF PresenceInv
<1>6. CASE NetReceiveMapping
  <2>1. /\ ctl # <<>> /\ Receive(Head(ctl)) /\ ctl' = Tail(ctl)
        /\ UNCHANGED <<local, known, waiting, announced, remote, room, session, sub,
                       members, posing, greeted>>
    BY <1>6 DEF NetReceiveMapping
  <2>2. Head(ctl) \in SUBSET Devices /\ Tail(ctl) \in Seq(SUBSET Devices)
    BY <1>a, <2>1, HeadTailProperties
  <2>3. Head(ctl) \in (SUBSET Devices) \cup {None} /\ ctl' \in Seq(SUBSET Devices)
    BY <2>1, <2>2
  <2> QED
    BY <1>5, <2>1, <2>3
<1>7. CASE NetReceiveOther
  <2>1. /\ Receive(None) /\ None \in (SUBSET Devices) \cup {None}
        /\ UNCHANGED <<local, known, waiting, announced, remote, room, session, sub,
                       ctl, members, posing, greeted>>
    BY <1>7 DEF NetReceiveOther
  <2> QED
    BY <1>5, <1>a, <2>1
<1>8. ASSUME members' \subseteq Devices, posing' \subseteq members',
             ctl' = ctl \/ ctl' = Append(ctl, members'), greeted' \in BOOLEAN,
             UNCHANGED <<local, known, waiting, announced, remote, inbox, room, session,
                         lost, sub>>
      PROVE  PresenceInv'
  <2>1. ctl' \in Seq(SUBSET Devices)
    <3>1. PICK m \in SUBSET Devices : m = members'
      BY <1>8
    <3> QED
      BY <1>8, <1>a, <3>1, AppendProperties
  <2>2. TypeOK'
    BY <1>8, <1>a, <2>1 DEF TypeOK
  <2> QED
    BY <1>1, <1>8, <2>2 DEF PresenceInv
<1>9. CASE ServerGreets
  <2>1. /\ members' = members \cup {Self} /\ greeted' = TRUE
        /\ ctl' = Append(ctl, members')
        /\ UNCHANGED <<local, known, waiting, announced, remote, inbox, room, session,
                       lost, sub, posing>>
    BY <1>9 DEF ServerGreets, Tell
  <2>2. members' \subseteq Devices /\ posing' \subseteq members'
    BY <1>a, <2>1 DEF Devices
  <2> QED
    BY <1>8, <2>1, <2>2
<1>10. ASSUME NEW d \in Others, ServerJoin(d) PROVE PresenceInv'
  <2>1. /\ members' = members \cup {d} /\ (ctl' = ctl \/ ctl' = Append(ctl, members'))
        /\ UNCHANGED <<local, known, waiting, announced, remote, inbox, room, session,
                       lost, sub, posing, greeted>>
    BY <1>10 DEF ServerJoin, Told, Tell
  <2>2. members' \subseteq Devices /\ posing' \subseteq members' /\ greeted' \in BOOLEAN
    BY <1>a, <2>1 DEF Devices
  <2> QED
    BY <1>8, <2>1, <2>2
<1>11. ASSUME NEW d \in Devices, ServerPose(d) PROVE PresenceInv'
  <2>1. /\ d \in members /\ posing' = posing \cup {d}
        /\ UNCHANGED <<local, known, waiting, announced, remote, inbox, room, session,
                       lost, ctl, sub, members, greeted>>
    BY <1>11 DEF ServerPose
  <2>2. members' \subseteq Devices /\ posing' \subseteq members' /\ greeted' \in BOOLEAN
    BY <1>a, <2>1
  <2> QED
    BY <1>8, <2>1, <2>2
<1>12. ASSUME NEW d \in Devices, ServerDrop(d) PROVE PresenceInv'
  <2>1. /\ members' = members \ {d} /\ posing' = posing \ {d}
        /\ ctl' = ctl \/ ctl' = Append(ctl, members')
        /\ UNCHANGED <<local, known, waiting, announced, remote, inbox, room, session,
                       lost, sub, greeted>>
    BY <1>12 DEF ServerDrop, Told, Tell
  <2>2. members' \subseteq Devices /\ posing' \subseteq members' /\ greeted' \in BOOLEAN
    BY <1>a, <2>1
  <2> QED
    BY <1>8, <2>1, <2>2
<1>13. CASE ServerBroadcasts
  <2>1. /\ Len(sub) < MaxSub /\ sub' = Append(sub, posing)
        /\ UNCHANGED <<local, known, waiting, announced, remote, inbox, room, session,
                       lost, ctl, members, posing, greeted>>
    BY <1>13 DEF ServerBroadcasts
  <2>2. posing \in SUBSET Devices
    BY <1>a
  <2>3. sub' \in Seq(SUBSET Devices) /\ Len(sub') <= MaxSub
    BY <1>a, <1>b, <2>1, <2>2, AppendProperties
  <2>4. TypeOK'
    BY <1>a, <2>1, <2>3 DEF TypeOK
  <2> QED
    BY <1>1, <2>1, <2>4 DEF PresenceInv
<1>14. CASE UNCHANGED vars
  <2>1. TypeOK'
    BY <1>14, <1>a DEF vars, TypeOK
  <2> QED
    BY <1>1, <1>14, <2>1 DEF vars, PresenceInv
<1> QED
  BY <1>2, <1>3, <1>4, <1>6, <1>7, <1>9, <1>10, <1>11, <1>12, <1>13, <1>14 DEF Next

-----------------------------------------------------------------------------
(* The theorems.                                                           *)

\* The inductive invariant holds in every reachable state.
THEOREM PresenceInvariant == Spec => []PresenceInv
<1>1. Init => PresenceInv
  <2> SUFFICES ASSUME Init PROVE PresenceInv
    OBVIOUS
  <2>1. /\ local = FALSE /\ known = {} /\ waiting = {} /\ announced = {} /\ remote = {}
        /\ inbox = <<>> /\ room = None /\ session = 1 /\ sub = <<>>
        /\ ctl = <<>> /\ lost = FALSE
        /\ members = {} /\ posing = {} /\ greeted = FALSE
    BY DEF Init
  <2>2. /\ inbox \in Seq((SUBSET Devices) \cup {None}) /\ Len(inbox) <= InboxMax
        /\ ctl \in Seq(SUBSET Devices)
        /\ sub \in Seq(SUBSET Devices) /\ Len(sub) <= MaxSub /\ session \in 1..MaxSessions
    BY <2>1, InboxAssumption, BoundsAssumption
  <2>3. local \in BOOLEAN /\ greeted \in BOOLEAN /\ lost \in BOOLEAN
    BY <2>1
  <2>4. TypeOK
    BY <2>1, <2>2, <2>3 DEF TypeOK
  <2> QED
    BY <2>1, <2>4 DEF PresenceInv, NumberWithTable, OwnNeverAnnounced
<1>2. PresenceInv /\ [Next]_vars => PresenceInv'
  BY PresenceStep
<1> QED
  BY <1>1, <1>2, PTL DEF Spec

\* DeviceMapping's tables keep their types: a client waits or is announced, never
\* both, and only while its pose is there to be asked for.
THEOREM PresenceTypeCorrect == Spec => []TypeOK
<1>1. PresenceInv => TypeOK
  BY DEF PresenceInv
<1> QED
  BY <1>1, PresenceInvariant, PTL

\* update_presence never announces this client's own avatar, in whatever order
\* mappings and snapshots arrive, are overwritten or are dropped by a full inbox.
THEOREM OwnAvatarNeverAnnounced == Spec => []OwnNeverAnnounced
<1>1. PresenceInv => OwnNeverAnnounced
  BY DEF PresenceInv
<1> QED
  BY <1>1, PresenceInvariant, PTL

-----------------------------------------------------------------------------
(* The local pose.                                                         *)

\* The ages of the two time stamps bound how long the pose to send has been another
\* one and how long nothing was handed over; and the change detection compares with
\* what was handed over last.
LocalInv ==
    /\ interval \in Intervals
    /\ sinceSend \in 0..Local!Cap /\ sinceSent \in 0..Local!Cap
    /\ late \in Nat /\ silent \in Nat
    /\ signature # NoPose => handed = signature
    /\ late <= sinceSend
    /\ silent <= sinceSent
    /\ silent < sinceSend + Heartbeat
    /\ Local!PoseNeverStale /\ Local!HeartbeatKept

\* The slowest rate is one the host may set, and no other is slower.
LEMMA SlowestInterval ==
    /\ Local!Slowest \in Nat \ {0} /\ \A i \in Intervals : i <= Local!Slowest
    /\ Heartbeat \in Nat \ {0} /\ Intervals \subseteq Nat
    /\ Local!Cap = Heartbeat + 2 * Local!Slowest + 1 /\ Local!Cap \in Nat
<1>1. Local!Slowest \in Intervals /\ \A i \in Intervals : i <= Local!Slowest
  BY OwnPoseAssumption DEF Local!TimesAssumption, Local!Slowest
<1> QED
  BY <1>1, OwnPoseAssumption DEF Local!TimesAssumption, Local!Cap

\* A client that was not started has handed over nothing.
LEMMA LocalInit ==
    ASSUME Local!Init
    PROVE  LocalInv
  BY SlowestInterval DEF Local!Init, LocalInv, Local!PoseNeverStale, Local!HeartbeatKept

\* Every call and every frame keeps the bounds.
LEMMA LocalStep ==
    ASSUME LocalInv, [Local!Next]_(Local!vars)
    PROVE  LocalInv'
<1> USE SlowestInterval DEF Local!PoseNeverStale, Local!HeartbeatKept
<1>1. CASE UNCHANGED Local!vars
  BY <1>1 DEF LocalInv, Local!vars
<1>2. CASE Local!Connect
  BY <1>2 DEF LocalInv, Local!Connect, Local!Fresh
<1>3. CASE Local!TransportStarts
  BY <1>3 DEF LocalInv, Local!TransportStarts
<1>4. CASE Local!TransportFails
  BY <1>4 DEF LocalInv, Local!TransportFails
<1>5. CASE Local!SetTransformSendRate
  BY <1>5 DEF LocalInv, Local!SetTransformSendRate
<1>6. ASSUME NEW p \in Poses, Local!SetLocalPose(p) PROVE LocalInv'
  BY <1>6 DEF LocalInv, Local!SetLocalPose
<1>7. CASE Local!ClearLocalPose
  BY <1>7 DEF LocalInv, Local!ClearLocalPose
<1>8. CASE Local!Frame
  <2>1. interval' = interval /\ late' = IF Local!Live /\ handed' # Local!Body THEN late + 1 ELSE 0
    BY <1>8 DEF Local!Frame
  <2>2. CASE ~Local!Due(Local!Older(sinceSend)) /\ Local!NotDue
    BY <2>1, <2>2 DEF LocalInv, Local!Due, Local!NotDue, Local!Older, Local!StillSilent
  <2>3. CASE /\ Local!Due(Local!Older(sinceSend)) /\ Local!Quiet(Local!Older(sinceSent))
             /\ Local!StayQuiet
    BY <2>1, <2>3 DEF LocalInv, Local!Due, Local!Quiet, Local!StayQuiet, Local!Older,
                      Local!StillSilent, Local!Live
  <2>4. CASE Local!HandOver
    BY <2>1, <2>4 DEF LocalInv, Local!HandOver
  <2> QED
    BY <1>8, <2>2, <2>3, <2>4 DEF Local!Frame
<1> QED
  BY <1>1, <1>2, <1>3, <1>4, <1>5, <1>6, <1>7, <1>8 DEF Local!Next

\* The bounds hold in every state.
THEOREM LocalPoseInvariant ==
    Local!Spec => []LocalInv
<1>1. Local!Init => LocalInv
  BY LocalInit
<1>2. LocalInv /\ [Local!Next]_(Local!vars) => LocalInv'
  BY LocalStep
<1> QED
  BY <1>1, <1>2, PTL DEF Local!Spec

\* A pose that differs from what was handed over last, or that is set again after
\* clear_local_pose, is handed over within one send interval, for any set of rates.
THEOREM PoseAlwaysFresh ==
    Local!Spec => []PoseNeverStale
<1>1. LocalInv => PoseNeverStale
  BY DEF LocalInv, PoseNeverStale
<1> QED
  BY <1>1, LocalPoseInvariant, PTL

\* A connected client that has something to say is never silent for longer than the
\* heartbeat and one send interval, although quiet polls restart the throttle.
THEOREM HeartbeatAlwaysKept ==
    Local!Spec => []HeartbeatKept
<1>1. LocalInv => HeartbeatKept
  BY DEF LocalInv, HeartbeatKept
<1> QED
  BY <1>1, LocalPoseInvariant, PTL

-----------------------------------------------------------------------------
(* The device id file.                                                     *)

Ids == [id : Nat, pieces : 0..Size]

\* While the file is being replaced there is nothing it has to preserve: a launch
\* gets there only when it found no value, or could not read the one there is.
NothingToLose ==
    /\ idPc = "write" => unread \/ file = NoId \/ file.pieces = 0
    /\ idPc = "close" => established = NoId

IdentityInv ==
    /\ launches \in Nat
    /\ file = NoId \/ file \in Ids
    /\ idPc \in {"write", "close"} => generated \in Ids
    /\ idPc = "close" => file \in Ids
    /\ established # NoId => established.pieces \in 1..Size
    /\ NothingToLose
    /\ Identity!IdentitySurvives

\* Every step of a launch, and its death anywhere, keeps the established value.
LEMMA IdentityStep ==
    ASSUME IdentityInv, [Identity!Next]_(Identity!vars)
    PROVE  IdentityInv'
<1> USE DEF IdentityInv, NothingToLose, Identity!IdentitySurvives, Ids
<1>a. Size \in Nat \ {0}
  BY IdentityAssumption DEF Identity!SizeAssumption
<1>1. CASE UNCHANGED Identity!vars
  BY <1>1 DEF Identity!vars
<1>2. CASE Identity!Launch
  BY <1>2 DEF Identity!Launch
<1>3. CASE Identity!ReadValue
  BY <1>3 DEF Identity!ReadValue
<1>4. CASE Identity!ReadNothing
  <2>1. Identity!New \in Ids
    BY <1>a DEF Identity!New
  <2>2. /\ generated' = Identity!New /\ idPc' = "write"
        /\ UNCHANGED <<file, launches, established>>
    BY <1>4 DEF Identity!ReadNothing
  <2>3. CASE file # NoId /\ file.pieces > 0
    <3>1. unread'
      BY <1>4, <2>3 DEF Identity!ReadNothing
    <3> QED
      BY <2>1, <2>2, <3>1
  <2>4. CASE ~(file # NoId /\ file.pieces > 0)
    <3>1. file = NoId \/ file.pieces = 0
      BY <2>4, <1>a
    <3> QED
      BY <2>1, <2>2, <3>1
  <2> QED
    BY <2>3, <2>4
<1>5. CASE Identity!OpenFails
  BY <1>5 DEF Identity!OpenFails
<1>6. CASE Identity!OpenAndWrite
  BY <1>6, <1>a DEF Identity!OpenAndWrite
<1>7. CASE Identity!CloseAndReturn
  BY <1>7, <1>a DEF Identity!CloseAndReturn
<1>8. CASE Identity!Exit
  BY <1>8, <1>a DEF Identity!Exit
<1> QED
  BY <1>1, <1>2, <1>3, <1>4, <1>5, <1>6, <1>7, <1>8 DEF Identity!Next

\* A value that a launch has read, or has written completely, is what the file holds
\* from then on, wherever a later launch dies, for ids of any size
\* (load_or_create_device_id).
THEOREM IdentityAlwaysSurvives ==
    Identity!Spec => []IdentitySurvives
<1>1. Identity!Init => IdentityInv
  BY DEF Identity!Init, IdentityInv, NothingToLose, Identity!IdentitySurvives
<1>2. IdentityInv /\ [Identity!Next]_(Identity!vars) => IdentityInv'
  BY IdentityStep
<1>3. IdentityInv => IdentitySurvives
  BY DEF IdentityInv, IdentitySurvives
<1> QED
  BY <1>1, <1>2, <1>3, PTL DEF Identity!Spec

-----------------------------------------------------------------------------
(* Replies.                                                                *)

Words == STRING \cup {""}
Fields == [digits : Nat] \cup [text : Words, blanks : BOOLEAN]

\* What ServersAssumption says of one server.
WellFormed(s) ==
    s.version \in STRING /\ s.ports \in [1..4 -> Nat] /\ s.name \in Seq(STRING)

\* A reply that has lost at most the end of the name: n fields of it are there, the
\* last perhaps cut, perhaps followed by blanks.
Shaped(m, s) ==
    \E n \in 1..Len(s.name) :
        /\ m \in Seq(Fields) /\ Len(m) = n + 5
        /\ m[1] = Search!Text(s.version)
        /\ \A i \in 1..4 : m[i + 1] = Search!Digits(s.ports[i])
        /\ \A i \in 1..(n - 1) : m[i + 5] = Search!Text(s.name[i])
        /\ \E t \in {s.name[n], ""}, b \in BOOLEAN :
             m[n + 5] = [text |-> t, blanks |-> b]

\* What FoundIsGenuine asks of a server that was found.
Genuine(f) ==
    \E s \in Servers \cup ({Localhost} \ {NoServer}) :
        /\ Search!Compatible(s)
        /\ f.ip = s.ip
        /\ f.ports = s.ports
        /\ \E n \in 1..Len(s.name) : \E last \in {s.name[n], ""} :
             f.name = [i \in 1..n |-> Search!Text(IF i < n THEN s.name[i] ELSE last)]

\* A function on 1..n is a sequence.
LEMMA AsSequence ==
    ASSUME NEW S, NEW n \in Nat, NEW f \in [1..n -> S]
    PROVE  f \in Seq(S) /\ Len(f) = n
  OBVIOUS

\* A run of digits and a text are told apart.
LEMMA FieldKinds ==
    ASSUME NEW t \in Words, NEW b \in BOOLEAN, NEW d \in Nat
    PROVE  /\ ~Search!IsDigits([text |-> t, blanks |-> b])
           /\ [text |-> t, blanks |-> b] \in Fields
           /\ Search!IsDigits(Search!Digits(d)) /\ Search!Digits(d) \in Fields
           /\ Search!Digits(d).digits = d
           /\ Search!Text(t) = [text |-> t, blanks |-> FALSE] /\ Search!Text(t) \in Fields
           /\ ~Search!IsDigits(Search!Text(t))
<1>1. DOMAIN [text |-> t, blanks |-> b] = {"text", "blanks"}
  OBVIOUS
<1>2. DOMAIN [digits |-> d] = {"digits"}
  OBVIOUS
<1>3. /\ Search!Text(t) = [text |-> t, blanks |-> FALSE]
      /\ DOMAIN Search!Text(t) = {"text", "blanks"}
  BY DEF Search!Text
<1>4. /\ ~Search!IsDigits([text |-> t, blanks |-> b])
      /\ Search!IsDigits(Search!Digits(d)) /\ ~Search!IsDigits(Search!Text(t))
  BY <1>1, <1>2, <1>3 DEF Search!IsDigits, Search!Digits
<1>5. /\ [text |-> t, blanks |-> b] \in Fields /\ Search!Digits(d) \in Fields
      /\ Search!Digits(d).digits = d
  BY DEF Fields, Search!Digits
<1>6. Search!Text(t) \in Fields
  BY DEF Fields, Search!Text
<1> QED
  BY <1>3, <1>4, <1>5, <1>6

\* A server's version and name.
LEMMA ServerTexts ==
    ASSUME NEW s, WellFormed(s)
    PROVE  /\ s.version \in Words /\ \A i \in 1..4 : s.ports[i] \in Nat
           /\ Len(s.name) \in Nat /\ \A i \in 1..Len(s.name) : s.name[i] \in Words
<1>1. s.version \in STRING /\ s.ports \in [1..4 -> Nat] /\ s.name \in Seq(STRING)
  BY DEF WellFormed
<1>2. \A i \in 1..Len(s.name) : s.name[i] \in STRING
  BY <1>1, ElementOfSeq
<1>3. STRING \subseteq Words
  BY DEF Words
<1>4. Len(s.name) \in Nat /\ \A i \in 1..4 : s.ports[i] \in Nat
  BY <1>1
<1> QED
  BY <1>1, <1>2, <1>3, <1>4

\* The fields of a server's reply.
LEMMA ReplyFields ==
    ASSUME NEW s, WellFormed(s), NEW newline \in BOOLEAN
    PROVE  /\ Search!Reply(s, newline) \in Seq(Fields)
           /\ Len(Search!Reply(s, newline)) = 5 + Len(s.name)
           /\ Search!Reply(s, newline)[1] = Search!Text(s.version)
           /\ \A i \in 1..4 : Search!Reply(s, newline)[i + 1] = Search!Digits(s.ports[i])
           /\ \A i \in 1..Len(s.name) : Search!Reply(s, newline)[i + 5] =
                [text |-> s.name[i], blanks |-> newline /\ i = Len(s.name)]
<1> DEFINE A == <<Search!Text(s.version)>>
           B == [i \in 1..4 |-> Search!Digits(s.ports[i])]
           C == [i \in 1..Len(s.name) |->
                    [Search!Text(s.name[i]) EXCEPT !.blanks = newline /\ i = Len(s.name)]]
<1>1. /\ s.version \in Words /\ \A i \in 1..4 : s.ports[i] \in Nat
      /\ Len(s.name) \in Nat /\ \A i \in 1..Len(s.name) : s.name[i] \in Words
  BY ServerTexts
<1>2. A \in Seq(Fields) /\ Len(A) = 1 /\ A[1] = Search!Text(s.version)
  <2>1. Search!Text(s.version) \in Fields
    BY <1>1, FieldKinds
  <2> QED
    BY <2>1
<1>3. B \in Seq(Fields) /\ Len(B) = 4 /\ \A i \in 1..4 : B[i] = Search!Digits(s.ports[i])
  <2>1. \A i \in 1..4 : Search!Digits(s.ports[i]) \in Fields
    BY <1>1, FieldKinds
  <2> QED
    BY <2>1
<1>4. /\ C \in Seq(Fields) /\ Len(C) = Len(s.name)
      /\ \A i \in 1..Len(s.name) :
           C[i] = [text |-> s.name[i], blanks |-> newline /\ i = Len(s.name)]
  <2>1. \A i \in 1..Len(s.name) :
          [Search!Text(s.name[i]) EXCEPT !.blanks = newline /\ i = Len(s.name)]
            = [text |-> s.name[i], blanks |-> newline /\ i = Len(s.name)]
    BY <1>1 DEF Search!Text
  <2>2. \A i \in 1..Len(s.name) :
          [text |-> s.name[i], blanks |-> newline /\ i = Len(s.name)] \in Fields
    BY <1>1, FieldKinds
  <2>3. /\ DOMAIN C = 1..Len(s.name)
        /\ \A i \in 1..Len(s.name) :
             C[i] = [text |-> s.name[i], blanks |-> newline /\ i = Len(s.name)]
    BY <2>1
  <2> HIDE DEF C
  <2>4. \A i \in 1..Len(s.name) : C[i] \in Fields
    BY <2>2, <2>3
  <2>5. C \in [1..Len(s.name) -> Fields]
    BY <2>3, <2>4 DEF C
  <2> QED
    BY <1>1, <2>3, <2>5, AsSequence
<1>5. Search!Reply(s, newline) = (A \o B) \o C
  BY DEF Search!Reply
<1> HIDE DEF A, B, C
<1>6. /\ A \o B \in Seq(Fields) /\ Len(A \o B) = 5
      /\ (A \o B)[1] = A[1] /\ \A i \in 1..4 : (A \o B)[i + 1] = B[i]
  <2>0. A \in Seq(Fields) /\ B \in Seq(Fields)
    BY <1>2, <1>3
  <2>1. /\ A \o B \in Seq(Fields) /\ Len(A \o B) = Len(A) + Len(B)
        /\ \A i \in 1..Len(A) : (A \o B)[i] = A[i]
        /\ \A i \in 1..Len(B) : (A \o B)[i + Len(A)] = B[i]
    BY <2>0
  <2> QED
    BY <1>2, <1>3, <2>1
<1>7. /\ (A \o B) \o C \in Seq(Fields) /\ Len((A \o B) \o C) = 5 + Len(s.name)
      /\ \A i \in 1..5 : ((A \o B) \o C)[i] = (A \o B)[i]
      /\ \A i \in 1..Len(s.name) : ((A \o B) \o C)[i + 5] = C[i]
  <2> DEFINE D == A \o B
  <2>0. C \in Seq(Fields) /\ D \in Seq(Fields)
    BY <1>4, <1>6
  <2>1. D \in Seq(Fields) /\ Len(D) = 5
    BY <1>6
  <2> HIDE DEF D
  <2>2. /\ D \o C \in Seq(Fields) /\ Len(D \o C) = Len(D) + Len(C)
        /\ \A i \in 1..Len(D) : (D \o C)[i] = D[i]
        /\ \A i \in 1..Len(C) : (D \o C)[i + Len(D)] = C[i]
    BY <2>0
  <2>3. /\ D \o C \in Seq(Fields) /\ Len(D \o C) = 5 + Len(s.name)
        /\ \A i \in 1..5 : (D \o C)[i] = D[i]
        /\ \A i \in 1..Len(s.name) : (D \o C)[i + 5] = C[i]
    BY <1>4, <2>1, <2>2
  <2> QED
    BY <2>3 DEF D
<1>8. /\ ((A \o B) \o C)[1] = Search!Text(s.version)
      /\ \A i \in 1..4 : ((A \o B) \o C)[i + 1] = Search!Digits(s.ports[i])
  <2>1. 1 \in 1..5 /\ \A i \in 1..4 : i + 1 \in 1..5
    OBVIOUS
  <2> QED
    BY <1>2, <1>3, <1>6, <1>7, <2>1
<1> QED
  BY <1>4, <1>5, <1>7, <1>8

\* A whole reply with a name has that shape.
LEMMA ReplyShaped ==
    ASSUME NEW s, WellFormed(s), s.name # <<>>, NEW newline \in BOOLEAN
    PROVE  Shaped(Search!Reply(s, newline), s)
<1> DEFINE R == Search!Reply(s, newline)
           N == Len(s.name)
<1>1. N \in Nat \ {0} /\ \A i \in 1..N : s.name[i] \in Words
  <2>1. N # 0
    BY DEF WellFormed
  <2> QED
    BY <2>1, ServerTexts
<1>2. /\ R \in Seq(Fields) /\ Len(R) = N + 5
      /\ R[1] = Search!Text(s.version) /\ \A i \in 1..4 : R[i + 1] = Search!Digits(s.ports[i])
      /\ \A i \in 1..N : R[i + 5] = [text |-> s.name[i], blanks |-> newline /\ i = N]
  <2>1. Len(R) = 5 + N
    BY ReplyFields
  <2>2. Len(R) = N + 5
    <3> HIDE DEF R, N
    <3> QED
      BY <1>1, <2>1
  <2> QED
    BY <2>2, ReplyFields
<1> HIDE DEF R, N
<1>3. \A i \in 1..(N - 1) : R[i + 5] = Search!Text(s.name[i])
  <2> SUFFICES ASSUME NEW i \in 1..(N - 1) PROVE R[i + 5] = Search!Text(s.name[i])
    OBVIOUS
  <2>1. i \in 1..N /\ i # N
    BY <1>1
  <2>2. R[i + 5] = [text |-> s.name[i], blanks |-> FALSE]
    BY <1>2, <2>1
  <2> QED
    BY <2>2 DEF Search!Text
<1>4. R[N + 5] = [text |-> s.name[N], blanks |-> newline]
  BY <1>1, <1>2
<1>5. N \in 1..N /\ N = Len(s.name)
  BY <1>1 DEF N
<1> QED
  BY <1>2, <1>3, <1>4, <1>5 DEF Shaped, R

\* So has a cut one that reaches the name.
LEMMA CutShaped ==
    ASSUME NEW s, WellFormed(s), NEW newline \in BOOLEAN,
           NEW m \in Search!Cuts(Search!Reply(s, newline))
    PROVE  m \in Seq(Fields) /\ (Len(m) >= 6 => Shaped(m, s))
<1> DEFINE R == Search!Reply(s, newline)
           N == Len(s.name)
<1>1. N \in Nat /\ \A i \in 1..N : s.name[i] \in Words
  BY ServerTexts
<1>2. /\ R \in Seq(Fields) /\ Len(R) = 5 + N
      /\ R[1] = Search!Text(s.version) /\ \A i \in 1..4 : R[i + 1] = Search!Digits(s.ports[i])
      /\ \A i \in 1..N : R[i + 5] = [text |-> s.name[i], blanks |-> newline /\ i = N]
  BY ReplyFields
<1>a. PICK k \in DOMAIN R : \E f \in Search!CutField(R[k]) : m = SubSeq(R, 1, k - 1) \o <<f>>
  BY DEF Search!Cuts
<1>3. PICK f \in Search!CutField(R[k]) : m = SubSeq(R, 1, k - 1) \o <<f>>
  BY <1>a
<1> HIDE DEF R, N
<1>4. k \in 1..(5 + N) /\ k \in Nat /\ k - 1 \in Nat
  BY <1>1, <1>2
<1>5. f \in Fields
  <2>1. R[k] \in Fields
    BY <1>2, <1>4, ElementOfSeq
  <2>2. Search!Text("") \in Fields
    BY FieldKinds, "" \in Words, FALSE \in BOOLEAN, 0 \in Nat DEF Words
  <2>3. ASSUME Search!IsDigits(R[k]) PROVE Search!Digits(R[k].digits \div 10) \in Fields
    <3>1. R[k] \in [digits : Nat]
      BY <2>1, <2>3 DEF Fields, Search!IsDigits
    <3>2. R[k].digits \div 10 \in Nat
      BY <3>1
    <3> QED
      BY <3>2 DEF Search!Digits, Fields
  <2> QED
    BY <2>1, <2>2, <2>3 DEF Search!CutField
<1>6. m \in Seq(Fields) /\ Len(m) = k /\ m[k] = f /\ \A i \in 1..(k - 1) : m[i] = R[i]
  <2> DEFINE P == SubSeq(R, 1, k - 1)
  <2>1. /\ P \in Seq(Fields) /\ Len(P) = k - 1 /\ \A i \in 1..(k - 1) : P[i] = R[i]
    BY <1>1, <1>2, <1>4
  <2> HIDE DEF P
  <2>2. <<f>> \in Seq(Fields) /\ Len(<<f>>) = 1 /\ <<f>>[1] = f
    BY <1>5
  <2>3. m = P \o <<f>>
    BY <1>3 DEF P
  <2>4. /\ m \in Seq(Fields) /\ Len(m) = Len(P) + 1 /\ m[Len(P) + 1] = f
        /\ \A i \in 1..Len(P) : m[i] = P[i]
    BY <1>5, <2>1, <2>3
  <2> QED
    BY <1>4, <2>1, <2>4
<1>7. ASSUME k >= 6 PROVE Shaped(m, s)
  <2> DEFINE n == k - 5
  <2>1. n \in 1..N /\ n + 5 = k /\ n \in Nat
    BY <1>1, <1>4, <1>7
  <2>2. R[k] = [text |-> s.name[n], blanks |-> newline /\ n = N]
    BY <1>2, <2>1
  <2>3. ~Search!IsDigits(R[k])
    BY <1>1, <2>1, <2>2, FieldKinds, ZenonT(40)
  <2>4. f = R[k] \/ f = [text |-> "", blanks |-> FALSE]
    BY <2>3 DEF Search!CutField, Search!Text
  <2>5. \E t \in {s.name[n], ""}, b \in BOOLEAN : f = [text |-> t, blanks |-> b]
    BY <2>2, <2>4
  <2> HIDE DEF n
  <2>6. \A i \in 1..(n - 1) : m[i + 5] = Search!Text(s.name[i])
    <3> SUFFICES ASSUME NEW i \in 1..(n - 1) PROVE m[i + 5] = Search!Text(s.name[i])
      OBVIOUS
    <3>1. i \in 1..N /\ i # N /\ i + 5 \in 1..(k - 1)
      BY <1>1, <2>1
    <3>2. m[i + 5] = [text |-> s.name[i], blanks |-> FALSE]
      BY <1>2, <1>6, <3>1
    <3> QED
      BY <3>2 DEF Search!Text
  <2>7. m[1] = Search!Text(s.version) /\ \A i \in 1..4 : m[i + 1] = Search!Digits(s.ports[i])
    <3>1. 1 \in 1..(k - 1) /\ \A i \in 1..4 : i + 1 \in 1..(k - 1)
      BY <1>4, <1>7
    <3> QED
      BY <1>2, <1>6, <3>1
  <2>8. m \in Seq(Fields) /\ Len(m) = n + 5 /\ m[n + 5] = f
    BY <1>6, <2>1
  <2>9. n \in 1..Len(s.name)
    BY <2>1 DEF N
  <2> QED
    BY <2>5, <2>6, <2>7, <2>8, <2>9 DEF Shaped
<1> QED
  BY <1>6, <1>7

\* rstrip takes the blanks behind the last field and nothing else.
LEMMA Stripped ==
    ASSUME NEW m \in Seq(Fields)
    PROVE  /\ Search!rstrip(m) \in Seq({Search!rstrip(m)[i] : i \in 1..Len(m)})
           /\ Len(Search!rstrip(m)) = Len(m) /\ Len(m) \in Nat
           /\ \A i \in 1..(Len(m) - 1) : Search!rstrip(m)[i] = m[i]
           /\ Len(m) > 0 /\ ~Search!IsDigits(m[Len(m)]) =>
                Search!rstrip(m)[Len(m)] = [m[Len(m)] EXCEPT !.blanks = FALSE]
<1>1. DOMAIN m = 1..Len(m) /\ Len(m) \in Nat
  OBVIOUS
<1> DEFINE p == Search!rstrip(m)
           S == {p[i] : i \in 1..Len(m)}
<1>2. /\ p = [i \in 1..Len(m) |-> p[i]]
      /\ \A i \in 1..Len(m) : p[i] = IF Search!IsDigits(m[i]) \/ i < Len(m) THEN m[i]
                                     ELSE [m[i] EXCEPT !.blanks = FALSE]
  BY <1>1 DEF Search!rstrip
<1> HIDE DEF p
<1>3. p \in [1..Len(m) -> S]
  BY <1>2
<1>4. p \in Seq(S) /\ Len(p) = Len(m)
  BY <1>1, <1>3, AsSequence
<1>5. \A i \in 1..(Len(m) - 1) : p[i] = m[i]
  BY <1>1, <1>2
<1>6. Len(m) > 0 /\ ~Search!IsDigits(m[Len(m)]) =>
        p[Len(m)] = [m[Len(m)] EXCEPT !.blanks = FALSE]
  <2> SUFFICES ASSUME Len(m) > 0, ~Search!IsDigits(m[Len(m)])
               PROVE  p[Len(m)] = [m[Len(m)] EXCEPT !.blanks = FALSE]
    OBVIOUS
  <2>1. Len(m) \in 1..Len(m) /\ ~(Len(m) < Len(m))
    BY <1>1
  <2> QED
    BY <1>2, <2>1, Zenon
<1> QED
  BY <1>1, <1>4, <1>5, <1>6 DEF p

\* A text with other blanks behind it.
LEMMA Reblanked ==
    ASSUME NEW t \in Words, NEW b \in BOOLEAN, NEW f, f = [text |-> t, blanks |-> b],
           NEW c \in BOOLEAN
    PROVE  [f EXCEPT !.blanks = c] = [text |-> t, blanks |-> c]
  OBVIOUS

\* A text without the blanks that followed it.
LEMMA Unblanked ==
    ASSUME NEW t \in Words, NEW b \in BOOLEAN, NEW f, f = [text |-> t, blanks |-> b]
    PROVE  [f EXCEPT !.blanks = FALSE] = Search!Text(t)
<1>1. FALSE \in BOOLEAN
  OBVIOUS
<1> QED
  BY <1>1, Reblanked, Zenon DEF Search!Text

\* The slice of a parsed reply that becomes the name.
LEMMA NameSlice ==
    ASSUME NEW u, NEW n \in Nat, n >= 1
    PROVE  /\ SubSeq(u, 6, n + 5) \in Seq({u[i] : i \in 6..(n + 5)})
           /\ Len(SubSeq(u, 6, n + 5)) = n
           /\ \A i \in 1..n : SubSeq(u, 6, n + 5)[i] = u[i + 5]
<1>1. \A i \in 6..(n + 5) : u[i] \in {u[j] : j \in 6..(n + 5)}
  OBVIOUS
<1> DEFINE S == {u[j] : j \in 6..(n + 5)}
<1> HIDE DEF S
<1>2. /\ 6 \in Int /\ n + 5 \in Int /\ \A i \in 6..(n + 5) : u[i] \in S
  BY <1>1 DEF S
<1>3. /\ SubSeq(u, 6, n + 5) \in Seq(S)
      /\ Len(SubSeq(u, 6, n + 5)) = IF 6 <= n + 5 THEN (n + 5) - 6 + 1 ELSE 0
      /\ \A i \in 1..((n + 5) - 6 + 1) : SubSeq(u, 6, n + 5)[i] = u[6 + i - 1]
  BY <1>2, SubSeqProperties
<1>4. \A i \in 1..n : 6 + i - 1 = i + 5
  OBVIOUS
<1>5. (n + 5) - 6 + 1 = n /\ 6 <= n + 5
  OBVIOUS
<1> QED
  BY <1>3, <1>4, <1>5 DEF S

\* What parse_discovery_response makes of a reply of that shape is what the server
\* advertises.
LEMMA ParsedGenuine ==
    ASSUME NEW s \in Servers \cup ({Localhost} \ {NoServer}), WellFormed(s),
           NEW m \in Seq(Fields), Len(m) >= 6 => Shaped(m, s),
           NEW r, r = Search!parse_discovery_response(m, s.ip), r # NoServer
    PROVE  Genuine(r)
<1> DEFINE p == Search!rstrip(m)
<1>1. /\ Len(p) >= 6 /\ p[1] = Search!Text(Search!Current)
      /\ \A i \in 2..5 : Search!parse_port(p[i])
      /\ r = [ip |-> s.ip, ports |-> [i \in 1..4 |-> p[i + 1].digits],
              name |-> SubSeq(p, 6, Len(p))]
  BY DEF Search!parse_discovery_response
<1>2. Len(p) = Len(m) /\ Len(m) \in Nat /\ \A i \in 1..(Len(m) - 1) : p[i] = m[i]
  BY Stripped
<1>3. Len(m) >= 6
  BY <1>1, <1>2
<1>4. PICK n \in 1..Len(s.name) :
        /\ Len(m) = n + 5
        /\ m[1] = Search!Text(s.version)
        /\ \A i \in 1..4 : m[i + 1] = Search!Digits(s.ports[i])
        /\ \A i \in 1..(n - 1) : m[i + 5] = Search!Text(s.name[i])
        /\ \E t \in {s.name[n], ""}, b \in BOOLEAN : m[n + 5] = [text |-> t, blanks |-> b]
  BY <1>3 DEF Shaped
<1>5. PICK t, b : /\ t \in {s.name[n], ""} /\ b \in BOOLEAN
                  /\ m[n + 5] = [text |-> t, blanks |-> b]
  BY <1>4
<1>6. n \in Nat /\ n >= 1 /\ t \in Words
  <2>1. s.name[n] \in Words /\ "" \in Words /\ Len(s.name) \in Nat
    BY ServerTexts DEF Words
  <2>2. t \in Words
    BY <1>5, <2>1, Zenon
  <2>3. ASSUME NEW N \in Nat, NEW j \in 1..N PROVE j \in Nat /\ j >= 1
    BY <2>3
  <2>4. n \in Nat /\ n >= 1
    BY <2>1, <2>3
  <2> QED
    BY <2>2, <2>4
<1>a. Len(m) = n + 5
  BY <1>4
<1>7. p[n + 5] = Search!Text(t)
  <2>1. ~Search!IsDigits(m[n + 5])
    BY <1>5, <1>6, FieldKinds
  <2>2. p[n + 5] = [m[n + 5] EXCEPT !.blanks = FALSE]
    <3>1. Len(m) > 0 /\ ~Search!IsDigits(m[Len(m)])
      BY <1>3, <1>a, <1>2, <2>1
    <3>2. p[Len(m)] = [m[Len(m)] EXCEPT !.blanks = FALSE]
      BY <3>1, Stripped
    <3> QED
      BY <1>a, <3>2
  <2> QED
    BY <1>5, <1>6, <2>2, Unblanked, Zenon
<1> HIDE DEF p
<1>8. s.version = Search!Current
  <2>1. 1 \in 1..(Len(m) - 1)
    BY <1>2, <1>3
  <2>2. Search!Text(s.version) = Search!Text(Search!Current)
    BY <1>1, <1>2, <1>4, <2>1
  <2>3. /\ Search!Text(s.version).text = s.version
        /\ Search!Text(Search!Current).text = Search!Current
    BY DEF Search!Text
  <2> QED
    BY <2>2, <2>3
<1>9. ASSUME NEW i \in 1..4
      PROVE  p[i + 1].digits = s.ports[i] /\ s.ports[i] <= 65535
  <2>1. i + 1 \in 1..(Len(m) - 1) /\ i + 1 \in 2..5
    BY <1>2, <1>3
  <2>2. p[i + 1] = Search!Digits(s.ports[i]) /\ Search!parse_port(p[i + 1])
    BY <1>1, <1>2, <1>4, <2>1
  <2>3. Search!Digits(s.ports[i]).digits = s.ports[i]
    BY DEF Search!Digits
  <2> QED
    BY <2>2, <2>3 DEF Search!parse_port
<1>10. Search!Compatible(s)
  BY <1>8, <1>9 DEF Search!Compatible
<1>11. r.ports = s.ports
  <2>1. s.ports = [i \in 1..4 |-> s.ports[i]]
    BY DEF WellFormed
  <2>2. r.ports = [i \in 1..4 |-> p[i + 1].digits]
    BY <1>1
  <2> QED
    BY <1>9, <2>1, <2>2
<1>12. \A i \in 1..n : p[i + 5] = Search!Text(IF i < n THEN s.name[i] ELSE t)
  <2> SUFFICES ASSUME NEW i \in 1..n
               PROVE  p[i + 5] = Search!Text(IF i < n THEN s.name[i] ELSE t)
    OBVIOUS
  <2>1. CASE i < n
    <3>1. i \in 1..(n - 1) /\ i + 5 \in 1..(Len(m) - 1)
      BY <1>6, <1>a, <2>1
    <3>2. p[i + 5] = m[i + 5]
      BY <1>2, <3>1
    <3>3. m[i + 5] = Search!Text(s.name[i])
      BY <1>4, <3>1
    <3> QED
      BY <2>1, <3>2, <3>3
  <2>2. CASE ~(i < n)
    <3>1. i = n
      BY <1>6, <2>2
    <3> QED
      BY <1>7, <3>1
  <2> QED
    BY <2>1, <2>2
<1>13. r.name = [i \in 1..n |-> Search!Text(IF i < n THEN s.name[i] ELSE t)]
  <2>1. r.name = SubSeq(p, 6, n + 5)
    BY <1>1, <1>2, <1>a
  <2>2. /\ SubSeq(p, 6, n + 5) \in Seq({p[i] : i \in 6..(n + 5)})
        /\ Len(SubSeq(p, 6, n + 5)) = n
        /\ \A i \in 1..n : SubSeq(p, 6, n + 5)[i] = p[i + 5]
    BY <1>6, NameSlice
  <2> DEFINE q == SubSeq(p, 6, n + 5)
  <2> HIDE DEF q
  <2>3. DOMAIN q = 1..n /\ q = [i \in DOMAIN q |-> q[i]]
    BY <2>2 DEF q
  <2>4. \A i \in 1..n : q[i] = Search!Text(IF i < n THEN s.name[i] ELSE t)
    BY <1>12, <2>2 DEF q
  <2>5. q = [i \in 1..n |-> Search!Text(IF i < n THEN s.name[i] ELSE t)]
    BY <2>3, <2>4
  <2> QED
    BY <2>1, <2>5 DEF q
<1>14. r.ip = s.ip
  BY <1>1
<1> QED
  BY <1>5, <1>10, <1>11, <1>13, <1>14 DEF Genuine

-----------------------------------------------------------------------------
(* The search.                                                             *)

Letters == {[ip |-> s.ip, message |-> Search!Reply(s, FALSE)] : s \in Servers}

\* What waits in a socket is a server's reply, whole; sockets are open on interfaces.
MailSent ==
    /\ mail \in [Search!Interfaces -> Seq(Letters)]
    /\ sockets \in Seq(Search!Interfaces)
    /\ next \in Nat \ {0}

\* The thread has not called on_found_ before it ends, and what it is about to report
\* is genuine.
ReportPending ==
    /\ pc \notin {"off", "done"} => callbacks = <<>>
    /\ pc \in {"remember", "announce"} => Genuine(found)

SearchInv ==
    /\ MailSent /\ ReportPending
    /\ callbacks = <<>> \/ \E f : Genuine(f) /\ callbacks = <<f>>

\* A reply without a name has five fields, and is refused.
LEMMA NamelessRefused ==
    ASSUME NEW s \in Servers, WellFormed(s), NEW r,
           r = Search!parse_discovery_response(Search!Reply(s, FALSE), s.ip), r # NoServer
    PROVE  Genuine(r)
<1>1. Search!Reply(s, FALSE) \in Seq(Fields) /\ Len(Search!Reply(s, FALSE)) = 5 + Len(s.name)
  BY ReplyFields
<1>2. ASSUME Len(Search!Reply(s, FALSE)) >= 6 PROVE s.name # <<>>
  <2>1. s.name = <<>> => Len(s.name) = 0
    OBVIOUS
  <2>2. ~(5 + 0 >= 6)
    OBVIOUS
  <2> QED
    BY <1>1, <1>2, <2>1, <2>2, Zenon
<1>3. Len(Search!Reply(s, FALSE)) >= 6 => Shaped(Search!Reply(s, FALSE), s)
  BY <1>2, ReplyShaped
<1> QED
  BY <1>1, <1>3, ParsedGenuine

\* What a probe reads is genuine, or nothing, wherever TCP cut the reply.
LEMMA ProbeGenuine ==
    ASSUME NEW s \in Servers \cup ({Localhost} \ {NoServer}), WellFormed(s),
           NEW r \in Search!Probed(s), r # NoServer
    PROVE  Genuine(r)
<1>1. PICK m \in Search!Cuts(Search!Reply(s, TRUE)) :
        r = Search!parse_discovery_response(m, s.ip)
  BY DEF Search!Probed
<1>2. m \in Seq(Fields) /\ (Len(m) >= 6 => Shaped(m, s))
  BY CutShaped
<1> QED
  BY <1>1, <1>2, ParsedGenuine

\* The instance counts as this module does.
LEMMA SameCount ==
    ASSUME NEW S
    PROVE  Search!Cardinality(S) = Cardinality(S)
  BY DEF Search!Cardinality, Cardinality, Search!IsFiniteSet, IsFiniteSet

\* The sockets of a round are open on interfaces.
LEMMA SocketsOpen ==
    ASSUME Search!OpenSockets
    PROVE  sockets' \in Seq(Search!Interfaces)
<1>1. PICK able \in SUBSET Search!Interfaces :
        LET bound == {i \in Search!enumerate_local_interfaces : Entries[i].address \in able}
        IN \/ /\ bound # {}
              /\ \E order \in Search!InOrder(bound) :
                   sockets' = [i \in 1..Cardinality(bound) |-> Entries[order[i]].address]
           \/ /\ bound = {}
              /\ sockets' = IF Search!Fallback \in able THEN <<Search!Fallback>> ELSE <<>>
  BY SameCount DEF Search!OpenSockets
<1> DEFINE bound == {i \in Search!enumerate_local_interfaces : Entries[i].address \in able}
<1>2. CASE bound # {}
  <2>1. PICK order \in Search!InOrder(bound) :
          sockets' = [i \in 1..Cardinality(bound) |-> Entries[order[i]].address]
    BY <1>1, <1>2
  <2>2. bound \subseteq 1..Len(Entries) /\ Len(Entries) \in Nat
        /\ \A i \in bound : Entries[i].address \in Search!Interfaces
    BY SearchAssumption DEF Search!enumerate_local_interfaces, Search!EntriesAssumption
  <2> HIDE DEF bound
  <2>3. IsFiniteSet(1..Len(Entries))
    BY <2>2, FS_Interval, 1 \in Int, Len(Entries) \in Int
  <2>4. Cardinality(bound) \in Nat
    BY <2>2, <2>3, FS_Subset, FS_CardinalityType
  <2>5. order \in [1..Cardinality(bound) -> bound]
    BY SameCount DEF Search!InOrder
  <2>6. sockets' \in [1..Cardinality(bound) -> Search!Interfaces]
    BY <2>1, <2>2, <2>5
  <2> QED
    BY <2>4, <2>6, AsSequence
<1>3. CASE bound = {}
  <2>1. Search!Fallback \in Search!Interfaces
    BY DEF Search!Interfaces
  <2>2. sockets' = <<Search!Fallback>> \/ sockets' = <<>>
    BY <1>1, <1>3
  <2>3. <<Search!Fallback>> \in Seq(Search!Interfaces) /\ <<>> \in Seq(Search!Interfaces)
    BY <2>1
  <2> QED
    BY <2>2, <2>3
<1> QED
  BY <1>2, <1>3

\* The buffer of the socket that is read next.
LEMMA NextMail ==
    ASSUME MailSent, next <= Len(sockets)
    PROVE  sockets[next] \in Search!Interfaces /\ mail[sockets[next]] \in Seq(Letters)
<1>1. sockets \in Seq(Search!Interfaces) /\ next \in 1..Len(sockets)
  BY DEF MailSent
<1>2. sockets[next] \in Search!Interfaces
  BY <1>1, ElementOfSeq
<1> QED
  BY <1>2 DEF MailSent

\* Every action keeps replies in the buffers.
LEMMA MailStep ==
    ASSUME MailSent, [Search!Next]_(Search!vars)
    PROVE  MailSent'
<1> USE DEF Search!thread, Search!history
<1>1. CASE UNCHANGED <<mail, sockets>> /\ next' \in {next, next + 1, 1}
  BY <1>1 DEF MailSent
<1>2. CASE Search!OpenSockets
  <2>1. sockets' \in Seq(Search!Interfaces)
    BY <1>2, SocketsOpen
  <2>2. Search!Empty \in [Search!Interfaces -> Seq(Letters)]
    BY DEF Search!Empty
  <2>3. mail' = Search!Empty /\ next' = next
    BY <1>2 DEF Search!OpenSockets
  <2> QED
    BY <2>1, <2>2, <2>3 DEF MailSent
<1>3. CASE Search!RecvReply
  <2>1. /\ mail[sockets[next]] # <<>> /\ UNCHANGED sockets
        /\ mail' = [mail EXCEPT ![sockets[next]] = Tail(mail[sockets[next]])]
        /\ next' \in {next, next + 1} /\ next <= Len(sockets)
    BY <1>3 DEF Search!RecvReply
  <2>2. Tail(mail[sockets[next]]) \in Seq(Letters)
    BY <2>1, NextMail
  <2>3. mail' \in [Search!Interfaces -> Seq(Letters)]
    BY <2>1, <2>2 DEF MailSent
  <2> QED
    BY <2>1, <2>3 DEF MailSent
<1>4. ASSUME NEW i \in Search!Interfaces, NEW s \in Servers, Search!ReplyArrives(i, s)
      PROVE  MailSent'
  <2> DEFINE letter == [ip |-> s.ip, message |-> Search!Reply(s, FALSE)]
  <2>1. letter \in Letters
    BY DEF Letters
  <2>2. mail' = [mail EXCEPT ![i] = Append(mail[i], letter)] /\ UNCHANGED <<sockets, next>>
    BY <1>4 DEF Search!ReplyArrives
  <2> HIDE DEF letter
  <2>3. Append(mail[i], letter) \in Seq(Letters)
    BY <2>1 DEF MailSent
  <2> QED
    BY <2>2, <2>3 DEF MailSent
<1> QED
  BY <1>1, <1>2, <1>3, <1>4
     DEF Search!Next, Search!vars, Search!ThreadNext, Search!Start, Search!Stop,
         Search!StopJoin, Search!ProbeLocal, Search!ProbeCached, Search!Broadcast,
         Search!RecvStopped, Search!RecvNothing, Search!Sleep, Search!ReportCache,
         Search!ReportFound

\* Every action that finds a server finds a genuine one.
LEMMA FoundStep ==
    ASSUME SearchInv, [Search!Next]_(Search!vars), pc' \in {"remember", "announce"}
    PROVE  Genuine(found')
<1> USE DEF Search!thread, Search!history
<1>a. \A s \in Servers \cup ({Localhost} \ {NoServer}) : WellFormed(s)
  BY SearchAssumption DEF Search!ServersAssumption, WellFormed
<1>1. CASE found' = found /\ pc \in {"remember", "announce"}
  BY <1>1 DEF SearchInv, ReportPending
<1>2. CASE Search!ProbeLocal
  <2>1. found' # NoServer /\ Localhost # NoServer /\ found' \in Search!Probed(Localhost)
    BY <1>2 DEF Search!ProbeLocal, Search!GoOn
  <2> QED
    BY <1>a, <2>1, ProbeGenuine
<1>3. CASE Search!ProbeCached
  <2>1. found' # NoServer /\ found' \in Search!ProbeOf(cache)
    BY <1>3 DEF Search!ProbeCached, Search!GoOn
  <2>2. PICK s \in Servers : found' \in Search!Probed(s)
    BY <2>1 DEF Search!ProbeOf
  <2> QED
    BY <1>a, <2>1, <2>2, ProbeGenuine
<1>4. CASE Search!RecvReply
  <2>1. /\ pc = "recv" /\ next <= Len(sockets) /\ mail[sockets[next]] # <<>>
        /\ found' = Search!parse_discovery_response(Head(mail[sockets[next]]).message,
                                             Head(mail[sockets[next]]).ip)
        /\ found' # NoServer
    BY <1>4 DEF Search!RecvReply
  <2>2. mail[sockets[next]] \in Seq(Letters)
    BY <2>1, NextMail DEF SearchInv
  <2>3. Head(mail[sockets[next]]) \in Letters
    BY <2>1, <2>2
  <2>4. PICK s \in Servers :
          Head(mail[sockets[next]]) = [ip |-> s.ip, message |-> Search!Reply(s, FALSE)]
    BY <2>3 DEF Letters
  <2>5. /\ Head(mail[sockets[next]]).message = Search!Reply(s, FALSE)
        /\ Head(mail[sockets[next]]).ip = s.ip
    <3>1. ASSUME NEW a, NEW b, NEW l, l = [ip |-> a, message |-> b]
          PROVE  l.message = b /\ l.ip = a
      BY <3>1
    <3> QED
      BY <2>4, <3>1, Zenon
  <2>6. found' = Search!parse_discovery_response(Search!Reply(s, FALSE), s.ip)
    BY <2>1, <2>5
  <2> QED
    BY <1>a, <2>1, <2>6, NamelessRefused
<1> QED
  BY <1>1, <1>2, <1>3, <1>4
     DEF Search!Next, Search!vars, Search!ThreadNext, Search!Start, Search!Stop,
         Search!StopJoin, Search!OpenSockets, Search!Broadcast, Search!RecvStopped,
         Search!RecvNothing, Search!Sleep, Search!ReportCache, Search!ReportFound,
         Search!ReplyArrives

\* on_found_ has run at most once, with something genuine.
LEMMA CallbackStep ==
    ASSUME SearchInv, [Search!Next]_(Search!vars)
    PROVE  /\ pc' \notin {"off", "done"} => callbacks' = <<>>
           /\ callbacks' = <<>> \/ \E f : Genuine(f) /\ callbacks' = <<f>>
<1> USE DEF Search!thread, Search!history
<1>1. CASE Search!ReportFound
  <2>1. pc' = "done" /\ callbacks = <<>> /\ callbacks' = Append(callbacks, found)
    BY <1>1 DEF Search!ReportFound, SearchInv, ReportPending
  <2>2. Genuine(found)
    BY <1>1 DEF Search!ReportFound, SearchInv, ReportPending
  <2>3. callbacks' = <<found>>
    BY <2>1
  <2> QED
    BY <2>1, <2>2, <2>3
<1>2. CASE callbacks' = <<>>
  BY <1>2
<1>3. CASE callbacks' = callbacks /\ (pc \in {"off", "done"} => pc' \in {"off", "done"})
  <2>1. pc' \notin {"off", "done"} => callbacks' = <<>>
    BY <1>3 DEF SearchInv, ReportPending
  <2> QED
    BY <1>3, <2>1 DEF SearchInv
<1> QED
  BY <1>1, <1>2, <1>3
     DEF Search!Next, Search!vars, Search!ThreadNext, Search!Start, Search!Stop,
         Search!StopJoin, Search!ProbeLocal, Search!ProbeCached, Search!OpenSockets,
         Search!Broadcast, Search!RecvStopped, Search!RecvNothing, Search!RecvReply,
         Search!Sleep, Search!ReportCache, Search!ReplyArrives

\* The invariant of the search.
THEOREM SearchInvariant ==
    Search!Spec => []SearchInv
<1>1. Search!Init => SearchInv
  <2>1. ASSUME Search!Init PROVE MailSent
    <3>1. Search!Empty \in [Search!Interfaces -> Seq(Letters)]
      BY DEF Search!Empty
    <3> QED
      BY <2>1, <3>1 DEF Search!Init, MailSent
  <2> QED
    BY <2>1 DEF Search!Init, SearchInv, ReportPending
<1>2. SearchInv /\ [Search!Next]_(Search!vars) => SearchInv'
  <2> SUFFICES ASSUME SearchInv, [Search!Next]_(Search!vars) PROVE SearchInv'
    OBVIOUS
  <2>1. MailSent'
    BY MailStep DEF SearchInv
  <2>2. ReportPending'
    <3>1. pc' \in {"remember", "announce"} => Genuine(found')
      BY FoundStep
    <3>2. (pc \notin {"off", "done"} => callbacks = <<>>)'
      BY CallbackStep
    <3>3. Genuine(found') <=> Genuine(found)'
      BY DEF Genuine, Search!Compatible
    <3> QED
      BY <3>1, <3>2, <3>3 DEF ReportPending
  <2>3. (callbacks = <<>> \/ \E f : Genuine(f) /\ callbacks = <<f>>)'
    <3>1. callbacks' = <<>> \/ \E f : Genuine(f) /\ callbacks' = <<f>>
      BY CallbackStep
    <3>2. \A f : Genuine(f) <=> Genuine(f)'
      BY DEF Genuine, Search!Compatible
    <3> QED
      BY <3>1, <3>2
  <2> QED
    BY <2>1, <2>2, <2>3 DEF SearchInv
<1> QED
  BY <1>1, <1>2, PTL DEF Search!Spec

\* on_found_ runs at most once for a start(), with what a current server advertises
\* at that address, however its reply was cut, delayed or mixed with others'.
THEOREM FoundAlwaysGenuine ==
    Search!Spec => []FoundIsGenuine
<1>1. SearchInv => FoundIsGenuine
  <2> SUFFICES ASSUME SearchInv PROVE Len(callbacks) <= 1 /\ \A f \in Search!Found : Genuine(f)
    BY DEF FoundIsGenuine, Search!FoundIsGenuine, Genuine
  <2>1. CASE callbacks = <<>>
    BY <2>1 DEF Search!Found
  <2>2. CASE \E f : Genuine(f) /\ callbacks = <<f>>
    BY <2>2 DEF Search!Found
  <2> QED
    BY <2>1, <2>2 DEF SearchInv
<1> QED
  BY <1>1, SearchInvariant, PTL

-----------------------------------------------------------------------------
(* The codec: numbers.                                                     *)

\* std::max of two numbers.
LEMMA MaxOfTwo ==
    ASSUME NEW a \in Int, NEW b \in Int
    PROVE  Max({a, b}) = IF a >= b THEN a ELSE b
<1> DEFINE m == IF a >= b THEN a ELSE b
<1>1. m \in {a, b} /\ \A y \in {a, b} : m >= y
  OBVIOUS
<1>2. \A x \in {a, b} : (\A y \in {a, b} : x >= y) => x = m
  OBVIOUS
<1> HIDE DEF m
<1>3. Max({a, b}) = m
  BY <1>1, <1>2 DEF Max
<1> QED
  BY <1>3 DEF m

\* std::min of two numbers.
LEMMA MinOfTwo ==
    ASSUME NEW a \in Int, NEW b \in Int
    PROVE  Min({a, b}) = IF a <= b THEN a ELSE b
<1> DEFINE m == IF a <= b THEN a ELSE b
<1>1. m \in {a, b} /\ \A y \in {a, b} : m <= y
  OBVIOUS
<1>2. \A x \in {a, b} : (\A y \in {a, b} : x <= y) => x = m
  OBVIOUS
<1> HIDE DEF m
<1>3. Min({a, b}) = m
  BY <1>1, <1>2 DEF Min
<1> QED
  BY <1>3 DEF m

\* Division with remainder.
LEMMA Division ==
    ASSUME NEW v \in Int, NEW s \in Nat \ {0}
    PROVE  /\ v \div s \in Int /\ v % s \in Nat
           /\ v = s * (v \div s) + (v % s) /\ v % s < s
<1>1. v \div s \in Int
  OBVIOUS
<1>2. v % s \in 0..(s - 1)
  OBVIOUS
<1>3. v = s * (v \div s) + (v % s)
  OBVIOUS
<1>4. v % s \in Nat /\ v % s < s
  BY <1>2
<1> QED
  BY <1>1, <1>3, <1>4, Zenon

\* r is v / s rounded to the nearest whole number, to the even one on a tie.
RoundedTo(v, s, r) ==
    /\ r \in Int
    /\ 2 * (r * s - v) <= s /\ 2 * (v - r * s) <= s
    /\ 2 * (r * s - v) = s \/ 2 * (v - r * s) = s => r % 2 = 0

\* round_half_to_even rounds to the nearest, and to the even one on a tie.
LEMMA Rounded ==
    ASSUME NEW v \in Int, NEW s \in Nat \ {0}
    PROVE  RoundedTo(v, s, round_half_to_even(v, s))
<1> DEFINE l == v \div s
           t == v % s
           r == round_half_to_even(v, s)
<1>1. l \in Int /\ t \in Nat /\ v = s * l + t /\ t < s
  BY Division
<1>2. r = IF 2 * t > s \/ (2 * t = s /\ l % 2 = 1) THEN l + 1 ELSE l
  BY DEF round_half_to_even
<1> HIDE DEF l, t, r
<1>3. PICK k \in Int : k = l * s
  BY <1>1
<1>4. (l + 1) * s = k + s /\ s * l = k
  BY <1>1, <1>3
<1>5. ASSUME 2 * t > s \/ (2 * t = s /\ l % 2 = 1) PROVE RoundedTo(v, s, r)
  <2>1. r = l + 1 /\ r \in Int /\ r * s = k + s /\ v = k + t
    BY <1>1, <1>2, <1>4, <1>5
  <2>2. 2 * (r * s - v) = 2 * (s - t) /\ 2 * (v - r * s) = 2 * (t - s)
    BY <1>1, <1>3, <2>1
  <2>3. 2 * t = s => r % 2 = 0
    BY <1>1, <1>5, <2>1
  <2>4. 2 * (s - t) <= s /\ 2 * (t - s) <= s
    BY <1>1, <1>5
  <2>5. 2 * (s - t) = s \/ 2 * (t - s) = s => 2 * t = s
    BY <1>1
  <2> QED
    BY <2>1, <2>2, <2>3, <2>4, <2>5, Zenon DEF RoundedTo
<1>6. ASSUME ~(2 * t > s \/ (2 * t = s /\ l % 2 = 1)) PROVE RoundedTo(v, s, r)
  <2>1. r = l /\ r \in Int /\ r * s = k /\ v = k + t
    BY <1>1, <1>2, <1>3, <1>4, <1>6
  <2>2. 2 * (r * s - v) = -(2 * t) /\ 2 * (v - r * s) = 2 * t
    BY <1>1, <1>3, <2>1
  <2>3. 2 * t = s => r % 2 = 0
    BY <1>1, <1>6, <2>1
  <2>4. -(2 * t) <= s /\ 2 * t <= s
    BY <1>1, <1>6
  <2>5. -(2 * t) = s \/ 2 * t = s => 2 * t = s
    BY <1>1
  <2> QED
    BY <2>1, <2>2, <2>3, <2>4, <2>5, Zenon DEF RoundedTo
<1> QED
  BY <1>5, <1>6 DEF r

\* Multiples of a positive number.
LEMMA Multiples ==
    ASSUME NEW s \in Nat \ {0}
    PROVE  /\ \A a, b \in Int : a <= b => a * s <= b * s
           /\ \A a \in Int : a * s \in Int
           /\ \A a \in Int : (a * s) % s = 0
           /\ \A a \in Int : (a * s) \div s = a
           /\ \A a \in Int : (a + 1) * s = a * s + s
<1>1. ASSUME NEW a \in Int, NEW b \in Int, a <= b PROVE a * s <= b * s
  BY <1>1
<1>2. ASSUME NEW a \in Int PROVE a * s \in Int
  OBVIOUS
<1>3. ASSUME NEW a \in Int PROVE (a * s) % s = 0
  OBVIOUS
<1>4. ASSUME NEW a \in Int PROVE (a * s) \div s = a
  OBVIOUS
<1>5. ASSUME NEW a \in Int PROVE (a + 1) * s = a * s + s
  OBVIOUS
<1> QED
  BY <1>1, <1>2, <1>3, <1>4, <1>5, Zenon

\* The unsigned form of a number within the width gives it back.
LEMMA SignedBack ==
    ASSUME NEW max \in Nat, NEW n \in (-(max + 1))..max
    PROVE  SignExtend(Unsigned(n, max), max) = n
<1> DEFINE M == 2 * (max + 1)
<1>1. M \in Nat \ {0} /\ n \in Int /\ -M <= n /\ n < M
  OBVIOUS
<1>2. CASE n >= 0
  <2>1. n % M = n
    <3> HIDE DEF M
    <3> QED
      BY <1>1, <1>2
  <2> QED
    BY <1>2, <2>1 DEF SignExtend, Unsigned
<1>3. CASE n < 0
  <2>1. n % M = n + M
    <3> HIDE DEF M
    <3> QED
      BY <1>1, <1>3
  <2>2. n + M > max /\ (n + M) - M = n
    BY <1>3
  <2> QED
    BY <2>1, <2>2 DEF SignExtend, Unsigned
<1> QED
  BY <1>1, <1>2, <1>3

\* Clamping a rounded value does not take it further from the clamped one.
LEMMA ClampedNearest ==
    ASSUME NEW v \in Int, NEW s \in Nat \ {0}, NEW max \in Nat, NEW r, RoundedTo(v, s, r),
           NEW q, q = IF r > max THEN max ELSE IF r < -(max + 1) THEN -(max + 1) ELSE r
    PROVE  q \in (-(max + 1))..max /\ Nearest(v, q * s, s, max)
<1> DEFINE low == -(max + 1) * s
           high == max * s
           c == IF v > high THEN high ELSE IF v < low THEN low ELSE v
           error == 2 * Abs(q * s - c)
<1>1. /\ r \in Int /\ q \in Int /\ -(max + 1) \in Int /\ max \in Int
      /\ q \in (-(max + 1))..max
  BY DEF RoundedTo
<1>a. low = (-(max + 1)) * s
  OBVIOUS
<1>2. /\ low \in Int /\ high \in Int /\ low <= high /\ r * s \in Int /\ q * s \in Int
      /\ (q * s) % s = 0 /\ (q * s) \div s = q
  <2>1. (-(max + 1)) * s <= high
    BY <1>1, Multiples
  <2>2. /\ (-(max + 1)) * s \in Int /\ high \in Int /\ r * s \in Int /\ q * s \in Int
        /\ (q * s) % s = 0 /\ (q * s) \div s = q
    BY <1>1, Multiples, Zenon
  <2> QED
    BY <1>a, <2>1, <2>2, Zenon
<1>3. /\ 2 * (r * s - v) <= s /\ 2 * (v - r * s) <= s
      /\ 2 * (r * s - v) = s \/ 2 * (v - r * s) = s => r % 2 = 0
  BY DEF RoundedTo
<1>4. Max({low, Min({high, v})}) = c
  <2> HIDE DEF low, high
  <2>1. Min({high, v}) = IF high <= v THEN high ELSE v
    BY <1>2, MinOfTwo
  <2>2. Min({high, v}) \in Int
    BY <1>2, <2>1
  <2>3. Max({low, Min({high, v})}) = IF low >= Min({high, v}) THEN low ELSE Min({high, v})
    BY <1>2, <2>2, MaxOfTwo
  <2> QED
    BY <1>2, <2>1, <2>3
<1>5. r > max => q * s = high /\ v >= high
  <2> SUFFICES ASSUME r > max PROVE q * s = high /\ v >= high
    OBVIOUS
  <2>1. q = max
    BY <1>1
  <2>2. (max + 1) * s <= r * s /\ (max + 1) * s = high + s
    BY <1>1, Multiples
  <2> HIDE DEF high
  <2>3. v >= high
    BY <1>2, <1>3, <2>2
  <2> QED
    BY <2>1, <2>3 DEF high
<1>6. r < -(max + 1) => q * s = low /\ v <= low
  <2> SUFFICES ASSUME r < -(max + 1) PROVE q * s = low /\ v <= low
    OBVIOUS
  <2>1. q = -(max + 1)
    BY <1>1
  <2>2. r + 1 \in Int /\ r + 1 <= -(max + 1)
    BY <1>1
  <2>3. (r + 1) * s <= low /\ (r + 1) * s = r * s + s
    BY <1>1, <2>2, Multiples
  <2> HIDE DEF low
  <2>4. v <= low
    BY <1>2, <1>3, <2>3
  <2> QED
    BY <2>1, <2>4 DEF low
<1>7. ASSUME -(max + 1) <= r, r <= max
      PROVE  q = r /\ low <= r * s /\ r * s <= high
  BY <1>1, <1>7, Multiples
<1>8. ASSUME q * s = c PROVE error = 0
  BY <1>2, <1>8 DEF Abs
<1>9. ASSUME q * s # c PROVE q = r /\ c = v
  <2>1. -(max + 1) <= r /\ r <= max
    <3>1. CASE r > max
      BY <1>2, <1>5, <1>9, <3>1
    <3>2. CASE r < -(max + 1)
      BY <1>2, <1>6, <1>9, <3>2
    <3> QED
      BY <1>1, <3>1, <3>2
  <2>2. q = r /\ low <= r * s /\ r * s <= high
    BY <1>7, <2>1
  <2>3. ~(v > high)
    <3> SUFFICES ASSUME v > high PROVE FALSE
      OBVIOUS
    <3>1. c = high /\ r # max
      BY <1>9, <2>2
    <3>2. r + 1 \in Int /\ r + 1 <= max
      BY <1>1, <2>1, <3>1
    <3>3. (r + 1) * s <= high /\ (r + 1) * s = r * s + s
      BY <1>1, <3>2, Multiples
    <3> HIDE DEF high
    <3> QED
      BY <1>2, <1>3, <3>3
  <2>4. ~(v < low)
    <3> SUFFICES ASSUME v < low PROVE FALSE
      OBVIOUS
    <3>1. c = low /\ r # -(max + 1)
      BY <1>2, <1>9, <1>a, <2>2
    <3>2. -(max + 1) + 1 <= r /\ -(max + 1) + 1 \in Int
      BY <1>1, <2>1, <3>1
    <3>3. (-(max + 1) + 1) * s <= r * s /\ (-(max + 1) + 1) * s = low + s
      BY <1>1, <1>a, <3>2, Multiples
    <3> HIDE DEF low
    <3> QED
      BY <1>2, <1>3, <3>3
  <2> HIDE DEF low, high
  <2> QED
    BY <2>2, <2>3, <2>4
<1>10. error <= s /\ (error = s => q % 2 = 0)
  <2>1. CASE q * s = c
    <3>1. error = 0
      BY <1>8, <2>1
    <3>2. 0 <= s /\ 0 # s
      OBVIOUS
    <3> HIDE DEF error
    <3> QED
      BY <3>1, <3>2, Zenon
  <2>2. CASE q * s # c
    <3>1. error = 2 * Abs(r * s - v)
      BY <1>9, <2>2
    <3>2. error = 2 * (r * s - v) \/ error = 2 * (v - r * s)
      <4> DEFINE d == r * s - v
      <4>1. d \in Int /\ 2 * (-d) = 2 * (v - r * s)
        BY <1>2
      <4>2. error = 2 * Abs(d)
        BY <3>1
      <4> HIDE DEF d, error
      <4>3. Abs(d) = d \/ Abs(d) = -d
        BY <4>1 DEF Abs
      <4>4. error = 2 * d \/ error = 2 * (v - r * s)
        BY <4>1, <4>2, <4>3
      <4> QED
        BY <4>4 DEF d
    <3>3. q = r
      BY <1>9, <2>2
    <3> HIDE DEF error
    <3> QED
      BY <1>3, <3>2, <3>3
  <2> QED
    BY <2>1, <2>2
<1> QED
  <2> HIDE DEF c
  <2>1. error = 2 * Abs(q * s - Max({-(max + 1) * s, Min({max * s, v})}))
    BY <1>4
  <2> HIDE DEF error
  <2> QED
    BY <1>1, <1>2, <1>10, <2>1, Zenon DEF Nearest

\* What the receiver of a 16-bit and of a 24-bit number makes of v: quantised,
\* clamped again by write_i24, cut to the width, extended and scaled.
Carried16(v, s) ==
    dequantize_signed(SignExtend(Unsigned(quantize_signed(v, s), kInt16Max), kInt16Max), s)
Carried24(v, s) ==
    dequantize_signed(
        SignExtend(Unsigned(Max({kInt24Min, Min({kInt24Max, quantize_signed_int24(v, s)})}),
                            kInt24Max),
                   kInt24Max), s)

\* A number clamped to a range.
Clamped(r, min, max) == Max({min, Min({max, r})})

\* What clamping gives; clamping once more gives the same.
LEMMA ClampTwice ==
    ASSUME NEW r \in Int, NEW min \in Int, NEW max \in Int, min <= max
    PROVE  /\ Clamped(r, min, max) = IF r > max THEN max ELSE IF r < min THEN min ELSE r
           /\ Clamped(r, min, max) \in Int
           /\ Clamped(Clamped(r, min, max), min, max) = Clamped(r, min, max)
<1>1. \A x \in Int : /\ Clamped(x, min, max) = IF x > max THEN max ELSE IF x < min THEN min ELSE x
                     /\ Clamped(x, min, max) \in Int
  <2> SUFFICES ASSUME NEW x \in Int
               PROVE  /\ Clamped(x, min, max)
                            = IF x > max THEN max ELSE IF x < min THEN min ELSE x
                      /\ Clamped(x, min, max) \in Int
    OBVIOUS
  <2>1. Min({max, x}) = IF max <= x THEN max ELSE x
    BY MinOfTwo
  <2>2. Min({max, x}) \in Int
    BY <2>1
  <2>3. Clamped(x, min, max) = IF min >= Min({max, x}) THEN min ELSE Min({max, x})
    BY <2>2, MaxOfTwo DEF Clamped
  <2> QED
    BY <2>1, <2>3
<1>2. Clamped(r, min, max) >= min /\ Clamped(r, min, max) <= max
  BY <1>1
<1> QED
  BY <1>1, <1>2

\* The two widths.
LEMMA Widths ==
    /\ kInt16Max \in Nat /\ kInt16Min \in Int /\ kInt16Min = -(kInt16Max + 1)
    /\ kInt24Max \in Nat /\ kInt24Min \in Int /\ kInt24Min = -(kInt24Max + 1)
    /\ kInt16Min <= kInt16Max /\ kInt24Min <= kInt24Max
    /\ kInt16Max \in Int /\ kInt24Max \in Int
BY SMTT(40) DEF kInt16Max, kInt16Min, kInt24Max, kInt24Min

\* quantize_signed and quantize_signed_int24 round and clamp.
LEMMA QuantizeClamps ==
    ASSUME NEW v, NEW s
    PROVE  /\ quantize_signed(v, s) = Clamped(round_half_to_even(v, s), kInt16Min, kInt16Max)
           /\ quantize_signed_int24(v, s)
                = Clamped(round_half_to_even(v, s), kInt24Min, kInt24Max)
BY Zenon DEF quantize_signed, quantize_signed_int24, clamp_rounded, Clamped

\* The receiver's number is a whole number of units.
LEMMA CarriedType ==
    ASSUME NEW v \in Int, NEW s \in Nat \ {0}
    PROVE  Carried16(v, s) \in Int /\ Carried24(v, s) \in Int
<1>1. round_half_to_even(v, s) \in Int
  BY Rounded DEF RoundedTo
<1>2. quantize_signed(v, s) \in Int /\ quantize_signed_int24(v, s) \in Int
  BY <1>1, ClampTwice, QuantizeClamps, Widths
<1>3. Max({kInt24Min, Min({kInt24Max, quantize_signed_int24(v, s)})}) \in Int
  <2>1. Clamped(quantize_signed_int24(v, s), kInt24Min, kInt24Max) \in Int
    BY <1>2, ClampTwice, Widths
  <2> QED
    BY <2>1 DEF Clamped
<1>4. \A n \in Int, max \in Nat : SignExtend(Unsigned(n, max), max) \in Int
  <2> SUFFICES ASSUME NEW n \in Int, NEW max \in Nat
               PROVE  SignExtend(Unsigned(n, max), max) \in Int
    OBVIOUS
  <2>1. 2 * (max + 1) \in Nat \ {0}
    OBVIOUS
  <2>2. Unsigned(n, max) \in Int
    BY <2>1, Division DEF Unsigned
  <2> QED
    BY <2>2 DEF SignExtend
<1>5. kInt16Max \in Nat /\ kInt24Max \in Nat
  BY Widths
<1>6. \A n \in Int : dequantize_signed(n, s) \in Int
  BY DEF dequantize_signed
<1> QED
  BY <1>2, <1>3, <1>4, <1>5, <1>6 DEF Carried16, Carried24

\* A number within the width is not clamped.
LEMMA InRange ==
    ASSUME NEW v \in Int, NEW g, NEW s \in Nat, NEW max \in Nat, Nearest(v, g, s, max),
           -(max + 1) * s <= v, v <= max * s
    PROVE  2 * Abs(g - v) <= s
<1> DEFINE low == -(max + 1) * s
           high == max * s
<1>1. low \in Int /\ high \in Int
  OBVIOUS
<1> HIDE DEF low, high
<1>2. low <= v /\ v <= high
  BY DEF low, high
<1>3. Min({high, v}) = v
  BY <1>1, <1>2, MinOfTwo
<1>4. Max({low, v}) = v
  BY <1>1, <1>2, MaxOfTwo
<1>5. 2 * Abs(g - Max({low, Min({high, v})})) <= s
  BY Zenon DEF Nearest, low, high
<1> QED
  BY <1>3, <1>4, <1>5

\* For every value and every positive scale, so for every rational number: the
\* receiver gets the nearest step on the wire, the even one on a tie, and the last
\* one of the width when the value is out of range (round_half_to_even,
\* quantize_signed, quantize_signed_int24, write_i24, read_i24).
THEOREM NumbersCarried ==
    \A v \in Int, s \in Nat \ {0} :
        /\ Nearest(v, Carried16(v, s), s, kInt16Max)
        /\ Nearest(v, Carried24(v, s), s, kInt24Max)
<1> SUFFICES ASSUME NEW v \in Int, NEW s \in Nat \ {0}
             PROVE  /\ Nearest(v, Carried16(v, s), s, kInt16Max)
                    /\ Nearest(v, Carried24(v, s), s, kInt24Max)
  OBVIOUS
<1> DEFINE r == round_half_to_even(v, s)
<1>1. RoundedTo(v, s, r) /\ r \in Int
  BY Rounded DEF RoundedTo
<1>2. /\ kInt16Max \in Nat /\ kInt16Min \in Int /\ kInt16Min = -(kInt16Max + 1)
      /\ kInt24Max \in Nat /\ kInt24Min \in Int /\ kInt24Min = -(kInt24Max + 1)
      /\ kInt16Min <= kInt16Max /\ kInt24Min <= kInt24Max
  BY Widths
<1>3. /\ quantize_signed(v, s) = Clamped(r, kInt16Min, kInt16Max)
      /\ quantize_signed_int24(v, s) = Clamped(r, kInt24Min, kInt24Max)
  BY QuantizeClamps
<1> HIDE DEF r
<1>4. Nearest(v, Carried16(v, s), s, kInt16Max)
  <2> DEFINE q == quantize_signed(v, s)
  <2>1. q = IF r > kInt16Max THEN kInt16Max
            ELSE IF r < -(kInt16Max + 1) THEN -(kInt16Max + 1) ELSE r
    <3>a. r \in Int /\ kInt16Min \in Int /\ kInt16Max \in Int /\ kInt16Min <= kInt16Max
      BY <1>1, Widths
    <3>1. Clamped(r, kInt16Min, kInt16Max)
            = IF r > kInt16Max THEN kInt16Max ELSE IF r < kInt16Min THEN kInt16Min ELSE r
      BY <3>a, ClampTwice
    <3>2. kInt16Min = -(kInt16Max + 1) /\ q = Clamped(r, kInt16Min, kInt16Max)
      BY <1>2, <1>3
    <3> HIDE DEF q
    <3> QED
      BY <3>1, <3>2, Zenon
  <2>2. Carried16(v, s) = SignExtend(Unsigned(q, kInt16Max), kInt16Max) * s
    BY DEF Carried16, dequantize_signed
  <2> HIDE DEF q
  <2>3. q \in (-(kInt16Max + 1))..kInt16Max /\ Nearest(v, q * s, s, kInt16Max)
    BY <1>1, <1>2, <2>1, ClampedNearest
  <2>4. SignExtend(Unsigned(q, kInt16Max), kInt16Max) = q
    BY <1>2, <2>3, SignedBack
  <2> QED
    BY <2>2, <2>3, <2>4
<1>5. Nearest(v, Carried24(v, s), s, kInt24Max)
  <2> DEFINE q == quantize_signed_int24(v, s)
  <2>1. q = IF r > kInt24Max THEN kInt24Max
            ELSE IF r < -(kInt24Max + 1) THEN -(kInt24Max + 1) ELSE r
    <3>a. r \in Int /\ kInt24Min \in Int /\ kInt24Max \in Int /\ kInt24Min <= kInt24Max
      BY <1>1, Widths
    <3>1. Clamped(r, kInt24Min, kInt24Max)
            = IF r > kInt24Max THEN kInt24Max ELSE IF r < kInt24Min THEN kInt24Min ELSE r
      BY <3>a, ClampTwice
    <3>2. kInt24Min = -(kInt24Max + 1) /\ q = Clamped(r, kInt24Min, kInt24Max)
      BY <1>2, <1>3
    <3> HIDE DEF q
    <3> QED
      BY <3>1, <3>2, Zenon
  <2>2. Max({kInt24Min, Min({kInt24Max, q})}) = q
    <3>1. Clamped(q, kInt24Min, kInt24Max) = q
      BY <1>1, <1>2, <1>3, ClampTwice
    <3> QED
      BY <3>1 DEF Clamped
  <2>3. Carried24(v, s) = SignExtend(Unsigned(q, kInt24Max), kInt24Max) * s
    BY <2>2 DEF Carried24, dequantize_signed
  <2> HIDE DEF q
  <2>4. q \in (-(kInt24Max + 1))..kInt24Max /\ Nearest(v, q * s, s, kInt24Max)
    BY <1>1, <1>2, <2>1, ClampedNearest
  <2>5. SignExtend(Unsigned(q, kInt24Max), kInt24Max) = q
    BY <1>2, <2>4, SignedBack
  <2> QED
    BY <2>3, <2>4, <2>5
<1> QED
  BY <1>4, <1>5

\* A hand travels as its offset from the exact head and is put back on the quantised
\* one.  Relative to the head the receiver has it to the nearest fine step, and in
\* the room to half a coarse and half a fine step, wherever both are within their
\* widths (write_relative, read_pose_body).
THEOREM HandsKeepTheirPlace ==
    \A head, hand \in Int :
        LET h == Carried24(head, kAbsPosScale)
            g == h + Carried16(hand - head, kRelPosScale)
        IN  /\ Nearest(hand - head, g - h, kRelPosScale, kInt16Max)
            /\ /\ head \in (kInt24Min * kAbsPosScale)..(kInt24Max * kAbsPosScale)
               /\ hand - head \in (kInt16Min * kRelPosScale)..(kInt16Max * kRelPosScale)
               => 2 * Abs(g - hand) <= kAbsPosScale + kRelPosScale
<1> SUFFICES ASSUME NEW head \in Int, NEW hand \in Int
             PROVE  LET h == Carried24(head, kAbsPosScale)
                        g == h + Carried16(hand - head, kRelPosScale)
                    IN  /\ Nearest(hand - head, g - h, kRelPosScale, kInt16Max)
                        /\ /\ head \in (kInt24Min * kAbsPosScale)..(kInt24Max * kAbsPosScale)
                           /\ hand - head \in (kInt16Min * kRelPosScale)..(kInt16Max * kRelPosScale)
                           => 2 * Abs(g - hand) <= kAbsPosScale + kRelPosScale
  OBVIOUS
<1> DEFINE h == Carried24(head, kAbsPosScale)
           o == Carried16(hand - head, kRelPosScale)
           g == h + o
<1>1. /\ kAbsPosScale \in Nat \ {0} /\ kRelPosScale \in Nat \ {0} /\ hand - head \in Int
  BY DEF kAbsPosScale, kRelPosScale
<1>2. /\ Nearest(head, h, kAbsPosScale, kInt24Max)
      /\ Nearest(hand - head, o, kRelPosScale, kInt16Max)
  BY <1>1, NumbersCarried
<1>3. h \in Int /\ o \in Int
  BY CarriedType, <1>1
<1> HIDE DEF h, o
<1>4. g - h = o
  BY <1>3
<1>5. ASSUME /\ head \in (kInt24Min * kAbsPosScale)..(kInt24Max * kAbsPosScale)
             /\ hand - head \in (kInt16Min * kRelPosScale)..(kInt16Max * kRelPosScale)
      PROVE  2 * Abs(g - hand) <= kAbsPosScale + kRelPosScale
  <2>1. 2 * Abs(h - head) <= kAbsPosScale
    <3>1. -(kInt24Max + 1) * kAbsPosScale <= head /\ head <= kInt24Max * kAbsPosScale
      BY <1>5, Widths DEF kAbsPosScale
    <3>2. kInt24Max \in Nat /\ kAbsPosScale \in Nat /\ head \in Int
      BY <1>1, Widths
    <3>3. Nearest(head, h, kAbsPosScale, kInt24Max)
      BY <1>2
    <3> QED
      BY <3>1, <3>2, <3>3, InRange
  <2>2. 2 * Abs(o - (hand - head)) <= kRelPosScale
    <3>1. -(kInt16Max + 1) * kRelPosScale <= hand - head /\ hand - head <= kInt16Max * kRelPosScale
      BY <1>5, Widths DEF kRelPosScale
    <3>2. kInt16Max \in Nat /\ kRelPosScale \in Nat /\ hand - head \in Int
      BY <1>1, Widths
    <3>3. Nearest(hand - head, o, kRelPosScale, kInt16Max)
      BY <1>2
    <3> QED
      BY <3>1, <3>2, <3>3, InRange
  <2> QED
    BY <1>3, <2>1, <2>2 DEF Abs, kAbsPosScale, kRelPosScale
<1> QED
  BY <1>2, <1>4, <1>5 DEF h, o

-----------------------------------------------------------------------------
(* The codec: flags and rotations.                                         *)

\* Any flag byte: what the host asked for is cleaned once and for all, a stealth
\* client shows nothing, nothing that is relative to the head is announced without
\* the head, everything else is kept; and the encoding byte written beside it is
\* one that read_pose_body accepts (sanitize_pose_flags, compute_encoding_flags).
THEOREM FlagsAgree ==
    \A f \in 0..255 :
        LET c == sanitize_pose_flags(f)
        IN  /\ c \in 0..255 /\ sanitize_pose_flags(c) = c
            /\ Has(f, STEALTH) => c = STEALTH
            /\ Has(c, RIGHT_VALID) \/ Has(c, LEFT_VALID) \/ Has(c, VIRTUALS_VALID)
                    => Has(c, HEAD_VALID)
            /\ ~Has(f, STEALTH) =>
                    /\ Has(c, PHYSICAL_VALID) <=> Has(f, PHYSICAL_VALID)
                    /\ Has(c, HEAD_VALID) <=> Has(f, HEAD_VALID)
                    /\ Has(c, MOVING_FLOOR_LOCAL) <=> Has(f, MOVING_FLOOR_LOCAL)
                    /\ Has(f, HEAD_VALID) => c = f
            /\ Has(c, PHYSICAL_VALID) /\ ~Has(c, MOVING_FLOOR_LOCAL)
                    => Has(compute_encoding_flags(c), PHYSICAL_IS_XRORIGIN_DELTA)
BY SMTT(60)
   DEF sanitize_pose_flags, compute_encoding_flags, Has, STEALTH, PHYSICAL_VALID, HEAD_VALID,
   RIGHT_VALID, LEFT_VALID, VIRTUALS_VALID, MOVING_FLOOR_LOCAL, ENCODING_FLAGS_DEFAULT,
   PHYSICAL_IS_XRORIGIN_DELTA

\* The quaternions of the model.
Quaternions == Int \X Int \X Int \X Int

\* The ten-bit code of any component in its range is one of 0 to 1023, and gives it
\* back to half a step (compress_quaternion_smallest_three and its inverse).
THEOREM ComponentsCarried ==
    \A c \in kQuatComponentMin..kQuatComponentMax :
        /\ Code(c) \in 0..kMax10Bit
        /\ 2 * Abs(Decode(Code(c)) - c) <= kQuatStep
<1> TAKE c \in kQuatComponentMin..kQuatComponentMax
<1>a. c \in Int /\ -8184 <= c /\ c <= 8184
  BY DEF kQuatComponentMin, kQuatComponentMax
<1>1. Max({kQuatComponentMin, Min({kQuatComponentMax, c})}) = c
  BY <1>a, MaxOfTwo, MinOfTwo DEF kQuatComponentMin, kQuatComponentMax
<1>2. PICK v \in Int : v = c + 8184
  BY <1>a
<1>3. PICK r : r = round_half_to_even(v, 16) /\ RoundedTo(v, 16, r)
  BY Rounded
<1>4. r \in Int /\ 2 * (r * 16 - v) <= 16 /\ 2 * (v - r * 16) <= 16
  BY <1>3 DEF RoundedTo
<1>5. r \in 0..1023
  BY <1>a, <1>2, <1>4
<1>6. Code(c) = Max({0, Min({1023, r})})
  <2>1. Code(c) = clamp_rounded(c - kQuatComponentMin, kQuatStep, 0, kMax10Bit)
    BY <1>1 DEF Code
  <2>2. c - kQuatComponentMin = v /\ kQuatStep = 16 /\ kMax10Bit = 1023
    BY <1>a, <1>2 DEF kQuatComponentMin, kQuatStep, kMax10Bit
  <2> QED
    BY <1>3, <2>1, <2>2 DEF clamp_rounded
<1>7. Code(c) = r
  BY <1>5, <1>6, MaxOfTwo, MinOfTwo
<1>8. Decode(Code(c)) - c = r * 16 - v
  BY <1>a, <1>2, <1>4, <1>7 DEF Decode, kQuatComponentMin, kQuatStep
<1>9. 2 * Abs(r * 16 - v) <= 16
  BY <1>2, <1>4 DEF Abs
<1> QED
  BY <1>5, <1>7, <1>8, <1>9 DEF kMax10Bit, kQuatStep

\* Any quaternions, about whatever axes: the offset that write_relative takes, the
\* conjugate of the head's on the left, is the one that read_relative undoes with the
\* head's on the left.  Their product is the limb's rotation, times the squared
\* length of the head's, exactly (quaternion_inverse, quaternion_multiply).
THEOREM RotationsRestored ==
    \A h, q \in Quaternions :
        Product(h, Product(Conjugate(h), q))
            = <<Norm2(h) * q[1], Norm2(h) * q[2], Norm2(h) * q[3], Norm2(h) * q[4]>>
<1> TAKE h, q \in Quaternions
<1>1. PICK h1 \in Int, h2 \in Int, h3 \in Int, h4 \in Int : h = <<h1, h2, h3, h4>>
  BY DEF Quaternions
<1>2. PICK q1 \in Int, q2 \in Int, q3 \in Int, q4 \in Int : q = <<q1, q2, q3, q4>>
  BY DEF Quaternions
<1>3. PICK n \in Int : n = h1 * h1 + h2 * h2 + h3 * h3 + h4 * h4
  OBVIOUS
<1>4. Norm2(h) = n /\ Conjugate(h) = <<-h1, -h2, -h3, h4>>
  BY <1>1, <1>3 DEF Norm2, Conjugate
<1> DEFINE p1 == h4 * q1 - h1 * q4 - h2 * q3 + h3 * q2
           p2 == h4 * q2 + h1 * q3 - h2 * q4 - h3 * q1
           p3 == h4 * q3 - h1 * q2 + h2 * q1 - h3 * q4
           p4 == h4 * q4 + h1 * q1 + h2 * q2 + h3 * q3
<1>5. Product(Conjugate(h), q) = <<p1, p2, p3, p4>>
  <2>1. ASSUME NEW x \in Int, NEW y \in Int PROVE (-x) * y = -(x * y)
    OBVIOUS
  <2> QED
    BY <1>2, <1>4, <2>1 DEF Product
<1>6. Product(h, <<p1, p2, p3, p4>>) =
        <<h4 * p1 + h1 * p4 + h2 * p3 - h3 * p2,
          h4 * p2 - h1 * p3 + h2 * p4 + h3 * p1,
          h4 * p3 + h1 * p2 - h2 * p1 + h3 * p4,
          h4 * p4 - h1 * p1 - h2 * p2 - h3 * p3>>
  <2> HIDE DEF p1, p2, p3, p4
  <2> QED
    BY <1>1 DEF Product
<1>7. h4 * p1 + h1 * p4 + h2 * p3 - h3 * p2 = n * q1
  BY <1>3
<1>8. h4 * p2 - h1 * p3 + h2 * p4 + h3 * p1 = n * q2
  BY <1>3
<1>9. h4 * p3 + h1 * p2 - h2 * p1 + h3 * p4 = n * q3
  BY <1>3
<1>10. h4 * p4 - h1 * p1 - h2 * p2 - h3 * p3 = n * q4
  BY <1>3
<1> HIDE DEF p1, p2, p3, p4
<1>11. q[1] = q1 /\ q[2] = q2 /\ q[3] = q3 /\ q[4] = q4
  BY <1>2
<1> QED
  BY <1>4, <1>5, <1>6, <1>7, <1>8, <1>9, <1>10, <1>11, Zenon

-----------------------------------------------------------------------------
(* The codec: texts.                                                       *)

\* The first bytes of characters among the first k bytes of s.
LeadsOf(s, k) == {i \in 1..k : ~is_continuation(s[i])}

\* One more byte begins one more character or continues the last one.
LEMMA LeadsCounted ==
    ASSUME NEW s, NEW k \in Nat
    PROVE  /\ IsFiniteSet(LeadsOf(s, k)) /\ Cardinality(LeadsOf(s, k)) \in Nat
           /\ ~is_continuation(s[k + 1]) =>
                Cardinality(LeadsOf(s, k + 1)) = Cardinality(LeadsOf(s, k)) + 1
           /\ is_continuation(s[k + 1]) =>
                Cardinality(LeadsOf(s, k + 1)) = Cardinality(LeadsOf(s, k))
           /\ \A j \in 0..k : Cardinality(LeadsOf(s, j)) <= Cardinality(LeadsOf(s, k))
<1>1. IsFiniteSet(1..k)
  BY FS_Interval
<1>2. LeadsOf(s, k) \in SUBSET (1..k)
  BY DEF LeadsOf
<1>3. IsFiniteSet(LeadsOf(s, k))
  BY <1>1, <1>2, FS_Subset
<1>4. Cardinality(LeadsOf(s, k)) \in Nat
  BY <1>3, FS_CardinalityType
<1>5. ASSUME ~is_continuation(s[k + 1])
      PROVE  Cardinality(LeadsOf(s, k + 1)) = Cardinality(LeadsOf(s, k)) + 1
  <2>1. LeadsOf(s, k + 1) = LeadsOf(s, k) \cup {k + 1} /\ k + 1 \notin LeadsOf(s, k)
    BY <1>5 DEF LeadsOf
  <2> QED
    BY <1>3, <2>1, FS_AddElement
<1>6. ASSUME is_continuation(s[k + 1])
      PROVE  Cardinality(LeadsOf(s, k + 1)) = Cardinality(LeadsOf(s, k))
  <2>1. LeadsOf(s, k + 1) = LeadsOf(s, k)
    BY <1>6 DEF LeadsOf
  <2> QED
    BY <2>1
<1>7. ASSUME NEW j \in 0..k
      PROVE  Cardinality(LeadsOf(s, j)) <= Cardinality(LeadsOf(s, k))
  <2>1. LeadsOf(s, j) \in SUBSET LeadsOf(s, k)
    BY DEF LeadsOf
  <2> QED
    BY <1>3, <2>1, FS_Subset
<1> QED
  BY <1>3, <1>4, <1>5, <1>6, <1>7

\* The prefix of s that truncate_utf8_code_points keeps: n bytes such that no more
\* than max characters begin in it, one more byte would begin another, and a longer
\* prefix has too many.
LEMMA CodePointsKept ==
    ASSUME NEW s \in Seq(Nat), NEW max \in Nat
    PROVE  \E n \in 0..Len(s) :
               /\ truncate_utf8_code_points(s, max) = SubSeq(s, 1, n)
               /\ n < Len(s) => ~is_continuation(s[n + 1])
               /\ \A k \in 0..Len(s) : Cardinality(LeadsOf(s, k)) <= max <=> k <= n
<1> DEFINE C(k) == Cardinality(LeadsOf(s, k))
           leads == {i \in DOMAIN s : ~is_continuation(s[i])}
           over == {i \in leads : Cardinality({j \in leads : j < i}) >= max}
           bad == {k \in 0..Len(s) : C(k) > max}
<1>1. Len(s) \in Nat /\ DOMAIN s = 1..Len(s)
  BY LenProperties
<1>2. \A k \in 0..Len(s) : C(k) \in Nat
  BY <1>1, LeadsCounted
<1>3. ASSUME NEW i \in 1..Len(s)
      PROVE  {j \in leads : j < i} = LeadsOf(s, i - 1)
  BY <1>1 DEF LeadsOf
<1>4. ASSUME NEW i \in 1..Len(s), ~is_continuation(s[i])
      PROVE  C(i) = C(i - 1) + 1
  <2>1. i - 1 \in Nat /\ (i - 1) + 1 = i
    BY <1>1
  <2> QED
    BY <1>4, <2>1, LeadsCounted
<1>5. over = {i \in 1..Len(s) : ~is_continuation(s[i]) /\ C(i - 1) >= max}
  BY <1>1, <1>3
<1>6. over \subseteq bad
  <2> SUFFICES ASSUME NEW i \in over PROVE i \in bad
    OBVIOUS
  <2>1. i \in 1..Len(s) /\ ~is_continuation(s[i]) /\ C(i - 1) >= max
    BY <1>5
  <2>2. i - 1 \in 0..Len(s) /\ i \in 0..Len(s)
    BY <1>1, <2>1
  <2> HIDE DEF C
  <2> QED
    BY <1>2, <1>4, <2>1, <2>2
<1>7. truncate_utf8_code_points(s, max)
        = IF over = {} THEN s ELSE SubSeq(s, 1, Min(over) - 1)
  BY DEF truncate_utf8_code_points
<1> HIDE DEF leads, over
<1>8. CASE bad = {}
  <2>1. over = {}
    BY <1>6, <1>8
  <2>2. SubSeq(s, 1, Len(s)) = s
    BY SubSeqFull
  <2>3. ASSUME NEW k \in 0..Len(s) PROVE C(k) <= max
    <3> HIDE DEF C
    <3>1. ~(C(k) > max)
      BY <1>8
    <3>2. C(k) \in Nat
      BY <1>2
    <3> QED
      BY <3>1, <3>2
  <2> HIDE DEF C
  <2>4. \A k \in 0..Len(s) : C(k) <= max <=> k <= Len(s)
    BY <1>1, <2>3
  <2>5. Len(s) \in 0..Len(s) /\ ~(Len(s) < Len(s))
    BY <1>1
  <2>6. truncate_utf8_code_points(s, max) = SubSeq(s, 1, Len(s))
    BY <1>7, <2>1, <2>2
  <2> QED
    BY <2>4, <2>5, <2>6 DEF C
<1>9. CASE bad # {}
  <2>a. bad \subseteq Nat
    BY <1>1
  <2>1. PICK k \in bad : \A y \in bad : k <= y
    <3> HIDE DEF bad
    <3> QED
      BY <1>9, <2>a, LeastNat
  <2>2. LeadsOf(s, 0) = {}
    BY DEF LeadsOf
  <2>3. C(0) = 0
    BY <2>2, FS_EmptySet
  <2>4. k \in 1..Len(s) /\ C(k) > max
    <3> HIDE DEF C
    <3> QED
      BY <1>1, <2>1, <2>3
  <2>5. k - 1 \in 0..Len(s) /\ k - 1 \in Nat /\ (k - 1) + 1 = k
    BY <1>1, <2>4
  <2>6. C(k - 1) <= max
    <3> HIDE DEF C
    <3>1. k - 1 \notin bad
      BY <2>1, <2>4, <2>5
    <3>2. ~(C(k - 1) > max)
      BY <2>5, <3>1
    <3>3. C(k - 1) \in Nat
      BY <1>2, <2>5
    <3> QED
      BY <3>2, <3>3
  <2>7. ~is_continuation(s[k]) /\ C(k - 1) >= max
    <3>1. is_continuation(s[k]) => C(k) = C(k - 1)
      BY <2>5, LeadsCounted
    <3>2. ~is_continuation(s[k]) => C(k) = C(k - 1) + 1
      BY <1>4, <2>4
    <3>3. C(k) \in Nat /\ C(k - 1) \in Nat
      BY <1>2, <2>4, <2>5
    <3> HIDE DEF C
    <3> QED
      BY <2>4, <2>6, <3>1, <3>2, <3>3
  <2>8. k \in over
    BY <1>5, <2>4, <2>7
  <2>9. Min(over) = k
    <3>1. \A y \in over : k <= y
      BY <1>6, <2>1
    <3>2. over \subseteq Int
      BY <1>5
    <3>3. \A x \in over : (\A y \in over : x <= y) => x = k
      BY <2>8, <3>1, <3>2
    <3> QED
      BY <2>8, <3>1, <3>3 DEF Min
  <2>10. truncate_utf8_code_points(s, max) = SubSeq(s, 1, k - 1)
    BY <1>7, <2>8, <2>9
  <2>11. ASSUME NEW m \in 0..Len(s) PROVE C(m) <= max <=> m <= k - 1
    <3>1. CASE m <= k - 1
      <4>1. m \in 0..(k - 1)
        BY <1>1, <2>5, <3>1
      <4>2. C(m) <= C(k - 1)
        BY <2>5, <4>1, LeadsCounted
      <4>3. C(m) \in Nat /\ C(k - 1) \in Nat
        BY <1>2, <2>5
      <4> HIDE DEF C
      <4> QED
        BY <2>6, <3>1, <4>2, <4>3
    <3>2. CASE ~(m <= k - 1)
      <4>1. k \in 0..m /\ m \in Nat
        BY <1>1, <2>4, <3>2
      <4>2. C(k) <= C(m)
        BY <4>1, LeadsCounted
      <4>3. C(m) \in Nat /\ C(k) \in Nat
        BY <1>2, <2>4
      <4> HIDE DEF C
      <4> QED
        BY <2>4, <3>2, <4>2, <4>3
    <3> QED
      BY <3>1, <3>2
  <2>12. ~is_continuation(s[(k - 1) + 1])
    BY <2>5, <2>7
  <2> QED
    BY <2>5, <2>10, <2>11, <2>12
<1> QED
  BY <1>8, <1>9

\* A prefix of a prefix.
LEMMA PrefixOfPrefix ==
    ASSUME NEW s \in Seq(Nat), NEW n \in 0..Len(s), NEW m \in 0..n
    PROVE  /\ Len(SubSeq(s, 1, n)) = n
           /\ \A i \in 1..n : SubSeq(s, 1, n)[i] = s[i]
           /\ SubSeq(SubSeq(s, 1, n), 1, m) = SubSeq(s, 1, m)
OBVIOUS

\* For every text and all limits: cutting to characters and then to bytes leaves the
\* longest prefix of whole characters within both (clamp_variable_name,
\* clamp_variable_value, truncate_utf8_code_points, write_string8, write_string16,
\* truncate_utf8_bytes).
THEOREM TextsCutWhole ==
    \A s \in Seq(Nat), maxBytes, maxChars \in Nat :
        (s # <<>> => ~is_continuation(s[1])) =>
            truncate_utf8_bytes(truncate_utf8_code_points(s, maxChars), maxBytes)
                = WholeCharacters(s, maxBytes, maxChars)
<1> SUFFICES ASSUME NEW s \in Seq(Nat), NEW maxBytes \in Nat, NEW maxChars \in Nat,
                    s # <<>> => ~is_continuation(s[1])
             PROVE  truncate_utf8_bytes(truncate_utf8_code_points(s, maxChars), maxBytes)
                        = WholeCharacters(s, maxBytes, maxChars)
  OBVIOUS
<1> DEFINE fits == {k \in 0..Len(s) : /\ k <= maxBytes
                                      /\ Cardinality(LeadsOf(s, k)) <= maxChars
                                      /\ k < Len(s) => ~is_continuation(s[k + 1])}
           t == truncate_utf8_code_points(s, maxChars)
<1>1. WholeCharacters(s, maxBytes, maxChars) = SubSeq(s, 1, Max(fits))
  BY DEF WholeCharacters, LeadsOf
<1>2. PICK n \in 0..Len(s) :
          /\ t = SubSeq(s, 1, n)
          /\ n < Len(s) => ~is_continuation(s[n + 1])
          /\ \A k \in 0..Len(s) : Cardinality(LeadsOf(s, k)) <= maxChars <=> k <= n
  BY CodePointsKept
<1>3. Len(s) \in Nat /\ n \in Nat /\ n <= Len(s)
  BY LenProperties
<1>4. fits = {k \in 0..n : k <= maxBytes /\ (k < Len(s) => ~is_continuation(s[k + 1]))}
  BY <1>2, <1>3
<1>5. Len(t) = n /\ \A i \in 1..n : t[i] = s[i]
  BY <1>2, PrefixOfPrefix
<1> HIDE DEF fits, t
<1>6. CASE n <= maxBytes
  <2>1. n \in fits /\ \A k \in fits : k <= n
    BY <1>2, <1>3, <1>4, <1>6
  <2>2. fits \subseteq Int
    BY <1>3, <1>4
  <2>3. \A x \in fits : (\A y \in fits : x >= y) => x = n
    BY <2>1, <2>2
  <2>4. \A y \in fits : n >= y
    BY <1>3, <2>1, <2>2
  <2>5. Max(fits) = n
    BY <2>1, <2>3, <2>4 DEF Max
  <2>6. truncate_utf8_bytes(t, maxBytes) = t
    BY <1>5, <1>6 DEF truncate_utf8_bytes
  <2> QED
    BY <1>1, <1>2, <2>5, <2>6 DEF t
<1>7. CASE n > maxBytes
  <2> DEFINE cuts == {0} \cup {c \in 1..maxBytes : ~is_continuation(t[c + 1])}
  <2>1. ASSUME NEW c \in 1..maxBytes PROVE t[c + 1] = s[c + 1]
    BY <1>3, <1>5, <1>7
  <2>2. ~is_continuation(s[0 + 1])
    <3>1. s # <<>>
      BY <1>3, <1>7
    <3> QED
      BY <3>1
  <2>3. fits = {k \in 0..maxBytes : ~is_continuation(s[k + 1])}
    BY <1>3, <1>4, <1>7
  <2>4. cuts = fits
    BY <2>1, <2>2, <2>3
  <2>5. cuts \subseteq 0..maxBytes /\ 0 \in cuts
    OBVIOUS
  <2>6. truncate_utf8_bytes(t, maxBytes) = SubSeq(t, 1, Max(cuts))
    <3>1. ~(Len(t) <= maxBytes)
      BY <1>3, <1>5, <1>7
    <3> QED
      BY <3>1, Zenon DEF truncate_utf8_bytes
  <2> HIDE DEF cuts
  <2>7. Max(cuts) \in cuts
    BY <2>5, GreatestBounded DEF Max
  <2>8. Max(cuts) \in 0..n
    <3>1. Max(cuts) \in 0..maxBytes
      BY <2>5, <2>7, Zenon
    <3> QED
      BY <1>3, <1>7, <3>1
  <2>9. SubSeq(t, 1, Max(cuts)) = SubSeq(s, 1, Max(cuts))
    BY <1>2, <2>8, PrefixOfPrefix
  <2> QED
    BY <1>1, <2>4, <2>6, <2>9 DEF t
<1> QED
  BY <1>3, <1>6, <1>7

=============================================================================
