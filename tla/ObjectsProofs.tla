---------------------------- MODULE ObjectsProofs ----------------------------
(***************************************************************************)
(* Proofs about module Objects for every set of objects and poses, every   *)
(* send rate and heartbeat, and any number of messages and snapshots.      *)
(***************************************************************************)
EXTENDS Objects, WellFoundedInduction, TLAPS

-----------------------------------------------------------------------------
(* The inductive invariant, per object.                                    *)

Shows(m, o) == m.owner[o] = sOwner[o] /\ m.pose[o] = sPose[o]

About(q, o) == \E i \in DOMAIN q : q[i].id = o

\* The last message about o in q, if there is one, tells the owner v.
LastTells(q, o, v) ==
    \A i \in DOMAIN q :
        q[i].id = o /\ (\A j \in DOMAIN q : i < j => q[j].id # o) => q[i].owner = v

\* What is told last, of all that waits or is on its way, is the truth.
ToldInv(o) ==
    /\ LastTells(ctl, o, sOwner[o])
    /\ About(ctl, o) \/ LastTells(inbox, o, sOwner[o])

\* When no change of o is younger than the last snapshot, the newest one on its
\* way shows what the server has; when none is on its way, the client shows it,
\* and has the owner too unless a message about o is still to be applied.
KnownInv(o) ==
    o \notin dirty =>
        /\ sub # <<>> => Shows(sub[Len(sub)], o)
        /\ sub = <<>> /\ room # None => Shows(room, o)
        /\ sub = <<>> /\ room = None /\ o \in registered =>
             /\ sOwner[o] # Me => shown[o] = sPose[o]
             /\ owner[o] = sOwner[o] \/ About(inbox, o) \/ About(ctl, o)

\* Nothing anywhere says that an object is this client's that the server has not
\* had as this client's in this session.
GrantedInv(o) ==
    o \notin granted =>
        /\ sOwner[o] # Me /\ owner[o] # Me
        /\ \A i \in DOMAIN inbox : inbox[i].id = o => inbox[i].owner # Me
        /\ \A i \in DOMAIN ctl : ctl[i].id = o => ctl[i].owner # Me
        /\ room # None => room.owner[o] # Me
        /\ \A i \in DOMAIN sub : sub[i].owner[o] # Me

ObjectsInv ==
    /\ TypeOK
    /\ \A o \in Ids : ToldInv(o) /\ KnownInv(o) /\ GrantedInv(o)

-----------------------------------------------------------------------------
(* The last message about an object.                                       *)

\* A set of natural numbers has a least element.
LEMMA LeastNat ==
    ASSUME NEW T, T \subseteq Nat, T # {}
    PROVE  \E x \in T : \A y \in T : x <= y
<1> DEFINE R == OpToRel(<, Nat)
<1>1. IsWellFoundedOn(R, Nat)
  BY NatLessThanWellFounded
<1>2. \A x, y \in Nat : <<y, x>> \in R <=> y < x
  BY DEF OpToRel
<1> HIDE DEF R
<1>3. PICK x \in T : \A y \in T : ~(<<y, x>> \in R)
  BY <1>1, WFMin
<1>4. ASSUME NEW y \in T PROVE x <= y
  <2>1. x \in Nat /\ y \in Nat /\ ~(y < x)
    BY <1>2, <1>3
  <2> QED
    BY <2>1
<1> QED
  BY <1>4

\* A set of indices has a greatest one.
LEMMA GreatestIndex ==
    ASSUME NEW n \in Nat, NEW S, S \subseteq 1..n, S # {}
    PROVE  \E x \in S : \A y \in S : y <= x
<1> DEFINE T == {n - i : i \in S}
<1>1. T \subseteq Nat /\ T # {}
  <2>1. \A i \in S : n - i \in Nat
    OBVIOUS
  <2> QED
    BY <2>1
<1>2. PICK t \in T : \A y \in T : t <= y
  BY <1>1, LeastNat
<1>3. PICK x \in S : t = n - x
  OBVIOUS
<1>4. ASSUME NEW y \in S PROVE y <= x
  <2>1. n - x <= n - y
    BY <1>2, <1>3
  <2> QED
    BY <2>1
<1> QED
  BY <1>4

\* handle_ownership_changed leaves the owner alone or takes it from the last
\* message about the object.
LEMMA ToldFacts ==
    ASSUME TypeOK, NEW o \in Ids
    PROVE  \/ ToldOf(o) = {} /\ OwnerTold(o) = owner[o]
           \/ \E i \in DOMAIN inbox :
                /\ o \in registered /\ inbox[i].id = o
                /\ \A j \in DOMAIN inbox : i < j => inbox[j].id # o
                /\ OwnerTold(o) = inbox[i].owner
<1>1. inbox \in Seq(Messages) /\ Len(inbox) \in Nat /\ DOMAIN inbox = 1..Len(inbox)
  BY DEF TypeOK
<1>2. CASE ToldOf(o) = {}
  BY <1>2 DEF OwnerTold
<1>3. CASE ToldOf(o) # {}
  <2>1. ToldOf(o) \subseteq 1..Len(inbox)
    BY <1>1 DEF ToldOf
  <2>2. \E x \in ToldOf(o) : \A y \in ToldOf(o) : y <= x
    BY <1>1, <1>3, <2>1, GreatestIndex
  <2> DEFINE last == CHOOSE i \in ToldOf(o) : \A j \in ToldOf(o) : j <= i
  <2>3. last \in ToldOf(o) /\ \A j \in ToldOf(o) : j <= last
    BY <2>2
  <2>4. OwnerTold(o) = inbox[last].owner
    BY <1>3 DEF OwnerTold
  <2> HIDE DEF last
  <2>5. last \in DOMAIN inbox /\ o \in registered /\ inbox[last].id = o
    BY <2>3 DEF ToldOf
  <2>6. ASSUME NEW j \in DOMAIN inbox, last < j PROVE inbox[j].id # o
    <3>1. j \notin ToldOf(o)
      BY <1>1, <2>1, <2>3, <2>6
    <3> QED
      BY <2>5, <3>1 DEF ToldOf
  <2> QED
    BY <2>4, <2>5, <2>6
<1> QED
  BY <1>2, <1>3

\* A message about an object carries an owner.
LEMMA MessageFacts ==
    ASSUME NEW m \in Messages, m.id \in Ids
    PROVE  m.owner \in Owners
  BY NoneAssumption DEF Messages, OwnerMessages, Unrelated

\* The owner after a poll, from wherever poll() takes it.
LEMMA RoomOwnerFacts ==
    ASSUME TypeOK, NEW o \in Ids
    PROVE  /\ RoomOwner(o) \in Owners
           /\ \/ room # None /\ o \in registered /\ RoomOwner(o) = room.owner[o]
              \/ RoomOwner(o) = owner[o]
              \/ \E i \in DOMAIN inbox :
                   o \in registered /\ inbox[i].id = o /\ RoomOwner(o) = inbox[i].owner
<1>1. /\ inbox \in Seq(Messages) /\ owner \in [Ids -> Owners]
      /\ room # None => room \in Snapshots
  BY DEF TypeOK
<1>2. CASE room # None /\ o \in registered
  BY <1>1, <1>2 DEF RoomOwner, Snapshots
<1>3. CASE ~(room # None /\ o \in registered)
  <2>1. RoomOwner(o) = OwnerTold(o)
    BY <1>3 DEF RoomOwner
  <2>2. ASSUME NEW i \in DOMAIN inbox, inbox[i].id = o PROVE inbox[i].owner \in Owners
    BY <1>1, <2>2, MessageFacts
  <2> QED
    BY <1>1, <2>1, <2>2, ToldFacts
<1> QED
  BY <1>2, <1>3

\* A message appended to a queue, and the first one taken from it.
LEMMA QueueFacts ==
    ASSUME NEW q \in Seq(Messages), NEW m \in Messages
    PROVE  /\ Append(q, m) \in Seq(Messages) /\ Append(q, m) # <<>>
           /\ Len(Append(q, m)) = Len(q) + 1 /\ Len(q) \in Nat
           /\ DOMAIN q = 1..Len(q)
           /\ DOMAIN Append(q, m) = DOMAIN q \cup {Len(q) + 1}
           /\ \A i \in DOMAIN q : Append(q, m)[i] = q[i]
           /\ Append(q, m)[Len(q) + 1] = m
           /\ q # <<>> =>
                /\ Tail(q) \in Seq(Messages) /\ Len(Tail(q)) = Len(q) - 1
                /\ Head(q) = q[1] /\ 1 \in DOMAIN q /\ Head(q) \in Messages
                /\ \A i \in DOMAIN Tail(q) : i + 1 \in DOMAIN q /\ Tail(q)[i] = q[i + 1]
                /\ \A i \in DOMAIN q :
                     i = 1 \/ (i - 1 \in DOMAIN Tail(q) /\ Tail(q)[i - 1] = q[i])
  OBVIOUS

\* The last message about an object, after a message was appended.
LEMMA LastAppend ==
    ASSUME NEW q \in Seq(Messages), NEW m \in Messages, NEW o \in Ids, NEW v,
           m.id = o => m.owner = v, m.id # o => LastTells(q, o, v)
    PROVE  LastTells(Append(q, m), o, v)
<1> DEFINE a == Append(q, m)
<1>1. /\ Len(q) \in Nat /\ DOMAIN q = 1..Len(q) /\ DOMAIN a = DOMAIN q \cup {Len(q) + 1}
      /\ \A i \in DOMAIN q : a[i] = q[i]
      /\ a[Len(q) + 1] = m
  BY QueueFacts
<1> HIDE DEF a
<1> SUFFICES ASSUME NEW i \in DOMAIN a, a[i].id = o,
                    \A j \in DOMAIN a : i < j => a[j].id # o
             PROVE  a[i].owner = v
  BY DEF LastTells, a
<1>2. CASE i = Len(q) + 1
  BY <1>1, <1>2
<1>3. CASE i \in DOMAIN q
  <2>1. i < Len(q) + 1
    BY <1>1, <1>3
  <2>2. m.id # o
    BY <1>1, <2>1
  <2>3. \A j \in DOMAIN q : i < j => q[j].id # o
    BY <1>1
  <2> QED
    BY <1>1, <1>3, <2>2, <2>3 DEF LastTells
<1> QED
  BY <1>1, <1>2, <1>3

\* The last message about an object stays the last when the oldest is taken.
LEMMA LastTail ==
    ASSUME NEW q \in Seq(Messages), q # <<>>, NEW o \in Ids, NEW v, LastTells(q, o, v)
    PROVE  LastTells(Tail(q), o, v)
<1>1. /\ Len(q) \in Nat /\ DOMAIN q = 1..Len(q) /\ DOMAIN Tail(q) = 1..(Len(q) - 1)
      /\ \A i \in DOMAIN Tail(q) : i + 1 \in DOMAIN q /\ Tail(q)[i] = q[i + 1]
      /\ \A i \in DOMAIN q :
           i = 1 \/ (i - 1 \in DOMAIN Tail(q) /\ Tail(q)[i - 1] = q[i])
  OBVIOUS
<1> DEFINE t == Tail(q)
<1> HIDE DEF t
<1> SUFFICES ASSUME NEW i \in DOMAIN t, t[i].id = o,
                    \A j \in DOMAIN t : i < j => t[j].id # o
             PROVE  t[i].owner = v
  BY DEF LastTells, t
<1>2. i + 1 \in DOMAIN q /\ t[i] = q[i + 1] /\ i \in Nat
  BY <1>1 DEF t
<1>3. ASSUME NEW j \in DOMAIN q, i + 1 < j PROVE q[j].id # o
  <2>1. j - 1 \in DOMAIN t /\ t[j - 1] = q[j] /\ i < j - 1
    BY <1>1, <1>2, <1>3 DEF t
  <2> QED
    BY <2>1
<1> QED
  BY <1>2, <1>3 DEF LastTells

\* What handle_payload leaves in the inbox: the message, and all the others but
\* the one that is dropped.
LEMMA ReceivedFacts ==
    ASSUME TypeOK, NEW m \in Messages
    PROVE  /\ Received(m) \in Seq(Messages) /\ Len(Received(m)) <= InboxMax
           /\ \A i \in DOMAIN Received(m) :
                Received(m)[i] = m \/ \E j \in DOMAIN inbox : Received(m)[i] = inbox[j]
           /\ \E i \in DOMAIN Received(m) : Received(m)[i] = m
           /\ \A o \in Ids \ Dropped : About(inbox, o) => About(Received(m), o)
<1>1. inbox \in Seq(Messages) /\ Len(inbox) <= InboxMax /\ InboxMax \in Nat \ {0}
  BY InboxAssumption DEF TypeOK
<1> DEFINE a == Append(inbox, m)
<1>2. /\ a \in Seq(Messages) /\ Len(a) = Len(inbox) + 1 /\ a # <<>>
      /\ Len(inbox) \in Nat /\ DOMAIN inbox = 1..Len(inbox)
      /\ DOMAIN a = DOMAIN inbox \cup {Len(inbox) + 1}
      /\ \A i \in DOMAIN inbox : a[i] = inbox[i]
      /\ a[Len(inbox) + 1] = m
  BY <1>1, QueueFacts
<1>3. Received(m) = IF Len(inbox) < InboxMax THEN a ELSE Tail(a)
  BY DEF Received
<1> HIDE DEF a
<1>4. CASE Len(inbox) < InboxMax
  <2>1. Received(m) = a
    BY <1>3, <1>4
  <2>2. \A o \in Ids : About(inbox, o) => About(a, o)
    BY <1>2 DEF About
  <2> QED
    BY <1>1, <1>2, <1>4, <2>1, <2>2
<1>5. CASE ~(Len(inbox) < InboxMax)
  <2>1. Received(m) = Tail(a) /\ Len(inbox) >= InboxMax /\ Len(inbox) >= 1
    BY <1>1, <1>2, <1>3, <1>5
  <2>2. /\ Tail(a) \in Seq(Messages) /\ Len(Tail(a)) = Len(inbox)
        /\ \A i \in DOMAIN Tail(a) : i + 1 \in DOMAIN a /\ Tail(a)[i] = a[i + 1]
        /\ \A i \in DOMAIN a :
             i = 1 \/ (i - 1 \in DOMAIN Tail(a) /\ Tail(a)[i - 1] = a[i])
    BY <1>2, QueueFacts
  <2>3. \A i \in DOMAIN Tail(a) :
          Tail(a)[i] = m \/ \E j \in DOMAIN inbox : Tail(a)[i] = inbox[j]
    BY <1>2, <2>2
  <2>4. \E i \in DOMAIN Tail(a) : Tail(a)[i] = m
    <3>1. Len(inbox) + 1 \in DOMAIN a /\ Len(inbox) + 1 # 1
      BY <1>2, <2>1
    <3> QED
      BY <1>2, <2>2, <3>1
  <2>5. ASSUME NEW o \in Ids \ Dropped, About(inbox, o) PROVE About(Tail(a), o)
    <3>1. PICK i \in DOMAIN inbox : inbox[i].id = o
      BY <2>5 DEF About
    <3>2. i # 1
      <4>1. inbox[1].id # o
        <5>1. Head(inbox) = inbox[1]
          BY <1>1, <2>1
        <5> QED
          BY <2>1, <2>5, <5>1 DEF Dropped
      <4> QED
        BY <3>1, <4>1
    <3>3. i - 1 \in DOMAIN Tail(a) /\ Tail(a)[i - 1] = inbox[i]
      BY <1>2, <2>2, <3>1, <3>2
    <3> QED
      BY <3>1, <3>3 DEF About
  <2> QED
    BY <1>1, <2>1, <2>2, <2>3, <2>4, <2>5
<1> QED
  BY <1>4, <1>5

\* The last message about an object, after a message came into the inbox.
LEMMA LastReceived ==
    ASSUME TypeOK, NEW m \in Messages, NEW o \in Ids, NEW v,
           m.id = o => m.owner = v, m.id # o => LastTells(inbox, o, v)
    PROVE  LastTells(Received(m), o, v)
<1>1. inbox \in Seq(Messages)
  BY DEF TypeOK
<1>2. /\ LastTells(Append(inbox, m), o, v)
      /\ Append(inbox, m) \in Seq(Messages) /\ Append(inbox, m) # <<>>
  BY <1>1, LastAppend, QueueFacts
<1>3. LastTells(Tail(Append(inbox, m)), o, v)
  BY <1>2, LastTail
<1> QED
  BY <1>2, <1>3 DEF Received

\* The messages about an object, and the ones about none of them.
LEMMA MessageTypes ==
    /\ OwnerMessages \subseteq Messages /\ Seq(OwnerMessages) \subseteq Seq(Messages)
    /\ Unrelated \in Messages /\ \A o \in Ids : Unrelated.id # o
    /\ \A o \in Ids, new \in Owners :
         /\ [id |-> o, owner |-> new] \in OwnerMessages
         /\ [id |-> o, owner |-> new].id = o /\ [id |-> o, owner |-> new].owner = new
<1>1. OwnerMessages \subseteq Messages /\ Unrelated \in Messages
  BY DEF Messages
<1>2. ASSUME NEW q \in Seq(OwnerMessages) PROVE q \in Seq(Messages)
  BY <1>1
<1>3. \A o \in Ids : Unrelated.id # o
  BY NoneAssumption DEF Unrelated
<1>4. \A o \in Ids, new \in Owners :
        /\ [id |-> o, owner |-> new] \in OwnerMessages
        /\ [id |-> o, owner |-> new].id = o /\ [id |-> o, owner |-> new].owner = new
  BY DEF OwnerMessages
<1> QED
  BY <1>1, <1>2, <1>3, <1>4

\* Every action keeps the types.
LEMMA TypeOKStep ==
    ASSUME TypeOK, [Next]_vars
    PROVE  TypeOK'
<1> USE DEF entryVars, pollVars, serverVars
<1>a. /\ \A o \in Ids \ registered : NoEntry(o)
      /\ localNo \in {Nobody, Me} /\ registered \subseteq Ids /\ owner \in [Ids -> Owners]
      /\ shown \in [Ids -> Poses \cup {None}] /\ localPose \in [Ids -> Poses \cup {None}]
      /\ lastSent \in [Ids -> Poses \cup {None}] /\ age \in [Ids -> 0..AgeMax]
      /\ inbox \in Seq(Messages) /\ Len(inbox) <= InboxMax
      /\ room \in Snapshots \cup {None} /\ slot \in [Ids -> Poses \cup {None}]
      /\ ctl \in Seq(OwnerMessages)
      /\ sub \in Seq(Snapshots) /\ sOwner \in [Ids -> Owners] /\ sPose \in [Ids -> Poses]
      /\ granted \subseteq Ids /\ dirty \subseteq Ids
  BY DEF TypeOK
<1>b. Nobody \in Owners /\ Me \in Owners /\ Other \in Owners /\ AgeMax \in Nat
      /\ AgeMax \in 0..AgeMax /\ 0 \in 0..AgeMax
  BY TimesAssumption DEF Owners, AgeMax
<1>c. /\ <<>> \in Seq(Messages) /\ Len(<<>>) <= InboxMax /\ <<>> \in Seq(Snapshots)
      /\ <<>> \in Seq(OwnerMessages)
  BY InboxAssumption
<1>1. ASSUME NEW o \in Ids, RegisterObject(o) PROVE TypeOK'
  BY <1>1, <1>a DEF RegisterObject, TypeOK, NoEntry
<1>2. ASSUME NEW o \in Ids, UnregisterObject(o) PROVE TypeOK'
  <2>1. \A x \in Ids \ registered' : NoEntry(x)'
    BY <1>2, <1>a DEF UnregisterObject, NoEntry
  <2>2. age' \in [Ids -> 0..AgeMax] /\ owner' \in [Ids -> Owners]
    BY <1>2, <1>a, <1>b DEF UnregisterObject
  <2> QED
    BY <1>2, <1>a, <2>1, <2>2 DEF UnregisterObject, TypeOK
<1>3. ASSUME NEW o \in Ids, NEW p \in Poses, SubmitLocalPose(o, p) PROVE TypeOK'
  <2>1. \A x \in Ids \ registered' : NoEntry(x)'
    BY <1>3, <1>a DEF SubmitLocalPose, NoEntry
  <2> QED
    BY <1>3, <1>a, <2>1 DEF SubmitLocalPose, TypeOK
<1>d. ASSUME NEW o \in Ids, NEW told \in Owners, Tell(o, told)
      PROVE  ctl' \in Seq(OwnerMessages)
  <2> DEFINE m == [id |-> o, owner |-> told]
  <2>1. ctl' = Append(ctl, m)
    BY <1>d DEF Tell
  <2>2. m \in OwnerMessages
    BY DEF OwnerMessages
  <2> HIDE DEF m
  <2> QED
    BY <1>a, <2>1, <2>2
<1>e. ASSUME NEW o \in Ids, NEW new \in Owners, Grant(o, new),
             UNCHANGED <<localNo, entryVars, pollVars, slot, sub, sPose>>
      PROVE  TypeOK'
  <2>1. ctl' \in Seq(OwnerMessages)
    BY <1>d, <1>e DEF Grant
  <2> QED
    BY <1>a, <1>e, <2>1 DEF Grant, TypeOK, NoEntry
<1>4. ASSUME NEW o \in Ids, NEW op \in {"request", "release"}, SendOwnershipRequest(o, op)
      PROVE  TypeOK'
  <2>1. /\ UNCHANGED <<localNo, entryVars, pollVars, slot, sub, sPose>>
        /\ \/ \E new \in Owners : Grant(o, new)
           \/ UNCHANGED <<ctl, sOwner, granted, dirty>>
    BY <1>4, <1>b DEF SendOwnershipRequest, ServerAnswers
  <2> QED
    BY <2>1, <1>a, <1>e DEF TypeOK, NoEntry
<1>5. ASSUME NEW o \in Ids, NEW new \in {Nobody, Other}, ServerMoves(o, new) PROVE TypeOK'
  BY <1>5, <1>b, <1>e DEF ServerMoves
<1>16. ASSUME NEW o \in Ids, ServerRepeats(o) PROVE TypeOK'
  <2>1. ctl' \in Seq(OwnerMessages)
    BY <1>a, <1>d, <1>16 DEF ServerRepeats
  <2> QED
    BY <1>a, <1>16, <2>1 DEF ServerRepeats, TypeOK, NoEntry
<1>6. CASE NetReceiveUnrelated
  <2>1. inbox' \in Seq(Messages) /\ Len(inbox') <= InboxMax
    BY <1>6, MessageTypes, ReceivedFacts DEF NetReceiveUnrelated
  <2> QED
    BY <1>6, <1>a, <2>1 DEF NetReceiveUnrelated, Dropped, TypeOK, NoEntry
<1>17. CASE NetReceiveControl
  <2>1. Head(ctl) \in Messages /\ ctl' \in Seq(OwnerMessages)
    BY <1>17, <1>a, MessageTypes DEF NetReceiveControl
  <2>2. inbox' \in Seq(Messages) /\ Len(inbox') <= InboxMax
    BY <1>17, <2>1, ReceivedFacts DEF NetReceiveControl
  <2> QED
    BY <1>17, <1>a, <2>1, <2>2 DEF NetReceiveControl, Dropped, TypeOK, NoEntry
<1>7. CASE SetLocalIdentity
  BY <1>7, <1>a DEF SetLocalIdentity, TypeOK, NoEntry
<1>8. CASE NewSession
  <2>1. \A x \in Ids \ registered' : NoEntry(x)'
    BY <1>8, <1>a DEF NewSession, NoEntry, ClearedOwners, Nothing
  <2>2. owner' \in [Ids -> Owners] /\ age' \in [Ids -> 0..AgeMax]
    BY <1>8, <1>a, <1>b DEF NewSession, ClearedOwners
  <2> QED
    BY <1>8, <1>a, <1>c, <2>1, <2>2 DEF NewSession, Nothing, TypeOK
<1>9. CASE Time
  <2>1. age' \in [Ids -> 0..AgeMax]
    BY <1>9, <1>a, <1>b DEF Time
  <2> QED
    BY <1>9, <1>a, <2>1 DEF Time, TypeOK, NoEntry
<1>10. CASE Poll
  <2>1. /\ owner' = [o \in Ids |-> RoomOwner(o)]
        /\ shown' = [o \in Ids |-> RoomPose(o)]
        /\ age' = [o \in Ids |-> IF Due(o) THEN 0 ELSE AgeBefore(o)]
        /\ lastSent' = [o \in Ids |-> IF Due(o) THEN localPose[o] ELSE SentBefore(o)]
        /\ slot' = [o \in Ids |-> IF Due(o) THEN localPose[o] ELSE slot[o]]
        /\ inbox' = <<>> /\ room' = None
        /\ UNCHANGED <<localNo, registered, localPose, serverVars>>
    BY <1>10 DEF Poll
  <2>2. \A o \in Ids : RoomOwner(o) \in Owners
    BY RoomOwnerFacts
  <2>3. \A o \in Ids : RoomPose(o) \in Poses \cup {None}
    BY <1>a DEF RoomPose, Snapshots
  <2>4. \A o \in Ids : AgeBefore(o) \in 0..AgeMax /\ SentBefore(o) \in Poses \cup {None}
    BY <1>a, <1>b DEF AgeBefore, SentBefore
  <2>5. ASSUME NEW o \in Ids \ registered PROVE NoEntry(o)'
    <3>1. NoEntry(o) /\ ToldOf(o) = {} /\ ~Due(o) /\ ~Taken(o)
      BY <1>a DEF ToldOf, Due, Taken
    <3>2. RoomOwner(o) = owner[o] /\ RoomPose(o) = shown[o] /\ SentBefore(o) = lastSent[o]
      BY <3>1 DEF RoomOwner, OwnerTold, RoomPose, SentBefore
    <3> QED
      BY <2>1, <3>1, <3>2 DEF NoEntry
  <2> HIDE DEF entryVars, pollVars
  <2>6. /\ owner' \in [Ids -> Owners] /\ shown' \in [Ids -> Poses \cup {None}]
        /\ lastSent' \in [Ids -> Poses \cup {None}] /\ slot' \in [Ids -> Poses \cup {None}]
    BY <1>a, <2>1, <2>2, <2>3, <2>4
  <2>7. age' \in [Ids -> 0..AgeMax]
    BY <1>b, <2>1, <2>4
  <2> QED
    BY <1>a, <1>c, <2>1, <2>5, <2>6, <2>7 DEF TypeOK
<1>11. CASE NetReceiveRoom
  <2>1. room' \in Snapshots /\ sub' \in Seq(Snapshots)
    BY <1>11, <1>a DEF NetReceiveRoom
  <2> QED
    BY <1>11, <1>a, <2>1 DEF NetReceiveRoom, TypeOK, NoEntry
<1>12. ASSUME NEW o \in Ids, NetSendPose(o) PROVE TypeOK'
  BY <1>12, <1>a DEF NetSendPose, TypeOK, NoEntry
<1>13. ASSUME NEW o \in Ids, NEW p \in Poses, OtherMoves(o, p) PROVE TypeOK'
  BY <1>13, <1>a DEF OtherMoves, TypeOK, NoEntry
<1>14. CASE ServerBroadcasts
  <2> DEFINE m == [owner |-> sOwner, pose |-> sPose]
  <2>1. m \in Snapshots
    BY <1>a DEF Snapshots
  <2>2. sub' = Append(sub, m)
    BY <1>14 DEF ServerBroadcasts
  <2> HIDE DEF m
  <2>3. sub' \in Seq(Snapshots)
    BY <1>a, <2>1, <2>2
  <2> QED
    BY <1>14, <1>a, <2>3 DEF ServerBroadcasts, TypeOK, NoEntry
<1>15. CASE UNCHANGED vars
  BY <1>15, <1>a DEF vars, TypeOK, NoEntry
<1> QED
  BY <1>1, <1>2, <1>3, <1>4, <1>5, <1>6, <1>7, <1>8, <1>9, <1>10, <1>11, <1>12,
     <1>13, <1>14, <1>15, <1>16, <1>17 DEF Next

-----------------------------------------------------------------------------
(* What the client knows.                                                  *)

\* A message about another object changes nothing about o in the queue.
LEMMA TellOther ==
    ASSUME TypeOK, NEW x \in Ids, NEW told \in Owners, Tell(x, told), NEW o \in Ids
    PROVE  /\ About(ctl, o) => About(ctl, o)'
           /\ x = o => About(ctl, o)'
           /\ \A i \in DOMAIN ctl' : ctl'[i].id = o =>
                (x = o /\ ctl'[i].owner = told) \/ \E j \in DOMAIN ctl : ctl'[i] = ctl[j]
<1> DEFINE m == [id |-> x, owner |-> told]
<1>1. ctl' = Append(ctl, m)
  BY DEF Tell
<1>2. ctl \in Seq(OwnerMessages) /\ m \in Messages /\ m.id = x /\ m.owner = told
  BY MessageTypes DEF TypeOK
<1>3. ctl \in Seq(Messages)
  BY <1>2, MessageTypes
<1> HIDE DEF m
<1> QED
  BY <1>1, <1>2, <1>3, QueueFacts DEF About

\* Every action keeps true what is told last.
LEMMA ToldStep ==
    ASSUME TypeOK, [Next]_vars, NEW o \in Ids, ToldInv(o)
    PROVE  ToldInv(o)'
<1> USE DEF entryVars, pollVars, serverVars
<1>a. /\ inbox \in Seq(Messages) /\ ctl \in Seq(OwnerMessages)
      /\ sOwner \in [Ids -> Owners]
  BY DEF TypeOK
<1>b. ctl \in Seq(Messages)
  BY <1>a, MessageTypes
<1>1. ASSUME NEW x \in Ids, NEW told \in Owners, Tell(x, told), UNCHANGED inbox,
             x = o => told = sOwner'[o], x # o => UNCHANGED sOwner[o]
      PROVE  ToldInv(o)'
  <2> DEFINE m == [id |-> x, owner |-> told]
  <2>1. m \in Messages /\ m.id = x /\ m.owner = told
    BY MessageTypes
  <2>2. ctl' = Append(ctl, m)
    BY <1>1 DEF Tell
  <2> HIDE DEF m
  <2>3. LastTells(Append(ctl, m), o, sOwner'[o])
    BY <1>1, <1>b, <2>1, LastAppend DEF ToldInv
  <2>4. x = o => About(ctl, o)'
    BY <1>1, TellOther
  <2>5. x # o /\ About(ctl, o) => About(ctl, o)'
    BY <1>1, TellOther
  <2>6. x # o /\ ~About(ctl, o) => LastTells(inbox, o, sOwner[o])'
    BY <1>1 DEF ToldInv, LastTells
  <2> QED
    BY <2>2, <2>3, <2>4, <2>5, <2>6 DEF ToldInv, LastTells
<1>2. ASSUME NEW x \in Ids, NEW new \in Owners, Grant(x, new), UNCHANGED inbox
      PROVE  ToldInv(o)'
  BY <1>1, <1>2, <1>a DEF Grant
<1>3. ASSUME UNCHANGED <<inbox, ctl, sOwner>> PROVE ToldInv(o)'
  BY <1>3 DEF ToldInv, About, LastTells
<1>4. ASSUME NEW x \in Ids, NEW op \in {"request", "release"}, SendOwnershipRequest(x, op)
      PROVE  ToldInv(o)'
  BY <1>2, <1>3, <1>4 DEF SendOwnershipRequest, ServerAnswers, Owners
<1>5. ASSUME NEW x \in Ids, NEW new \in {Nobody, Other}, ServerMoves(x, new)
      PROVE  ToldInv(o)'
  BY <1>2, <1>5 DEF ServerMoves, Owners
<1>6. ASSUME NEW x \in Ids, ServerRepeats(x) PROVE ToldInv(o)'
  <2>1. sOwner[x] \in Owners /\ UNCHANGED <<inbox, sOwner>> /\ Tell(x, sOwner[x])
    BY <1>a, <1>6 DEF ServerRepeats
  <2> QED
    BY <1>1, <2>1
<1>7. CASE NetReceiveUnrelated
  <2>1. inbox' = Received(Unrelated) /\ UNCHANGED <<ctl, sOwner>>
    BY <1>7 DEF NetReceiveUnrelated
  <2>2. LastTells(inbox, o, sOwner[o]) => LastTells(Received(Unrelated), o, sOwner[o])
    BY MessageTypes, LastReceived
  <2> QED
    BY <2>1, <2>2 DEF ToldInv, About, LastTells
<1>8. CASE NetReceiveControl
  <2> DEFINE m == Head(ctl)
  <2>1. ctl # <<>> /\ inbox' = Received(m) /\ ctl' = Tail(ctl) /\ UNCHANGED sOwner
    BY <1>8 DEF NetReceiveControl
  <2>2. /\ m \in Messages /\ m = ctl[1] /\ 1 \in DOMAIN ctl /\ DOMAIN ctl \subseteq Nat
        /\ \A i \in DOMAIN ctl :
             i = 1 \/ (i - 1 \in DOMAIN ctl' /\ ctl'[i - 1] = ctl[i])
    BY <1>b, <2>1
  <2> HIDE DEF m
  <2>3. LastTells(ctl, o, sOwner[o])'
    BY <1>b, <2>1, LastTail DEF ToldInv
  <2>4. ASSUME ~About(ctl, o)' PROVE LastTells(Received(m), o, sOwner[o])
    <3>1. \A i \in DOMAIN ctl : i # 1 => ctl[i].id # o
      BY <2>2, <2>4 DEF About
    <3>2. m.id = o => m.owner = sOwner[o]
      <4>1. \A j \in DOMAIN ctl : 1 < j => ctl[j].id # o
        BY <2>2, <3>1
      <4> QED
        BY <2>2, <4>1 DEF ToldInv, LastTells
    <3>3. m.id # o => LastTells(inbox, o, sOwner[o])
      <4>1. m.id # o => ~About(ctl, o)
        BY <2>2, <3>1 DEF About
      <4> QED
        BY <4>1 DEF ToldInv
    <3> QED
      BY <2>2, <3>2, <3>3, LastReceived
  <2> QED
    BY <2>1, <2>3, <2>4 DEF ToldInv, LastTells
<1>9. CASE Poll \/ NewSession
  <2>1. inbox' = <<>> /\ sOwner' = sOwner /\ (ctl' = ctl \/ ctl' = <<>>)
    BY <1>9 DEF Poll, NewSession
  <2> QED
    BY <2>1 DEF ToldInv, About, LastTells
<1> QED
  BY <1>3, <1>4, <1>5, <1>6, <1>7, <1>8, <1>9
     DEF Next, vars, RegisterObject, UnregisterObject, SubmitLocalPose, SetLocalIdentity,
         Time, NetReceiveRoom, NetSendPose, OtherMoves, ServerBroadcasts

\* Every action keeps what the client knows of an object's owner.
LEMMA KnownStep ==
    ASSUME TypeOK, [Next]_vars, NEW o \in Ids, ToldInv(o), KnownInv(o)
    PROVE  KnownInv(o)'
<1> USE DEF entryVars, pollVars, serverVars
<1>a. /\ localNo \in {Nobody, Me} /\ owner \in [Ids -> Owners]
      /\ shown \in [Ids -> Poses \cup {None}] /\ inbox \in Seq(Messages)
      /\ room \in Snapshots \cup {None} /\ sub \in Seq(Snapshots)
      /\ ctl \in Seq(OwnerMessages)
      /\ sOwner \in [Ids -> Owners] /\ sPose \in [Ids -> Poses]
  BY DEF TypeOK
<1> DEFINE Goal ==
      /\ sub' # <<>> => Shows(sub[Len(sub)], o)'
      /\ sub' = <<>> /\ room' # None => Shows(room, o)'
      /\ sub' = <<>> /\ room' = None /\ o \in registered' =>
           /\ sOwner'[o] # Me => shown'[o] = sPose'[o]
           /\ owner'[o] = sOwner'[o] \/ About(inbox, o)' \/ About(ctl, o)'
<1> SUFFICES ASSUME o \notin dirty' PROVE Goal
  BY DEF KnownInv
<1>0. ASSUME o \notin dirty, UNCHANGED <<sub, room, sOwner[o], sPose[o]>>,
             o \in registered' => o \in registered /\ UNCHANGED <<owner[o], shown[o]>>,
             About(inbox, o) \/ About(ctl, o) => About(inbox, o)' \/ About(ctl, o)'
      PROVE  Goal
  BY <1>0 DEF KnownInv, Shows
<1>1. ASSUME NEW x \in Ids, RegisterObject(x) PROVE Goal
  BY <1>0, <1>1 DEF RegisterObject, About
<1>2. ASSUME NEW x \in Ids, UnregisterObject(x) PROVE Goal
  BY <1>0, <1>2, <1>a DEF UnregisterObject, About
<1>3. ASSUME NEW x \in Ids, NEW new \in Owners, Grant(x, new),
             UNCHANGED <<entryVars, pollVars, sub, sPose>>
      PROVE  Goal
  <2>1. x # o /\ o \notin dirty /\ sOwner'[o] = sOwner[o]
    BY <1>3, <1>a DEF Grant
  <2>2. About(inbox, o) \/ About(ctl, o) => About(inbox, o)' \/ About(ctl, o)'
    BY <1>3, TellOther DEF Grant, About
  <2> QED
    BY <1>0, <1>3, <2>1, <2>2
<1>14. ASSUME NEW x \in Ids, ServerRepeats(x) PROVE Goal
  <2>1. About(inbox, o) \/ About(ctl, o) => About(inbox, o)' \/ About(ctl, o)'
    BY <1>14, <1>a, TellOther DEF ServerRepeats, About
  <2> QED
    BY <1>0, <1>14, <2>1 DEF ServerRepeats
<1>4. CASE NetReceiveUnrelated
  <2>1. /\ inbox' = Received(Unrelated) /\ dirty' = dirty \cup Dropped
        /\ UNCHANGED <<entryVars, room, ctl, sub, sOwner, sPose>>
    BY <1>4 DEF NetReceiveUnrelated
  <2>2. About(inbox, o) => About(Received(Unrelated), o)
    BY <2>1, MessageTypes, ReceivedFacts
  <2> QED
    BY <1>0, <2>1, <2>2 DEF About
<1>15. CASE NetReceiveControl
  <2> DEFINE m == Head(ctl)
  <2>1. /\ ctl # <<>> /\ inbox' = Received(m) /\ ctl' = Tail(ctl)
        /\ dirty' = dirty \cup Dropped
        /\ UNCHANGED <<entryVars, room, sub, sOwner, sPose>>
    BY <1>15 DEF NetReceiveControl
  <2>2. /\ m = ctl[1] /\ m \in Messages
        /\ \A i \in DOMAIN ctl : i = 1 \/ (i - 1 \in DOMAIN ctl' /\ ctl'[i - 1] = ctl[i])
    BY <1>a, <2>1, MessageTypes
  <2> HIDE DEF m
  <2>3. About(inbox, o) => About(Received(m), o)
    <3>1. o \in Ids \ Dropped
      BY <2>1
    <3> QED
      BY <2>2, <3>1, ReceivedFacts
  <2>4. m.id = o => About(Received(m), o)
    <3>1. \E i \in DOMAIN Received(m) : Received(m)[i] = m
      BY <2>2, ReceivedFacts
    <3> QED
      BY <3>1 DEF About
  <2>5. About(ctl, o) => m.id = o \/ About(ctl, o)'
    BY <2>2 DEF About
  <2> QED
    BY <1>0, <2>1, <2>3, <2>4, <2>5 DEF About
<1>5. CASE NewSession
  BY <1>5 DEF NewSession
<1>6. CASE Poll
  <2>1. /\ room' = None /\ UNCHANGED <<registered, serverVars>>
        /\ owner'[o] = RoomOwner(o) /\ shown'[o] = RoomPose(o)
    BY <1>6 DEF Poll
  <2>2. Shows(sub[Len(sub)], o)' <=> Shows(sub[Len(sub)], o)
    BY <2>1 DEF Shows
  <2>3. ASSUME sub = <<>>, o \in registered
        PROVE  /\ sOwner'[o] # Me => shown'[o] = sPose'[o]
               /\ owner'[o] = sOwner'[o] \/ About(ctl, o)'
    <3>1. CASE room # None
      <4>1. room.owner[o] = sOwner[o] /\ room.pose[o] = sPose[o]
        BY <2>1, <2>3, <3>1 DEF KnownInv, Shows
      <4>2. RoomOwner(o) = sOwner[o]
        BY <2>3, <3>1, <4>1 DEF RoomOwner
      <4>3. sOwner[o] # Me => RoomPose(o) = sPose[o]
        BY <1>a, <2>3, <3>1, <4>1, OwnersAssumption DEF RoomPose
      <4> QED
        BY <2>1, <4>2, <4>3
    <3>2. CASE room = None
      <4>1. /\ sOwner[o] # Me => shown[o] = sPose[o]
            /\ owner[o] = sOwner[o] \/ About(inbox, o) \/ About(ctl, o)
        BY <2>1, <2>3, <3>2 DEF KnownInv
      <4>2. RoomOwner(o) = OwnerTold(o) /\ RoomPose(o) = shown[o]
        BY <3>2 DEF RoomOwner, RoomPose
      <4>3. ASSUME ~About(ctl, o) PROVE OwnerTold(o) = sOwner[o]
        <5>1. LastTells(inbox, o, sOwner[o])
          BY <4>3 DEF ToldInv
        <5>2. CASE ToldOf(o) = {} /\ OwnerTold(o) = owner[o]
          BY <2>3, <4>1, <4>3, <5>2 DEF ToldOf, About
        <5>3. ASSUME NEW i \in DOMAIN inbox, inbox[i].id = o,
                     \A j \in DOMAIN inbox : i < j => inbox[j].id # o,
                     OwnerTold(o) = inbox[i].owner
              PROVE  OwnerTold(o) = sOwner[o]
          BY <5>1, <5>3 DEF LastTells
        <5> QED
          BY <5>2, <5>3, ToldFacts
      <4> QED
        BY <2>1, <4>1, <4>2, <4>3 DEF About
    <3> QED
      BY <3>1, <3>2
  <2> QED
    BY <2>1, <2>2, <2>3 DEF KnownInv
<1>7. CASE NetReceiveRoom
  <2>1. /\ sub # <<>> /\ room' = Head(sub) /\ sub' = Tail(sub)
        /\ UNCHANGED <<sOwner, sPose, dirty>>
    BY <1>7 DEF NetReceiveRoom
  <2>2. /\ Head(sub) \in Snapshots /\ Len(sub) \in Nat
        /\ sub' = <<>> => Head(sub) = sub[Len(sub)]
        /\ sub' # <<>> => sub'[Len(sub')] = sub[Len(sub)]
    <3>1. Len(sub) \in Nat /\ Len(sub) > 0 /\ Head(sub) \in Snapshots /\ Head(sub) = sub[1]
      BY <1>a, <2>1
    <3>2. Len(sub') = Len(sub) - 1 /\ \A i \in 1..Len(sub') : sub'[i] = sub[i + 1]
      BY <1>a, <2>1
    <3>3. sub' \in Seq(Snapshots)
      BY <1>a, <2>1
    <3>4. (sub' = <<>> => Len(sub') = 0) /\ (sub' # <<>> => Len(sub') > 0)
      BY <3>3
    <3> QED
      BY <3>1, <3>2, <3>4
  <2>3. Shows(sub[Len(sub)], o)
    BY <2>1 DEF KnownInv
  <2> QED
    BY <2>1, <2>2, <2>3, SnapshotsAssumption DEF Shows
<1>8. ASSUME NEW x \in Ids, NetSendPose(x) PROVE Goal
  <2>1. /\ UNCHANGED <<entryVars, pollVars, ctl, sub, sOwner>>
        /\ \/ UNCHANGED <<sPose, dirty>>
           \/ dirty' = dirty \cup {x} /\ sPose' = [sPose EXCEPT ![x] = slot[x]]
    BY <1>8 DEF NetSendPose
  <2>2. o \notin dirty /\ sPose'[o] = sPose[o]
    BY <1>a, <2>1
  <2> QED
    BY <1>0, <2>1, <2>2 DEF About
<1>9. ASSUME NEW x \in Ids, NEW p \in Poses, OtherMoves(x, p) PROVE Goal
  BY <1>0, <1>9, <1>a DEF OtherMoves, About
<1>10. CASE ServerBroadcasts
  <2> DEFINE m == [owner |-> sOwner, pose |-> sPose]
  <2>1. m \in Snapshots /\ m.owner = sOwner /\ m.pose = sPose
    BY <1>a DEF Snapshots
  <2>2. sub' = Append(sub, m) /\ UNCHANGED <<sOwner, sPose>>
    BY <1>10 DEF ServerBroadcasts
  <2> HIDE DEF m
  <2>3. sub' # <<>> /\ sub'[Len(sub')] = m
    BY <1>a, <2>1, <2>2, SMTT(40)
  <2> QED
    BY <2>1, <2>2, <2>3 DEF Shows
<1>11. ASSUME UNCHANGED <<registered, owner, shown, inbox, room, ctl, sub, sOwner, sPose,
                          dirty>>
       PROVE  Goal
  BY <1>0, <1>11 DEF About
<1>12. ASSUME NEW x \in Ids, NEW op \in {"request", "release"}, SendOwnershipRequest(x, op)
       PROVE  Goal
  <2>1. \/ \E new \in Owners : Grant(x, new) /\ UNCHANGED <<entryVars, pollVars, sub, sPose>>
        \/ UNCHANGED <<registered, owner, shown, inbox, room, ctl, sub, sOwner, sPose, dirty>>
    BY <1>12 DEF SendOwnershipRequest, ServerAnswers, Owners
  <2> QED
    BY <2>1, <1>3, <1>11
<1>13. ASSUME NEW x \in Ids, NEW new \in {Nobody, Other}, ServerMoves(x, new) PROVE Goal
  BY <1>3, <1>13 DEF ServerMoves, Owners
<1> QED
  BY <1>1, <1>2, <1>4, <1>5, <1>6, <1>7, <1>8, <1>9, <1>10, <1>11, <1>12, <1>13, <1>14,
     <1>15 DEF Next, vars, SubmitLocalPose, SetLocalIdentity, Time

-----------------------------------------------------------------------------
(* What the server has given to the client.                                *)

\* Every action keeps what the client was granted of an object.
LEMMA GrantedStep ==
    ASSUME TypeOK, [Next]_vars, NEW o \in Ids, GrantedInv(o)
    PROVE  GrantedInv(o)'
<1> USE DEF entryVars, pollVars, serverVars
<1>a. /\ owner \in [Ids -> Owners] /\ inbox \in Seq(Messages)
      /\ room \in Snapshots \cup {None} /\ sub \in Seq(Snapshots)
      /\ ctl \in Seq(OwnerMessages)
      /\ sOwner \in [Ids -> Owners] /\ Nobody # Me /\ Other # Me
  BY OwnersAssumption DEF TypeOK
<1> DEFINE Goal == /\ sOwner'[o] # Me /\ owner'[o] # Me
                   /\ \A i \in DOMAIN inbox' : inbox'[i].id = o => inbox'[i].owner # Me
                   /\ \A i \in DOMAIN ctl' : ctl'[i].id = o => ctl'[i].owner # Me
                   /\ room' # None => room'.owner[o] # Me
                   /\ \A i \in DOMAIN sub' : sub'[i].owner[o] # Me
<1> SUFFICES ASSUME o \notin granted' PROVE Goal
  BY DEF GrantedInv
<1>0. CASE NewSession
  <2>1. /\ owner'[o] = Nobody /\ inbox' = <<>> /\ ctl' = <<>> /\ room' = None
        /\ sub' = <<>> /\ sOwner' = sOwner /\ granted' = {x \in Ids : sOwner[x] = Me}
    BY <1>0 DEF NewSession, ClearedOwners
  <2> QED
    BY <1>a, <2>1
<1> SUFFICES ASSUME ~NewSession PROVE Goal
  BY <1>0
<1>b. o \notin granted
  <2>1. \/ granted' = granted
        \/ \E x \in Ids : granted' = granted \cup {x}
    BY DEF Next, vars, RegisterObject, UnregisterObject, SubmitLocalPose,
           SendOwnershipRequest, ServerAnswers, Grant, SetLocalIdentity, Time, Poll,
           NetReceiveRoom, NetReceiveControl, NetReceiveUnrelated, NetSendPose,
           ServerMoves, ServerRepeats, OtherMoves, ServerBroadcasts
  <2> QED
    BY <2>1
<1>c. /\ sOwner[o] # Me /\ owner[o] # Me
      /\ \A i \in DOMAIN inbox : inbox[i].id = o => inbox[i].owner # Me
      /\ \A i \in DOMAIN ctl : ctl[i].id = o => ctl[i].owner # Me
      /\ room # None => room.owner[o] # Me
      /\ \A i \in DOMAIN sub : sub[i].owner[o] # Me
  BY <1>b DEF GrantedInv
<1>1. ASSUME UNCHANGED <<sOwner[o], inbox, ctl, room, sub>>, owner'[o] \in {owner[o], Nobody}
      PROVE  Goal
  BY <1>1, <1>a, <1>c
<1>2. ASSUME NEW x \in Ids, UnregisterObject(x) PROVE Goal
  BY <1>1, <1>2, <1>a DEF UnregisterObject
<1>d. ASSUME NEW x \in Ids, NEW told \in Owners, Tell(x, told), x = o => told # Me,
             UNCHANGED <<entryVars, pollVars, sub>>, sOwner'[o] # Me
      PROVE  Goal
  <2>1. \A i \in DOMAIN ctl' : ctl'[i].id = o => ctl'[i].owner # Me
    BY <1>c, <1>d, TellOther
  <2> QED
    BY <1>c, <1>d, <2>1
<1>3. ASSUME NEW x \in Ids, NEW new \in Owners, Grant(x, new),
             UNCHANGED <<entryVars, pollVars, sub>>
      PROVE  Goal
  <2>1. x = o => new # Me
    BY <1>3 DEF Grant
  <2>2. sOwner'[o] # Me
    BY <1>3, <1>a, <1>c, <2>1 DEF Grant
  <2> QED
    BY <1>3, <1>d, <2>1, <2>2 DEF Grant
<1>11. ASSUME NEW x \in Ids, ServerRepeats(x) PROVE Goal
  <2>1. /\ Tell(x, sOwner[x]) /\ sOwner[x] \in Owners
        /\ UNCHANGED <<entryVars, pollVars, sub, sOwner>>
    BY <1>11, <1>a DEF ServerRepeats
  <2> QED
    BY <1>c, <1>d, <2>1
<1>4. CASE NetReceiveUnrelated
  <2>1. \A i \in DOMAIN inbox' : inbox'[i] = Unrelated
           \/ \E j \in DOMAIN inbox : inbox'[i] = inbox[j]
    BY <1>4, MessageTypes, ReceivedFacts DEF NetReceiveUnrelated
  <2> QED
    BY <1>4, <1>c, <2>1, MessageTypes DEF NetReceiveUnrelated
<1>12. CASE NetReceiveControl
  <2> DEFINE m == Head(ctl)
  <2>1. /\ ctl # <<>> /\ inbox' = Received(m) /\ ctl' = Tail(ctl)
        /\ UNCHANGED <<entryVars, room, sub, sOwner>>
    BY <1>12 DEF NetReceiveControl
  <2>2. /\ m = ctl[1] /\ 1 \in DOMAIN ctl /\ m \in Messages
        /\ \A i \in DOMAIN ctl' : i + 1 \in DOMAIN ctl /\ ctl'[i] = ctl[i + 1]
    BY <1>a, <2>1, MessageTypes
  <2> HIDE DEF m
  <2>3. \A i \in DOMAIN inbox' : inbox'[i] = m \/ \E j \in DOMAIN inbox : inbox'[i] = inbox[j]
    BY <2>1, <2>2, ReceivedFacts
  <2> QED
    BY <1>c, <2>1, <2>2, <2>3
<1>5. CASE Poll
  <2>1. /\ inbox' = <<>> /\ room' = None /\ UNCHANGED serverVars /\ owner'[o] = RoomOwner(o)
    BY <1>5 DEF Poll
  <2>2. RoomOwner(o) # Me
    BY <1>c, RoomOwnerFacts
  <2> QED
    BY <1>c, <2>1, <2>2
<1>6. CASE NetReceiveRoom
  <2>1. /\ sub # <<>> /\ room' = Head(sub) /\ sub' = Tail(sub)
        /\ UNCHANGED <<owner, sOwner, inbox, ctl>>
    BY <1>6 DEF NetReceiveRoom
  <2>2. /\ Head(sub) = sub[1] /\ 1 \in DOMAIN sub
        /\ \A i \in DOMAIN sub' : i + 1 \in DOMAIN sub /\ sub'[i] = sub[i + 1]
    BY <1>a, <2>1
  <2> QED
    BY <1>c, <2>1, <2>2
<1>7. CASE ServerBroadcasts
  <2> DEFINE m == [owner |-> sOwner, pose |-> sPose]
  <2>1. m \in Snapshots /\ m.owner = sOwner
    BY DEF Snapshots, TypeOK
  <2>2. sub' = Append(sub, m) /\ UNCHANGED <<owner, sOwner, inbox, ctl, room>>
    BY <1>7 DEF ServerBroadcasts
  <2> HIDE DEF m
  <2>3. \A i \in DOMAIN sub' : sub'[i] = m \/ (i \in DOMAIN sub /\ sub'[i] = sub[i])
    BY <1>a, <2>1, <2>2
  <2> QED
    BY <1>c, <2>1, <2>2, <2>3
<1>8. CASE UNCHANGED <<sOwner, owner, inbox, ctl, room, sub>>
  BY <1>1, <1>8
<1>9. ASSUME NEW x \in Ids, NEW op \in {"request", "release"}, SendOwnershipRequest(x, op)
      PROVE  Goal
  <2>1. \/ \E new \in Owners : Grant(x, new) /\ UNCHANGED <<entryVars, pollVars, sub>>
        \/ UNCHANGED <<sOwner, owner, inbox, ctl, room, sub>>
    BY <1>9 DEF SendOwnershipRequest, ServerAnswers, Owners
  <2> QED
    BY <2>1, <1>3, <1>8
<1>10. ASSUME NEW x \in Ids, NEW new \in {Nobody, Other}, ServerMoves(x, new) PROVE Goal
  BY <1>3, <1>10 DEF ServerMoves, Owners
<1> QED
  BY <1>2, <1>4, <1>5, <1>6, <1>7, <1>8, <1>9, <1>10, <1>11, <1>12
     DEF Next, vars, RegisterObject, SubmitLocalPose, SetLocalIdentity, Time, NetSendPose,
         OtherMoves

-----------------------------------------------------------------------------
(* The theorems.                                                           *)

\* Before the first session nothing is known, granted or under way.
LEMMA ObjectsInit == Init => ObjectsInv
<1> SUFFICES ASSUME Init PROVE ObjectsInv
  OBVIOUS
<1>1. TypeOK
  <2>1. /\ AgeMax \in 0..AgeMax /\ <<>> \in Seq(Messages) /\ Len(<<>>) <= InboxMax
        /\ <<>> \in Seq(Snapshots) /\ <<>> \in Seq(OwnerMessages)
        /\ Nobody \in Owners
    BY TimesAssumption, InboxAssumption DEF AgeMax, Owners
  <2>2. age \in [Ids -> 0..AgeMax] /\ owner \in [Ids -> Owners] /\ sOwner \in [Ids -> Owners]
    BY <2>1 DEF Init
  <2> QED
    BY <2>1, <2>2 DEF Init, Nothing, TypeOK, NoEntry
<1>2. \A o \in Ids : KnownInv(o)
  BY DEF Init, KnownInv
<1>3. \A o \in Ids : GrantedInv(o)
  BY OwnersAssumption DEF Init, GrantedInv
<1>4. \A o \in Ids : ToldInv(o)
  <2>1. ctl = <<>> /\ inbox = <<>>
    BY DEF Init
  <2> QED
    BY <2>1 DEF ToldInv, About, LastTells
<1> QED
  BY <1>1, <1>2, <1>3, <1>4 DEF ObjectsInv

\* The invariant of the manager, the two lanes and the server holds in every state.
THEOREM ObjectsInvariant == Spec => []ObjectsInv
<1>1. ObjectsInv /\ [Next]_vars => ObjectsInv'
  BY TypeOKStep, ToldStep, KnownStep, GrantedStep DEF ObjectsInv
<1> QED
  BY <1>1, ObjectsInit, PTL DEF Spec

\* Every variable keeps its type, control_inbox_ its limit, and objects_ holds
\* nothing of an object that the host has not registered.
THEOREM ObjectsTypeCorrect == Spec => []TypeOK
<1>1. ObjectsInv => TypeOK
  BY DEF ObjectsInv
<1> QED
  BY <1>1, ObjectsInvariant, PTL

\* However the control lane and the room-objects snapshots overtake each other,
\* each with any number of messages on its way,
\* handle_ownership_changed and handle_room_objects end up with the server's owner,
\* and with its pose of an object that is not this client's.
THEOREM OwnerAlwaysCoherent == Spec => []OwnerCoherent
<1>1. ObjectsInv => OwnerCoherent
  BY DEF ObjectsInv, KnownInv, About, OwnerCoherent, Settled
<1> QED
  BY <1>1, ObjectsInvariant, PTL

\* tick() publishes no pose of an object that the server has not had as this
\* client's in this session, although connect() does not tell the server that
\* the earlier session is over.
THEOREM OnlyGrantedPublished == Spec => PublishesOnlyGranted
<1> DEFINE Publishes == \A o \in Ids : slot'[o] # None /\ slot'[o] # slot[o] => o \in granted
<1>1. ASSUME ObjectsInv, [Next]_vars PROVE [Publishes]_vars
  <2> SUFFICES ASSUME Next, NEW o \in Ids, slot'[o] # None, slot'[o] # slot[o]
               PROVE  o \in granted
    BY <1>1 DEF vars
  <2>1. TypeOK /\ GrantedInv(o) /\ localNo \in {Nobody, Me} /\ slot \in [Ids -> Poses \cup {None}]
    BY <1>1 DEF ObjectsInv, TypeOK
  <2>2. Poll
    BY <2>1 DEF Next, entryVars, pollVars, serverVars, RegisterObject, UnregisterObject,
         SubmitLocalPose, SendOwnershipRequest, SetLocalIdentity, NewSession, Nothing, Time,
         NetReceiveRoom, NetReceiveControl, NetReceiveUnrelated, NetSendPose,
         ServerMoves, ServerRepeats, OtherMoves, ServerBroadcasts
  <2>3. Due(o)
    BY <2>2 DEF Poll
  <2>4. RoomOwner(o) = Me
    BY <2>1, <2>3 DEF Due
  <2> QED
    BY <2>1, <2>4, RoomOwnerFacts DEF GrantedInv
<1> QED
  BY <1>1, ObjectsInvariant, PTL DEF Spec, PublishesOnlyGranted
=============================================================================
