----------------------- MODULE NetworkVariablesProofs -----------------------
(***************************************************************************)
(* Proofs about module NetworkVariables for every set of variables, values *)
(* and scopes, every cooldown and any number of packets and snapshots.     *)
(***************************************************************************)
EXTENDS NetworkVariables, TLAPS

-----------------------------------------------------------------------------
(* The inductive invariant, per variable.                                  *)

\* The last packet about k in the queue sets it to v.
LastSets(k, v) ==
    \E i \in DOMAIN up :
        /\ up[i] = SetPacket(k, v)
        /\ \A j \in DOMAIN up : j > i => ~About(up[j], k)

\* A value of a global that is held back is the host's last word and has its
\* deadline.
PendingInv(k) ==
    /\ pending[k] # None => pending[k] = intent[k] /\ due[k] # None
    /\ due[k] # None => due[k] \in 0..Debounce

\* What v stands for when it is believed to be our last word on k: it is the last
\* thing queued, or the server has it, unless it was lost or overwritten.
LastWord(k, v) ==
    /\ InUp(k) => LastSets(k, v)
    /\ ~InUp(k) /\ ~foreign[k] /\ ~lost[k] => server[k] = v

\* The server never forgets a global.
NeverGone(k) ==
    server[k] = None => cache[k] = None /\ \A i \in DOMAIN down : down[i].values[k] = None

GlobalInv(k) ==
    /\ PendingInv(k)
    /\ \A v \in Values : lastSent[k] = v => LastWord(k, v)
    /\ \A v \in Values : intent[k] = v /\ pending[k] = None => LastWord(k, v)
    /\ NeverGone(k)

\* A client variable that is taken for sent, and that no snapshot has shown, is
\* queued or on the server.
ClientInv(k) ==
    lastSent[k] # None /\ cache[k] = None =>
        /\ InUp(k) => \E v \in Values : LastSets(k, v)
        /\ ~InUp(k) /\ ~lost[k] => server[k] # None

\* The newest snapshot under way shows the server's value unless it has changed.
IsNewest(i, k) ==
    /\ i \in DOMAIN down /\ down[i].scope = Scope[k]
    /\ \A j \in DOMAIN down : j > i => down[j].scope # Scope[k]
SnapshotInv(k) ==
    /\ ~dirty[k] => \A i \in DOMAIN down : IsNewest(i, k) => down[i].values[k] = server[k]
    /\ foreign[k] => server[k] # None

CoherentAt(k) ==
    Settled(k) => cache[k] = server[k] /\ lastSent[k] \in {None, server[k]}

VariablesInv ==
    /\ TypeOK
    /\ \A k \in Keys : SnapshotInv(k) /\ CoherentAt(k)
    /\ \A k \in InScope(Global) : GlobalInv(k)
    /\ \A k \in Keys : Scope[k] # Global => ClientInv(k)

-----------------------------------------------------------------------------
(* Types.                                                                  *)

\* A key belongs to one of the scopes.
LEMMA ScopeType == \A k \in Keys : Scope[k] \in Scopes
  BY DEF Scopes

\* The packets of a write and of a clear.
LEMMA PacketFacts ==
    ASSUME NEW k \in Keys, NEW v \in Values
    PROVE  /\ SetPacket(k, v) \in Packets /\ ClearPacket \in Packets
           /\ SetPacket(k, v).op = "set" /\ SetPacket(k, v).key = k
           /\ SetPacket(k, v).value = v
           /\ ClearPacket.op = "clear"
  BY DEF SetPacket, ClearPacket, Packets

\* Taking entries out of a map keeps its type.
LEMMA WithoutType ==
    ASSUME NEW S, NEW f \in [Keys -> S], NEW K, NEW none \in S
    PROVE  Without(f, K, none) \in [Keys -> S]
  BY DEF Without

\* What one entry of a map is after Without.
LEMMA WithoutAt ==
    ASSUME NEW f, NEW K, NEW none, NEW k \in Keys
    PROVE  Without(f, K, none)[k] = IF k \in K THEN none ELSE f[k]
  BY DEF Without

\* try_send_*_now, accepted or refused, keeps the types.
LEMMA SendType ==
    ASSUME TypeOK, NEW k \in Keys, NEW v \in Values, Accept(k, v) \/ Refuse
    PROVE  /\ up' \in Seq(Packets)
           /\ lastSent' \in [Keys -> MaybeValues]
           /\ nextAllowed' \in [Keys -> 0..Debounce]
<1>a. up \in Seq(Packets) /\ lastSent \in [Keys -> MaybeValues]
      /\ nextAllowed \in [Keys -> 0..Debounce]
  BY DEF TypeOK
<1>1. CASE Refuse
  BY <1>1, <1>a DEF Refuse
<1>2. CASE Accept(k, v)
  <2>1. SetPacket(k, v) \in Packets
    BY PacketFacts
  <2>2. up' = Append(up, SetPacket(k, v))
    BY <1>2 DEF Accept
  <2>3. up' \in Seq(Packets)
    BY <1>a, <2>1, <2>2
  <2>4. Debounce \in 0..Debounce
    BY LimitsAssumption
  <2>5. nextAllowed' \in [Keys -> 0..Debounce]
    BY <1>2, <1>a, <2>4 DEF Accept
  <2>6. lastSent' \in [Keys -> MaybeValues]
    BY <1>2, <1>a DEF Accept, MaybeValues
  <2> QED
    BY <2>3, <2>5, <2>6
<1> QED
  BY <1>1, <1>2

\* Every action keeps the types.
LEMMA TypeOKStep ==
    ASSUME TypeOK, [Next]_vars
    PROVE  TypeOK'
<1> USE DEF clientVars, serverVars
<1>a. /\ cache \in [Keys -> MaybeValues] /\ lastSent \in [Keys -> MaybeValues]
      /\ nextAllowed \in [Keys -> 0..Debounce] /\ pending \in [Keys -> MaybeValues]
      /\ due \in [Keys -> Nat \cup {None}]
      /\ up \in Seq(Packets) /\ down \in Seq(Snapshots)
      /\ server \in [Keys -> MaybeValues] /\ intent \in [Keys -> MaybeValues]
      /\ foreign \in [Keys -> BOOLEAN] /\ lost \in [Keys -> BOOLEAN]
      /\ dirty \in [Keys -> BOOLEAN]
  BY DEF TypeOK
<1>b. None \in MaybeValues /\ None \in Nat \cup {None}
      /\ Values \subseteq MaybeValues /\ 0..Debounce \subseteq Nat
      /\ 0 \in 0..Debounce /\ Debounce \in Nat
  BY LimitsAssumption DEF MaybeValues
<1>c. <<>> \in Seq(Packets) /\ <<>> \in Seq(Snapshots)
  OBVIOUS
<1>d. Nothing \in [Keys -> MaybeValues] /\ Nothing \in [Keys -> Nat \cup {None}]
  BY <1>b DEF Nothing
<1>1. ASSUME NEW k \in Keys, NEW v \in Values, SetVariable(k, v)
      PROVE  TypeOK'
  <2>1. Accept(k, v) \/ Refuse
    BY <1>1 DEF SetVariable, Dedupe, SendNow, Defer, Refuse
  <2>2. /\ up' \in Seq(Packets) /\ lastSent' \in [Keys -> MaybeValues]
        /\ nextAllowed' \in [Keys -> 0..Debounce]
    BY <2>1, SendType
  <2>3. \/ pending' = [pending EXCEPT ![k] = None]
        \/ pending' = [pending EXCEPT ![k] = v]
    BY <1>1 DEF SetVariable, Dedupe, SendNow, Defer
  <2>4. pending' \in [Keys -> MaybeValues]
    BY <1>a, <1>b, <2>3
  <2>5. \/ due' = [due EXCEPT ![k] = None]
        \/ due' = [due EXCEPT ![k] = Deadline(k, Debounce)]
        \/ due' = [due EXCEPT ![k] = Deadline(k, nextAllowed[k])]
    BY <1>1 DEF SetVariable, Dedupe, SendNow, Defer
  <2>6. /\ Deadline(k, Debounce) \in Nat \cup {None}
        /\ Deadline(k, nextAllowed[k]) \in Nat \cup {None}
    BY <1>a, <1>b DEF Deadline
  <2>7. due' \in [Keys -> Nat \cup {None}]
    BY <1>a, <1>b, <2>5, <2>6
  <2>8. intent' \in [Keys -> MaybeValues] /\ UNCHANGED <<cache, down, serverVars>>
    BY <1>1, <1>a, <1>b DEF SetVariable
  <2> QED
    BY <1>a, <2>2, <2>4, <2>7, <2>8 DEF TypeOK
<1>2. ASSUME NEW k \in Keys, Tick(k)
      PROVE  TypeOK'
  <2>1. pending[k] \in Values /\ (Accept(k, pending[k]) \/ Refuse)
        /\ UNCHANGED <<cache, down, intent, serverVars>>
    BY <1>2, <1>a DEF Tick, Flush, MaybeValues
  <2>2. /\ up' \in Seq(Packets) /\ lastSent' \in [Keys -> MaybeValues]
        /\ nextAllowed' \in [Keys -> 0..Debounce]
    BY <2>1, SendType
  <2>3. /\ pending' \in {pending, [pending EXCEPT ![k] = None]}
        /\ due' \in {due, [due EXCEPT ![k] = None]}
    BY <1>2 DEF Tick, Flush
  <2>4. pending' \in [Keys -> MaybeValues] /\ due' \in [Keys -> Nat \cup {None}]
    BY <1>a, <1>b, <2>3, ZenonT(40)
  <2> QED
    BY <1>a, <2>1, <2>2, <2>4 DEF TypeOK
<1>3. CASE Time
  <2>1. nextAllowed' \in [Keys -> 0..Debounce]
    <3>1. \A k \in Keys : (IF nextAllowed[k] = 0 THEN 0 ELSE nextAllowed[k] - 1) \in 0..Debounce
      BY <1>a, <1>b
    <3> QED
      BY <1>3, <3>1 DEF Time
  <2>2. due' \in [Keys -> Nat \cup {None}]
    <3>1. \A k \in Keys :
            (IF due[k] \in {None, 0} THEN due[k] ELSE due[k] - 1) \in Nat \cup {None}
      BY <1>a
    <3> QED
      BY <1>3, <3>1 DEF Time
  <2> QED
    BY <1>3, <1>a, <2>1, <2>2 DEF Time, TypeOK
<1>4. CASE ClearMyClientVariables
  <2>1. ClearPacket \in Packets
    BY DEF Packets
  <2>2. up' = Append(up, ClearPacket) /\ UNCHANGED <<down, serverVars>>
    BY <1>4 DEF ClearMyClientVariables
  <2>3. up' \in Seq(Packets)
    BY <1>a, <2>1, <2>2
  <2>4. /\ cache' = Without(cache, InScope(Mine), None)
        /\ pending' = Without(pending, InScope(Mine), None)
        /\ due' = Without(due, InScope(Mine), None)
        /\ lastSent' = Without(lastSent, InScope(Mine), None)
        /\ nextAllowed' = Without(nextAllowed, InScope(Mine), 0)
        /\ intent' = Without(intent, InScope(Mine), None)
    BY <1>4 DEF ClearMyClientVariables
  <2>5. /\ cache' \in [Keys -> MaybeValues] /\ pending' \in [Keys -> MaybeValues]
        /\ lastSent' \in [Keys -> MaybeValues] /\ intent' \in [Keys -> MaybeValues]
    BY <1>a, <1>b, <2>4, WithoutType
  <2>6. due' \in [Keys -> Nat \cup {None}] /\ nextAllowed' \in [Keys -> 0..Debounce]
    BY <1>a, <1>b, <2>4, WithoutType
  <2> QED
    BY <1>a, <2>2, <2>3, <2>5, <2>6 DEF TypeOK
<1>5. CASE ClearAll
  <2>1. /\ nextAllowed' \in [Keys -> 0..Debounce] /\ dirty' \in [Keys -> BOOLEAN]
    BY <1>5, <1>b DEF ClearAll
  <2> QED
    BY <1>5, <1>a, <1>c, <1>d, <2>1 DEF ClearAll, TypeOK
<1>6. CASE HandleGlobalSync
  <2>1. down # <<>> /\ Head(down) \in Snapshots /\ down' \in Seq(Snapshots)
    BY <1>6, <1>a DEF HandleGlobalSync
  <2> DEFINE m == Head(down).values
  <2>2. m \in [Keys -> MaybeValues]
    BY <2>1 DEF Snapshots
  <2>3. /\ ReconcileGlobal(m) /\ UNCHANGED <<nextAllowed, up, intent, serverVars>>
        /\ cache' = [k \in Keys |->
                      IF Scope[k] = Global /\ m[k] # None THEN m[k] ELSE cache[k]]
    BY <1>6 DEF HandleGlobalSync
  <2> HIDE DEF m
  <2>4. cache' \in [Keys -> MaybeValues]
    BY <1>a, <2>2, <2>3
  <2>5. PICK A, B : /\ pending' = Without(pending, A, None)
                    /\ due' = Without(due, A, None)
                    /\ lastSent' = Without(lastSent, B, None)
    BY <2>3 DEF ReconcileGlobal
  <2>6. pending' \in [Keys -> MaybeValues] /\ lastSent' \in [Keys -> MaybeValues]
    BY <1>a, <1>b, <2>5, WithoutType
  <2>7. due' \in [Keys -> Nat \cup {None}]
    BY <1>a, <1>b, <2>5, WithoutType
  <2> QED
    BY <1>a, <2>1, <2>3, <2>4, <2>6, <2>7 DEF TypeOK
<1>7. CASE HandleClientSync
  <2>1. down # <<>> /\ Head(down) \in Snapshots /\ down' \in Seq(Snapshots)
    BY <1>7, <1>a DEF HandleClientSync
  <2> DEFINE m == Head(down).values
             block == InScope(Head(down).scope)
             removed == {k \in block : cache[k] # None /\ m[k] = None}
             told == {k \in block : m[k] # None}
             done == {k \in removed : Redundant(k)}
                     \cup {k \in told : pending[k] = m[k]}
  <2>2. m \in [Keys -> MaybeValues]
    BY <2>1 DEF Snapshots
  <2>3. /\ UNCHANGED <<nextAllowed, up, intent, serverVars>>
        /\ pending' = Without(pending, done, None)
        /\ due' = Without(due, done, None)
        /\ lastSent' = [k \in Keys |-> IF k \in told THEN m[k]
                                       ELSE IF k \in removed THEN None
                                       ELSE lastSent[k]]
        /\ cache' = [k \in Keys |-> IF k \in block THEN m[k] ELSE cache[k]]
    BY <1>7 DEF HandleClientSync
  <2> HIDE DEF m, block, removed, told, done
  <2>4. cache' \in [Keys -> MaybeValues] /\ lastSent' \in [Keys -> MaybeValues]
    BY <1>a, <1>b, <2>2, <2>3
  <2>5. pending' \in [Keys -> MaybeValues]
    BY <1>a, <1>b, <2>3, WithoutType
  <2>6. due' \in [Keys -> Nat \cup {None}]
    BY <1>a, <1>b, <2>3, WithoutType
  <2> QED
    BY <1>a, <2>1, <2>3, <2>4, <2>5, <2>6 DEF TypeOK
<1>8. CASE ServerApplies
  <2>1. up # <<>> /\ Head(up) \in Packets /\ up' \in Seq(Packets)
        /\ UNCHANGED <<clientVars, down, intent>>
    BY <1>8, <1>a DEF ServerApplies
  <2> DEFINE p == Head(up)
             K == {k \in Keys : About(p, k)}
  <2>2. /\ server' = [k \in Keys |-> IF k \notin K THEN server[k]
                                     ELSE IF p.op = "set" THEN p.value ELSE None]
        /\ foreign' = Without(foreign, K, FALSE)
        /\ lost' = Without(lost, K, FALSE)
        /\ dirty' = Without(dirty, K, TRUE)
    BY <1>8 DEF ServerApplies
  <2>3. p.op = "set" => p.value \in MaybeValues
    BY <2>1, <1>b DEF Packets, SetPacket, ClearPacket
  <2> HIDE DEF p, K
  <2>4. server' \in [Keys -> MaybeValues]
    BY <1>a, <1>b, <2>2, <2>3
  <2>5. FALSE \in BOOLEAN /\ TRUE \in BOOLEAN
    OBVIOUS
  <2>6. /\ foreign' \in [Keys -> BOOLEAN] /\ lost' \in [Keys -> BOOLEAN]
        /\ dirty' \in [Keys -> BOOLEAN]
    BY <1>a, <2>2, <2>5, WithoutType
  <2> QED
    BY <1>a, <2>1, <2>4, <2>6 DEF TypeOK
<1>9. CASE PacketExpires
  <2>1. up' \in Seq(Packets) /\ UNCHANGED <<clientVars, down, intent, server, foreign, dirty>>
    BY <1>9, <1>a DEF PacketExpires
  <2>2. lost' \in [Keys -> BOOLEAN]
    BY <1>9, <1>a, WithoutType DEF PacketExpires
  <2> QED
    BY <1>a, <2>1, <2>2 DEF TypeOK
<1>10. ASSUME NEW k \in Keys, NEW v \in Values, OtherClientSets(k, v)
       PROVE  TypeOK'
  BY <1>10, <1>a, <1>b DEF OtherClientSets, TypeOK
<1>11. ASSUME NEW s \in Scopes, ServerSyncs(s)
       PROVE  TypeOK'
  <2> DEFINE m == [scope |-> s, values |->
                     [k \in Keys |-> IF Scope[k] = s THEN server[k] ELSE None]]
  <2>1. m \in Snapshots
    BY <1>a, <1>b DEF Snapshots
  <2>2. down' = Append(down, m) /\ dirty' = Without(dirty, InScope(s), FALSE)
        /\ UNCHANGED <<clientVars, up, intent, server, foreign, lost>>
    BY <1>11 DEF ServerSyncs
  <2> HIDE DEF m
  <2>3. down' \in Seq(Snapshots)
    BY <1>a, <2>1, <2>2
  <2>4. dirty' \in [Keys -> BOOLEAN]
    BY <1>a, <2>2, WithoutType
  <2> QED
    BY <1>a, <2>2, <2>3, <2>4 DEF TypeOK
<1>12. CASE UNCHANGED vars
  BY <1>12, <1>a DEF vars, TypeOK
<1> QED
  BY <1>1, <1>2, <1>3, <1>4, <1>5, <1>6, <1>7, <1>8, <1>9, <1>10, <1>11, <1>12
     DEF Next, SetGlobal, SetClient

-----------------------------------------------------------------------------
(* The queue towards the server, as one variable sees it.                  *)

\* A packet about a variable other than our own sets it.
LEMMA AboutFacts ==
    ASSUME NEW k \in Keys
    PROVE  /\ \A j \in Keys, v \in Values : About(SetPacket(j, v), k) <=> j = k
           /\ About(ClearPacket, k) <=> Scope[k] = Mine
           /\ \A p \in Packets : About(p, k) =>
                \/ \E v \in Values : p = SetPacket(k, v)
                \/ p = ClearPacket /\ Scope[k] = Mine
  BY DEF About, SetPacket, ClearPacket, Packets

\* A packet joins the queue.
LEMMA UpAppend ==
    ASSUME up \in Seq(Packets), NEW p \in Packets, up' = Append(up, p), NEW k \in Keys
    PROVE  /\ InUp(k)' <=> InUp(k) \/ About(p, k)
           /\ ~About(p, k) => \A v \in Values : LastSets(k, v) => LastSets(k, v)'
           /\ \A v \in Values : p = SetPacket(k, v) => LastSets(k, v)'
<1>1. /\ DOMAIN up' = DOMAIN up \cup {Len(up) + 1}
      /\ \A i \in DOMAIN up : up'[i] = up[i]
      /\ up'[Len(up) + 1] = p
      /\ \A i \in DOMAIN up : ~(i > Len(up) + 1)
      /\ ~(Len(up) + 1 > Len(up) + 1)
  OBVIOUS
<1>2. InUp(k)' <=> InUp(k) \/ About(p, k)
  BY <1>1 DEF InUp, About
<1>3. ASSUME ~About(p, k), NEW v \in Values, LastSets(k, v) PROVE LastSets(k, v)'
  BY <1>1, <1>3 DEF LastSets, About, SetPacket
<1>4. ASSUME NEW v \in Values, p = SetPacket(k, v) PROVE LastSets(k, v)'
  BY <1>1, <1>4 DEF LastSets, About, SetPacket
<1> QED
  BY <1>2, <1>3, <1>4

\* A packet leaves it.
LEMMA UpTail ==
    ASSUME up \in Seq(Packets), up # <<>>, up' = Tail(up), NEW k \in Keys
    PROVE  /\ InUp(k) <=> InUp(k)' \/ About(Head(up), k)
           /\ \A v \in Values : LastSets(k, v) /\ InUp(k)' => LastSets(k, v)'
           /\ \A v \in Values : LastSets(k, v) /\ ~InUp(k)' => Head(up) = SetPacket(k, v)
<1>1. /\ \A i \in DOMAIN up' : i + 1 \in DOMAIN up /\ up'[i] = up[i + 1] /\ i \in Nat
      /\ \A i \in DOMAIN up : i = 1 \/ (i - 1 \in DOMAIN up' /\ up'[i - 1] = up[i] /\ i \in Nat)
      /\ 1 \in DOMAIN up /\ Head(up) = up[1]
  OBVIOUS
<1>2. InUp(k) <=> InUp(k)' \/ About(Head(up), k)
  BY <1>1, SMTT(40) DEF InUp, About
<1>3. ASSUME NEW v \in Values, LastSets(k, v)
      PROVE  /\ InUp(k)' => LastSets(k, v)'
             /\ ~InUp(k)' => Head(up) = SetPacket(k, v)
  <2>1. PICK i \in DOMAIN up : /\ up[i] = SetPacket(k, v)
                               /\ \A j \in DOMAIN up : j > i => ~About(up[j], k)
    BY <1>3 DEF LastSets
  <2>2. CASE i = 1
    <3>1. ASSUME NEW j \in DOMAIN up' PROVE ~About(up'[j], k)
      <4>1. j + 1 \in DOMAIN up /\ up'[j] = up[j + 1] /\ j + 1 > i
        BY <1>1, <2>2
      <4> QED
        BY <2>1, <4>1
    <3>2. ~InUp(k)'
      BY <3>1 DEF InUp, About
    <3> QED
      BY <1>1, <2>1, <2>2, <3>2
  <2>3. CASE i # 1
    <3>1. i - 1 \in DOMAIN up' /\ up'[i - 1] = SetPacket(k, v)
      BY <1>1, <2>1, <2>3
    <3>2. ASSUME NEW j \in DOMAIN up', j > i - 1 PROVE ~About(up'[j], k)
      <4>1. j + 1 \in DOMAIN up /\ up'[j] = up[j + 1] /\ j + 1 > i
        BY <1>1, <2>1, <3>1, <3>2
      <4> QED
        BY <2>1, <4>1
    <3>3. LastSets(k, v)'
      BY <3>1, <3>2 DEF LastSets, About, SetPacket
    <3>4. InUp(k)'
      BY <3>1, AboutFacts DEF InUp, About
    <3> QED
      BY <3>3, <3>4
  <2> QED
    BY <2>2, <2>3
<1> QED
  BY <1>2, <1>3

\* What the arrival of a packet does to one variable.
LEMMA AppliesAt ==
    ASSUME TypeOK, ServerApplies, NEW k \in Keys
    PROVE  /\ up # <<>> /\ Head(up) \in Packets /\ up' = Tail(up)
           /\ UNCHANGED <<clientVars, down, intent>>
           /\ About(Head(up), k) =>
                /\ server'[k] = IF Head(up).op = "set" THEN Head(up).value ELSE None
                /\ ~foreign'[k] /\ ~lost'[k] /\ dirty'[k]
           /\ ~About(Head(up), k) =>
                /\ server'[k] = server[k] /\ foreign'[k] = foreign[k]
                /\ lost'[k] = lost[k] /\ dirty'[k] = dirty[k]
<1>1. up # <<>> /\ up' = Tail(up) /\ UNCHANGED <<clientVars, down, intent>>
  BY DEF ServerApplies
<1>2. Head(up) \in Packets
  BY <1>1 DEF TypeOK
<1> DEFINE p == Head(up)
           K == {j \in Keys : About(p, j)}
<1>3. /\ server' = [j \in Keys |-> IF j \notin K THEN server[j]
                                   ELSE IF p.op = "set" THEN p.value ELSE None]
      /\ foreign' = Without(foreign, K, FALSE)
      /\ lost' = Without(lost, K, FALSE)
      /\ dirty' = Without(dirty, K, TRUE)
  BY DEF ServerApplies
<1>4. k \in K <=> About(p, k)
  OBVIOUS
<1> HIDE DEF K
<1>5. server'[k] = IF k \notin K THEN server[k]
                   ELSE IF p.op = "set" THEN p.value ELSE None
  BY <1>3
<1>6. /\ foreign'[k] = IF k \in K THEN FALSE ELSE foreign[k]
      /\ lost'[k] = IF k \in K THEN FALSE ELSE lost[k]
      /\ dirty'[k] = IF k \in K THEN TRUE ELSE dirty[k]
  BY <1>3 DEF Without
<1> QED
  BY <1>1, <1>2, <1>4, <1>5, <1>6

\* What the loss of a packet does to one variable.
LEMMA ExpiresAt ==
    ASSUME PacketExpires, NEW k \in Keys
    PROVE  /\ up # <<>> /\ up' = Tail(up)
           /\ UNCHANGED <<clientVars, down, intent, server, foreign, dirty>>
           /\ About(Head(up), k) => lost'[k]
           /\ ~About(Head(up), k) => lost'[k] = lost[k]
<1> DEFINE K == {j \in Keys : About(Head(up), j)}
<1>1. lost' = Without(lost, K, TRUE)
  BY DEF PacketExpires
<1>2. k \in K <=> About(Head(up), k)
  OBVIOUS
<1> HIDE DEF K
<1>3. lost'[k] = IF k \in K THEN TRUE ELSE lost[k]
  BY <1>1 DEF Without
<1>4. /\ up # <<>> /\ up' = Tail(up)
      /\ UNCHANGED <<clientVars, down, intent, server, foreign, dirty>>
  BY DEF PacketExpires
<1> QED
  BY <1>2, <1>3, <1>4

\* What a snapshot of the globals does to one variable.
LEMMA GlobalSyncAt ==
    ASSUME TypeOK, HandleGlobalSync, NEW k \in Keys
    PROVE  /\ down # <<>> /\ Head(down) \in Snapshots /\ Head(down).scope = Global
           /\ down' = Tail(down)
           /\ UNCHANGED <<nextAllowed, up, intent, serverVars>>
           /\ Scope[k] = Global /\ Head(down).values[k] # None =>
                /\ cache'[k] = Head(down).values[k]
                /\ lastSent'[k] = IF lastSent[k] = Head(down).values[k]
                                  THEN lastSent[k] ELSE None
           /\ Scope[k] # Global \/ Head(down).values[k] = None =>
                UNCHANGED <<cache[k], lastSent[k]>>
           /\ \/ UNCHANGED <<pending[k], due[k]>>
              \/ pending[k] = lastSent[k] /\ pending'[k] = None /\ due'[k] = None
<1>1. /\ down # <<>> /\ Head(down).scope = Global /\ down' = Tail(down)
      /\ UNCHANGED <<nextAllowed, up, intent, serverVars>>
  BY DEF HandleGlobalSync
<1>2. Head(down) \in Snapshots
  BY <1>1 DEF TypeOK
<1> DEFINE m == Head(down).values
           told == {j \in InScope(Global) : m[j] # None}
           A == {j \in told : Redundant(j)}
           B == {j \in told : lastSent[j] # m[j]}
<1>3. /\ cache' = [j \in Keys |->
                      IF Scope[j] = Global /\ m[j] # None THEN m[j] ELSE cache[j]]
      /\ pending' = Without(pending, A, None)
      /\ due' = Without(due, A, None)
      /\ lastSent' = Without(lastSent, B, None)
  BY DEF HandleGlobalSync, ReconcileGlobal
<1>4. /\ k \in A => pending[k] = lastSent[k]
      /\ k \in B <=> Scope[k] = Global /\ m[k] # None /\ lastSent[k] # m[k]
  BY DEF Redundant, InScope
<1> HIDE DEF m, A, B
<1>5. /\ pending'[k] = IF k \in A THEN None ELSE pending[k]
      /\ due'[k] = IF k \in A THEN None ELSE due[k]
      /\ lastSent'[k] = IF k \in B THEN None ELSE lastSent[k]
  BY <1>3 DEF Without
<1>6. cache'[k] = IF Scope[k] = Global /\ m[k] # None THEN m[k] ELSE cache[k]
  BY <1>3
<1> USE DEF m
<1> QED
  BY <1>1, <1>2, <1>4, <1>5, <1>6

\* What the snapshot of a client does to one variable.
LEMMA ClientSyncAt ==
    ASSUME TypeOK, HandleClientSync, NEW k \in Keys
    PROVE  /\ down # <<>> /\ Head(down) \in Snapshots /\ Head(down).scope # Global
           /\ down' = Tail(down)
           /\ UNCHANGED <<nextAllowed, up, intent, serverVars>>
           /\ Scope[k] = Head(down).scope =>
                /\ cache'[k] = Head(down).values[k]
                /\ Head(down).values[k] # None => lastSent'[k] = Head(down).values[k]
                /\ Head(down).values[k] = None =>
                     lastSent'[k] = IF cache[k] # None THEN None ELSE lastSent[k]
           /\ Scope[k] # Head(down).scope =>
                UNCHANGED <<cache[k], lastSent[k], pending[k], due[k]>>
<1>1. /\ down # <<>> /\ Head(down).scope # Global /\ down' = Tail(down)
      /\ UNCHANGED <<nextAllowed, up, intent, serverVars>>
  BY DEF HandleClientSync
<1>2. Head(down) \in Snapshots
  BY <1>1 DEF TypeOK
<1> DEFINE m == Head(down).values
           block == InScope(Head(down).scope)
           removed == {j \in block : cache[j] # None /\ m[j] = None}
           told == {j \in block : m[j] # None}
           done == {j \in removed : Redundant(j)}
                   \cup {j \in told : pending[j] = m[j]}
<1>3. /\ pending' = Without(pending, done, None)
      /\ due' = Without(due, done, None)
      /\ lastSent' = [j \in Keys |-> IF j \in told THEN m[j]
                                     ELSE IF j \in removed THEN None
                                     ELSE lastSent[j]]
      /\ cache' = [j \in Keys |-> IF j \in block THEN m[j] ELSE cache[j]]
  BY DEF HandleClientSync
<1>4. /\ k \in block <=> Scope[k] = Head(down).scope
      /\ k \in told <=> k \in block /\ m[k] # None
      /\ k \in removed <=> k \in block /\ cache[k] # None /\ m[k] = None
      /\ k \in done => k \in block
  BY DEF InScope
<1> HIDE DEF m, block, removed, told, done
<1>5. /\ pending'[k] = IF k \in done THEN None ELSE pending[k]
      /\ due'[k] = IF k \in done THEN None ELSE due[k]
      /\ lastSent'[k] = IF k \in told THEN m[k]
                        ELSE IF k \in removed THEN None ELSE lastSent[k]
      /\ cache'[k] = IF k \in block THEN m[k] ELSE cache[k]
  BY <1>3 DEF Without
<1> USE DEF m
<1> QED
  BY <1>1, <1>2, <1>4, <1>5

\* A value that is our last word on a global stays so until the next packet about
\* it is queued or the session ends.
LEMMA LastWordKept ==
    ASSUME TypeOK, [Next]_vars, ~ClearAll,
           NEW k \in InScope(Global), NEW v \in Values, LastWord(k, v),
           \A p \in Packets : up' = Append(up, p) => ~About(p, k)
    PROVE  LastWord(k, v)'
<1> USE DEF clientVars, serverVars
<1>a. k \in Keys /\ Scope[k] # Mine /\ up \in Seq(Packets)
      /\ server \in [Keys -> MaybeValues]
      /\ foreign \in [Keys -> BOOLEAN] /\ lost \in [Keys -> BOOLEAN]
  BY ScopesDiffer DEF InScope, TypeOK
<1>1. CASE UNCHANGED <<up, server, foreign, lost>>
  BY <1>1 DEF LastWord, InUp, LastSets, About, SetPacket
<1>2. ASSUME NEW p \in Packets, up' = Append(up, p), UNCHANGED <<server, foreign, lost>>
      PROVE  LastWord(k, v)'
  <2>1. ~About(p, k)
    BY <1>2
  <2> QED
    BY <1>2, <1>a, <2>1, UpAppend DEF LastWord
<1>3. CASE ServerApplies
  <2>1. up # <<>> /\ up' = Tail(up) /\ Head(up) \in Packets
    BY <1>3, <1>a DEF ServerApplies
  <2>2. CASE About(Head(up), k)
    <3>1. InUp(k) /\ LastSets(k, v)
      BY <1>a, <2>1, <2>2, UpTail DEF LastWord
    <3>2. InUp(k)' => LastSets(k, v)'
      BY <1>a, <2>1, <3>1, UpTail
    <3>3. ~InUp(k)' => server'[k] = v
      <4> SUFFICES ASSUME ~InUp(k)' PROVE server'[k] = v
        OBVIOUS
      <4>1. Head(up) = SetPacket(k, v)
        BY <1>a, <2>1, <3>1, UpTail
      <4> QED
        BY <1>3, <1>a, <2>2, <4>1, PacketFacts, AppliesAt
    <3> QED
      BY <3>2, <3>3 DEF LastWord
  <2>3. CASE ~About(Head(up), k)
    <3>1. server'[k] = server[k] /\ foreign'[k] = foreign[k] /\ lost'[k] = lost[k]
      BY <1>3, <1>a, <2>3, AppliesAt
    <3>2. (InUp(k)' <=> InUp(k)) /\ (InUp(k) /\ LastSets(k, v) => LastSets(k, v)')
      BY <1>a, <2>1, <2>3, UpTail
    <3> QED
      BY <3>1, <3>2 DEF LastWord
  <2> QED
    BY <2>2, <2>3
<1>4. CASE PacketExpires
  <2>1. up # <<>> /\ up' = Tail(up) /\ UNCHANGED <<server, foreign>>
    BY <1>4 DEF PacketExpires
  <2>2. /\ About(Head(up), k) => lost'[k]
        /\ ~About(Head(up), k) => lost'[k] = lost[k]
    BY <1>4, <1>a, ExpiresAt
  <2>3. /\ InUp(k) <=> InUp(k)' \/ About(Head(up), k)
        /\ LastSets(k, v) /\ InUp(k)' => LastSets(k, v)'
    BY <1>a, <2>1, UpTail
  <2> QED
    BY <2>1, <2>2, <2>3 DEF LastWord
<1>5. ASSUME NEW j \in Keys, NEW w \in Values, OtherClientSets(j, w)
      PROVE  LastWord(k, v)'
  <2>1. up' = up /\ lost' = lost
    BY <1>5 DEF OtherClientSets
  <2>2. (InUp(k)' <=> InUp(k)) /\ (LastSets(k, v)' <=> LastSets(k, v))
    BY <2>1 DEF InUp, LastSets, About, SetPacket
  <2>3. CASE j = k
    <3>1. foreign'[k] = TRUE
      BY <1>5, <1>a, <2>3 DEF OtherClientSets
    <3> QED
      BY <2>2, <3>1 DEF LastWord
  <2>4. CASE j # k
    <3>1. foreign'[k] = foreign[k] /\ server'[k] = server[k]
      BY <1>5, <1>a, <2>4 DEF OtherClientSets
    <3> QED
      BY <2>1, <2>2, <3>1 DEF LastWord
  <2> QED
    BY <2>3, <2>4
<1>6. ASSUME NEW j \in Keys, NEW w \in Values, SetVariable(j, w)
      PROVE  LastWord(k, v)'
  <2>1. UNCHANGED <<server, foreign, lost>>
        /\ (up' = up \/ up' = Append(up, SetPacket(j, w)))
    BY <1>6 DEF SetVariable, Dedupe, SendNow, Defer, Accept, Refuse
  <2> QED
    BY <2>1, <1>1, <1>2, PacketFacts
<1>7. ASSUME NEW j \in Keys, Tick(j)
      PROVE  LastWord(k, v)'
  <2>1. UNCHANGED <<server, foreign, lost>> /\ pending[j] \in Values
        /\ (up' = up \/ up' = Append(up, SetPacket(j, pending[j])))
    BY <1>7 DEF Tick, Flush, Accept, Refuse, TypeOK, MaybeValues
  <2> QED
    BY <2>1, <1>1, <1>2, PacketFacts
<1>8. CASE ClearMyClientVariables
  <2>1. UNCHANGED <<server, foreign, lost>> /\ up' = Append(up, ClearPacket)
        /\ ClearPacket \in Packets
    BY <1>8 DEF ClearMyClientVariables, Packets
  <2> QED
    BY <2>1, <1>2
<1>9. CASE Time \/ HandleGlobalSync \/ HandleClientSync \/ UNCHANGED vars
  BY <1>9, <1>1 DEF Time, HandleGlobalSync, HandleClientSync, vars
<1>10. ASSUME NEW s \in Scopes, ServerSyncs(s) PROVE LastWord(k, v)'
  BY <1>10, <1>1 DEF ServerSyncs
<1> QED
  BY <1>3, <1>4, <1>5, <1>6, <1>7, <1>8, <1>9, <1>10 DEF Next, SetGlobal, SetClient

\* A set or a flush of one variable touches no other.
LEMMA OthersUntouched ==
    ASSUME TypeOK, NEW j \in Keys, NEW k \in Keys, j # k,
           Tick(j) \/ \E w \in Values : SetVariable(j, w)
    PROVE  /\ lastSent'[k] = lastSent[k] /\ pending'[k] = pending[k]
           /\ due'[k] = due[k] /\ intent'[k] = intent[k]
           /\ \A p \in Packets : up' = Append(up, p) => ~About(p, k)
<1>1. /\ \/ lastSent' = lastSent
         \/ \E w \in Values : lastSent' = [lastSent EXCEPT ![j] = w]
      /\ \/ pending' = pending
         \/ \E w : pending' = [pending EXCEPT ![j] = w]
      /\ \/ due' = due
         \/ \E w : due' = [due EXCEPT ![j] = w]
      /\ \/ intent' = intent
         \/ \E w : intent' = [intent EXCEPT ![j] = w]
  BY DEF Tick, Flush, SetVariable, Dedupe, SendNow, Defer, Accept, Refuse, TypeOK, MaybeValues
<1>2. /\ lastSent'[k] = lastSent[k] /\ pending'[k] = pending[k]
      /\ due'[k] = due[k] /\ intent'[k] = intent[k]
  BY <1>1 DEF TypeOK
<1>3. up' = up \/ \E w \in Values : up' = Append(up, SetPacket(j, w))
  BY DEF Tick, Flush, SetVariable, Dedupe, SendNow, Defer, Accept, Refuse, TypeOK, MaybeValues
<1>4. ASSUME NEW p \in Packets, up' = Append(up, p) PROVE ~About(p, k)
  <2>1. up \in Seq(Packets)
    BY DEF TypeOK
  <2>2. up' # up
    BY <1>4, <2>1
  <2>3. PICK w \in Values : up' = Append(up, SetPacket(j, w))
    BY <1>3, <2>2
  <2>4. SetPacket(j, w) \in Packets
    BY PacketFacts
  <2>5. p = up'[Len(up) + 1]
    BY <1>4, <2>1
  <2>6. SetPacket(j, w) = up'[Len(up) + 1]
    BY <2>1, <2>3, <2>4
  <2> QED
    BY <2>5, <2>6, AboutFacts
<1> QED
  BY <1>2, <1>4

\* A global that the server has it keeps, and no snapshot denies it.
LEMMA NeverGoneStep ==
    ASSUME TypeOK, [Next]_vars, NEW k \in InScope(Global), NeverGone(k)
    PROVE  NeverGone(k)'
<1> USE DEF clientVars, serverVars
<1>a. k \in Keys /\ Scope[k] = Global /\ Scope[k] # Mine /\ down \in Seq(Snapshots)
      /\ server \in [Keys -> MaybeValues] /\ up \in Seq(Packets)
  BY ScopesDiffer DEF InScope, TypeOK
<1> SUFFICES ASSUME server'[k] = None
             PROVE  cache'[k] = None /\ \A i \in DOMAIN down' : down'[i].values[k] = None
  BY DEF NeverGone
<1>1. server[k] = None
  <2>1. CASE ServerApplies
    <3>1. ASSUME About(Head(up), k) PROVE FALSE
      <4>1. PICK v \in Values : Head(up) = SetPacket(k, v)
        BY <1>a, <2>1, <3>1, AboutFacts, AppliesAt
      <4>2. server'[k] = v
        BY <1>a, <2>1, <3>1, <4>1, PacketFacts, AppliesAt
      <4> QED
        BY <4>2, NoneAssumption
    <3> QED
      BY <1>a, <2>1, <3>1, AppliesAt
  <2>2. ASSUME NEW j \in Keys, NEW v \in Values, OtherClientSets(j, v)
        PROVE  server[k] = None
    BY <2>2, <1>a, NoneAssumption DEF OtherClientSets
  <2>3. CASE server' = server
    BY <2>3
  <2>4. \/ ServerApplies \/ server' = server
        \/ \E j \in Keys, v \in Values : OtherClientSets(j, v)
    BY DEF Next, vars, SetGlobal, SetClient, SetVariable, Tick, Time,
           ClearMyClientVariables, ClearAll, HandleGlobalSync, HandleClientSync,
           PacketExpires, ServerSyncs
  <2> QED
    BY <2>1, <2>2, <2>3, <2>4
<1>2. cache[k] = None /\ \A i \in DOMAIN down : down[i].values[k] = None
  BY <1>1 DEF NeverGone
<1>3. ASSUME down # <<>>, down' = Tail(down)
      PROVE  /\ Head(down).values[k] = None
             /\ \A i \in DOMAIN down' : down'[i].values[k] = None
  <2>1. /\ Head(down) = down[1] /\ 1 \in DOMAIN down
        /\ \A i \in DOMAIN down' : i + 1 \in DOMAIN down /\ down'[i] = down[i + 1]
    BY <1>3, <1>a
  <2> QED
    BY <1>2, <2>1
<1>4. CASE HandleGlobalSync
  <2>1. down # <<>> /\ down' = Tail(down)
        /\ cache'[k] \in {Head(down).values[k], cache[k]}
    BY <1>4, <1>a DEF HandleGlobalSync
  <2> QED
    BY <2>1, <1>2, <1>3
<1>5. CASE HandleClientSync
  <2>1. down # <<>> /\ down' = Tail(down)
        /\ cache'[k] \in {Head(down).values[k], cache[k]}
    BY <1>5, <1>a DEF HandleClientSync
  <2> QED
    BY <2>1, <1>2, <1>3
<1>6. ASSUME NEW s \in Scopes, ServerSyncs(s)
      PROVE  cache'[k] = None /\ \A i \in DOMAIN down' : down'[i].values[k] = None
  <2> DEFINE m == [scope |-> s, values |->
                     [j \in Keys |-> IF Scope[j] = s THEN server[j] ELSE None]]
  <2>1. m.values[k] = None
    BY <1>1, <1>a
  <2>2. m \in Snapshots
    BY <1>a DEF Snapshots, MaybeValues
  <2>3. down' = Append(down, m) /\ cache' = cache
    BY <1>6 DEF ServerSyncs
  <2> HIDE DEF m
  <2>4. \A i \in DOMAIN down' : (i \in DOMAIN down /\ down'[i] = down[i]) \/ down'[i] = m
    BY <1>a, <2>2, <2>3
  <2> QED
    BY <1>2, <2>1, <2>3, <2>4
<1>7. CASE ClearAll
  BY <1>7, <1>a DEF ClearAll, Nothing
<1>8. CASE ClearMyClientVariables
  <2>1. down' = down /\ cache' = Without(cache, InScope(Mine), None)
    BY <1>8 DEF ClearMyClientVariables
  <2>2. cache'[k] = None
    BY <2>1, <1>a, <1>2, WithoutAt
  <2> QED
    BY <2>1, <2>2, <1>2
<1>9. CASE UNCHANGED <<cache, down>>
  BY <1>9, <1>2
<1> QED
  BY <1>4, <1>5, <1>6, <1>7, <1>8, <1>9
     DEF Next, vars, SetGlobal, SetClient, SetVariable, Tick, Time,
         ServerApplies, PacketExpires, OtherClientSets

\* The words of a global survive every step that queues nothing about it and
\* gives up a held back value only when it is the one sent last.
LEMMA WordsKept ==
    ASSUME TypeOK, [Next]_vars, ~ClearAll, NEW k \in InScope(Global), GlobalInv(k),
           \A p \in Packets : up' = Append(up, p) => ~About(p, k),
           lastSent'[k] \in {None, lastSent[k]}, intent'[k] = intent[k],
           pending'[k] = pending[k] \/ pending[k] = lastSent[k]
    PROVE  /\ \A v \in Values : lastSent'[k] = v => LastWord(k, v)'
           /\ \A v \in Values : intent'[k] = v /\ pending'[k] = None => LastWord(k, v)'
<1>a. k \in Keys /\ pending \in [Keys -> MaybeValues]
  BY DEF InScope, TypeOK
<1>1. ASSUME NEW v \in Values, lastSent'[k] = v PROVE LastWord(k, v)'
  <2>1. LastWord(k, v)
    BY <1>1, NoneAssumption DEF GlobalInv
  <2> QED
    BY <2>1, LastWordKept
<1>2. ASSUME NEW v \in Values, intent'[k] = v, pending'[k] = None PROVE LastWord(k, v)'
  <2>1. LastWord(k, v)
    BY <1>2, <1>a, NoneAssumption DEF GlobalInv, PendingInv, MaybeValues
  <2> QED
    BY <2>1, LastWordKept
<1> QED
  BY <1>1, <1>2

\* A queued set is the last word on its variable.
LEMMA QueuedIsLast ==
    ASSUME TypeOK, NEW k \in Keys, NEW v \in Values, up' = Append(up, SetPacket(k, v))
    PROVE  LastWord(k, v)'
<1>1. SetPacket(k, v) \in Packets /\ About(SetPacket(k, v), k) /\ up \in Seq(Packets)
  BY PacketFacts, AboutFacts DEF TypeOK
<1>2. InUp(k)' /\ LastSets(k, v)'
  BY <1>1, UpAppend
<1> QED
  BY <1>2 DEF LastWord

\* Every action keeps the invariant of a global variable.
LEMMA GlobalStep ==
    ASSUME TypeOK, TypeOK', [Next]_vars, NEW k \in InScope(Global), GlobalInv(k)
    PROVE  GlobalInv(k)'
<1> USE DEF clientVars, serverVars
<1>a. k \in Keys /\ Scope[k] = Global /\ Scope[k] # Mine
      /\ lastSent \in [Keys -> MaybeValues] /\ nextAllowed \in [Keys -> 0..Debounce]
      /\ pending \in [Keys -> MaybeValues] /\ due \in [Keys -> Nat \cup {None}]
      /\ intent \in [Keys -> MaybeValues] /\ up \in Seq(Packets) /\ down \in Seq(Snapshots)
  BY ScopesDiffer DEF InScope, TypeOK
<1>b. Debounce \in Nat /\ None \notin Values /\ None \notin Nat /\ PendingInv(k)
      /\ Debounce \in 0..Debounce
  BY NoneAssumption, LimitsAssumption DEF GlobalInv
<1>c. NeverGone(k)'
  BY NeverGoneStep DEF GlobalInv
<1> SUFFICES /\ PendingInv(k)'
             /\ \A v \in Values : lastSent'[k] = v => LastWord(k, v)'
             /\ \A v \in Values : intent'[k] = v /\ pending'[k] = None => LastWord(k, v)'
  BY <1>c DEF GlobalInv
<1>d. ASSUME ~ClearAll, UNCHANGED <<lastSent[k], intent[k]>>,
             \/ UNCHANGED <<pending[k], due[k]>>
             \/ pending[k] = lastSent[k] /\ pending'[k] = None /\ due'[k] = None,
             \A p \in Packets : up' = Append(up, p) => ~About(p, k)
      PROVE  /\ PendingInv(k)'
             /\ \A v \in Values : lastSent'[k] = v => LastWord(k, v)'
             /\ \A v \in Values : intent'[k] = v /\ pending'[k] = None => LastWord(k, v)'
  <2>1. PendingInv(k)'
    BY <1>d, <1>b DEF PendingInv
  <2> QED
    BY <1>d, <2>1, WordsKept

<1>e. CASE ClearAll
  <2>1. lastSent'[k] = None /\ pending'[k] = None /\ due'[k] = None /\ intent'[k] = None
    BY <1>e, <1>a DEF ClearAll, Nothing
  <2> QED
    BY <2>1, <1>b DEF PendingInv
<1> SUFFICES ASSUME ~ClearAll
             PROVE  /\ PendingInv(k)'
                    /\ \A v \in Values : lastSent'[k] = v => LastWord(k, v)'
                    /\ \A v \in Values : intent'[k] = v /\ pending'[k] = None => LastWord(k, v)'
  BY <1>e
<1>f. ASSUME up' = up \/ (up # <<>> /\ up' = Tail(up))
      PROVE  \A p \in Packets : up' = Append(up, p) => ~About(p, k)
  <2>1. ASSUME NEW p \in Packets, up' = Append(up, p) PROVE FALSE
    BY <1>f, <2>1, <1>a
  <2> QED
    BY <2>1
<1>1. ASSUME NEW j \in Keys, NEW w \in Values, SetVariable(j, w)
      PROVE  /\ PendingInv(k)'
             /\ \A v \in Values : lastSent'[k] = v => LastWord(k, v)'
             /\ \A v \in Values : intent'[k] = v /\ pending'[k] = None => LastWord(k, v)'
  <2>1. CASE j # k
    BY <1>1, <1>a, <1>d, <2>1, OthersUntouched
  <2>2. CASE j = k
    <3>1. intent'[k] = w
      BY <1>1, <1>a, <2>2 DEF SetVariable
    <3>2. CASE Dedupe(k, w)
      <4>1. /\ lastSent[k] = w /\ lastSent' = lastSent /\ up' = up
            /\ pending'[k] = None /\ due'[k] = None
        BY <3>2, <1>a DEF Dedupe
      <4>2. LastWord(k, w)
        BY <4>1 DEF GlobalInv
      <4>3. LastWord(k, w)'
        BY <4>1, <4>2, <1>f, LastWordKept
      <4> QED
        BY <3>1, <4>1, <4>3, <1>b DEF PendingInv
    <3>3. CASE SendNow(k, w) \/ Defer(k, w)
      <4>1. /\ pending'[k] = w
            /\ due'[k] \in {Deadline(k, Debounce), Deadline(k, nextAllowed[k])}
            /\ \/ up' = up /\ lastSent' = lastSent
               \/ up' = Append(up, SetPacket(k, w)) /\ lastSent'[k] = w
        BY <3>3, <1>a DEF SendNow, Defer, Accept, Refuse
      <4>2. due'[k] # None /\ due'[k] \in 0..Debounce
        BY <4>1, <1>a, <1>b DEF Deadline, PendingInv
      <4>3. PendingInv(k)'
        BY <3>1, <4>1, <4>2 DEF PendingInv
      <4>4. ASSUME NEW v \in Values, lastSent'[k] = v PROVE LastWord(k, v)'
        <5>1. CASE up' = up /\ lastSent' = lastSent
          <6>1. LastWord(k, v)
            BY <4>4, <5>1 DEF GlobalInv
          <6> QED
            BY <5>1, <6>1, <1>f, LastWordKept
        <5>2. CASE up' = Append(up, SetPacket(k, w)) /\ lastSent'[k] = w
          BY <4>4, <5>2, <1>a, QueuedIsLast
        <5> QED
          BY <4>1, <5>1, <5>2
      <4> QED
        BY <4>1, <4>3, <4>4, <1>b
    <3> QED
      BY <1>1, <2>2, <3>2, <3>3 DEF SetVariable
  <2> QED
    BY <2>1, <2>2
<1>2. ASSUME NEW j \in Keys, Tick(j)
      PROVE  /\ PendingInv(k)'
             /\ \A v \in Values : lastSent'[k] = v => LastWord(k, v)'
             /\ \A v \in Values : intent'[k] = v /\ pending'[k] = None => LastWord(k, v)'
  <2>1. CASE j # k
    BY <1>2, <1>a, <1>d, <2>1, OthersUntouched
  <2>2. CASE j = k
    <3>1. /\ pending[k] \in Values /\ pending[k] = intent[k] /\ intent' = intent
      BY <1>2, <1>a, <1>b, <2>2 DEF Tick, Flush, PendingInv, MaybeValues
    <3>2. CASE Accept(k, pending[k])
      <4>1. PICK w \in Values : w = pending[k]
        BY <3>1
      <4>2. up' = Append(up, SetPacket(k, w)) /\ lastSent'[k] = w
        BY <3>2, <4>1, <1>a DEF Accept
      <4>3. LastWord(k, w)'
        BY <4>2, <1>a, QueuedIsLast
      <4>4. \/ UNCHANGED <<pending, due>>
            \/ pending'[k] = None /\ due'[k] = None
        <5>1. \/ UNCHANGED <<pending, due>>
              \/ /\ pending' = [pending EXCEPT ![k] = None]
                 /\ due' = [due EXCEPT ![k] = None]
          BY <1>2, <2>2 DEF Tick, Flush
        <5> QED
          BY <5>1, <1>a
      <4>5. PendingInv(k)'
        BY <3>1, <4>4, <1>b DEF PendingInv
      <4> QED
        BY <3>1, <4>1, <4>2, <4>3, <4>5
    <3>3. CASE ~Accept(k, pending[k])
      <4>1. /\ up' = up /\ lastSent' = lastSent
            /\ \/ UNCHANGED <<pending, due>>
               \/ pending[k] = lastSent[k] /\ pending'[k] = None /\ due'[k] = None
        BY <1>2, <1>a, <2>2, <3>3 DEF Tick, Flush, Refuse
      <4> QED
        BY <3>1, <4>1, <1>d, <1>f
    <3> QED
      BY <3>2, <3>3
  <2> QED
    BY <2>1, <2>2
<1>3. CASE Time
  <2>1. /\ UNCHANGED <<lastSent, pending, intent, up>>
        /\ due'[k] = IF due[k] \in {None, 0} THEN due[k] ELSE due[k] - 1
    BY <1>3, <1>a DEF Time
  <2>2. PendingInv(k)'
    BY <2>1, <1>a, <1>b DEF PendingInv
  <2> QED
    BY <2>1, <2>2, <1>f, WordsKept
<1>4. CASE ClearMyClientVariables
  <2>1. k \notin InScope(Mine)
    BY <1>a DEF InScope
  <2>2. UNCHANGED <<lastSent[k], intent[k], pending[k], due[k]>>
    BY <1>4, <1>a, <2>1, WithoutAt DEF ClearMyClientVariables
  <2>3. up' = Append(up, ClearPacket) /\ ClearPacket \in Packets /\ ~About(ClearPacket, k)
    BY <1>4, <1>a, AboutFacts DEF ClearMyClientVariables, Packets
  <2>4. ASSUME NEW p \in Packets, up' = Append(up, p) PROVE ~About(p, k)
    <3>1. p = up'[Len(up) + 1]
      BY <2>4, <1>a
    <3>2. ClearPacket = up'[Len(up) + 1]
      BY <2>3, <1>a
    <3> QED
      BY <2>3, <3>1, <3>2
  <2> QED
    BY <2>2, <2>4, <1>d
<1>5. CASE HandleGlobalSync
  <2>1. /\ up' = up /\ intent' = intent
        /\ lastSent'[k] \in {None, lastSent[k]}
        /\ \/ UNCHANGED <<pending[k], due[k]>>
           \/ pending[k] = lastSent[k] /\ pending'[k] = None /\ due'[k] = None
    BY <1>5, <1>a, GlobalSyncAt
  <2>2. PendingInv(k)'
    BY <2>1, <1>b DEF PendingInv
  <2> QED
    BY <2>1, <2>2, <1>f, WordsKept
<1>6. CASE HandleClientSync
  <2>1. up' = up /\ intent' = intent /\ UNCHANGED <<pending[k], due[k], lastSent[k]>>
    BY <1>6, <1>a, ClientSyncAt
  <2> QED
    BY <2>1, <1>d, <1>f
<1>7. CASE \/ ServerApplies \/ PacketExpires \/ UNCHANGED vars
           \/ \E j \in Keys, v \in Values : OtherClientSets(j, v)
           \/ \E s \in Scopes : ServerSyncs(s)
  <2>1. UNCHANGED <<clientVars, intent>> /\ (up' = up \/ (up # <<>> /\ up' = Tail(up)))
    BY <1>7 DEF ServerApplies, PacketExpires, vars, OtherClientSets, ServerSyncs
  <2> QED
    BY <2>1, <1>d, <1>f
<1> QED
  BY <1>1, <1>2, <1>3, <1>4, <1>5, <1>6, <1>7 DEF Next, SetGlobal, SetClient

-----------------------------------------------------------------------------
(* Snapshots under way.                                                    *)

\* The oldest snapshot has been handled.
LEMMA DownTail ==
    ASSUME down \in Seq(Snapshots), down # <<>>, down' = Tail(down), NEW k \in Keys
    PROVE  /\ \A i \in DOMAIN down' : i + 1 \in DOMAIN down /\ down'[i] = down[i + 1]
           /\ \A i : IsNewest(i, k)' => IsNewest(i + 1, k) /\ i \in DOMAIN down'
           /\ (\A i \in DOMAIN down' : down'[i].scope # Scope[k]) =>
                /\ Head(down).scope = Scope[k] => IsNewest(1, k) /\ down[1] = Head(down)
                /\ Head(down).scope # Scope[k] =>
                     \A i \in DOMAIN down : down[i].scope # Scope[k]
<1>1. /\ \A i \in DOMAIN down' : i + 1 \in DOMAIN down /\ down'[i] = down[i + 1] /\ i \in Nat
      /\ \A i \in DOMAIN down : i = 1 \/ (i - 1 \in DOMAIN down' /\ down'[i - 1] = down[i])
      /\ \A i \in DOMAIN down : i \in Nat
      /\ 1 \in DOMAIN down /\ Head(down) = down[1]
  OBVIOUS
<1>2. ASSUME NEW i, IsNewest(i, k)' PROVE IsNewest(i + 1, k) /\ i \in DOMAIN down'
  <2>1. /\ i \in DOMAIN down' /\ down'[i].scope = Scope[k]
        /\ \A j \in DOMAIN down' : j > i => down'[j].scope # Scope[k]
    BY <1>2 DEF IsNewest
  <2>2. ASSUME NEW j \in DOMAIN down, j > i + 1 PROVE down[j].scope # Scope[k]
    <3>1. j - 1 \in DOMAIN down' /\ down'[j - 1] = down[j] /\ j - 1 > i
      BY <1>1, <2>1, <2>2
    <3> QED
      BY <2>1, <3>1
  <2> QED
    BY <1>1, <2>1, <2>2 DEF IsNewest
<1>3. ASSUME \A i \in DOMAIN down' : down'[i].scope # Scope[k], NEW j \in DOMAIN down, j # 1
      PROVE  down[j].scope # Scope[k]
  <2>1. j - 1 \in DOMAIN down' /\ down'[j - 1] = down[j]
    BY <1>1, <1>3
  <2> QED
    BY <1>3, <2>1
<1>4. ASSUME \A i \in DOMAIN down' : down'[i].scope # Scope[k], Head(down).scope = Scope[k]
      PROVE  IsNewest(1, k)
  BY <1>1, <1>3, <1>4 DEF IsNewest
<1>5. ASSUME \A i \in DOMAIN down' : down'[i].scope # Scope[k], Head(down).scope # Scope[k],
             NEW j \in DOMAIN down
      PROVE  down[j].scope # Scope[k]
  BY <1>1, <1>3, <1>5
<1>6. /\ \A i \in DOMAIN down' : i + 1 \in DOMAIN down /\ down'[i] = down[i + 1]
      /\ down[1] = Head(down)
  BY <1>1
<1> QED
  BY <1>2, <1>4, <1>5, <1>6

\* The server sends one more.
LEMMA DownAppend ==
    ASSUME TypeOK, NEW s \in Scopes, ServerSyncs(s), NEW k \in Keys
    PROVE  /\ Scope[k] = s => /\ ~dirty'[k]
                              /\ \A i : IsNewest(i, k)' => down'[i].values[k] = server[k]
                              /\ \E i \in DOMAIN down' : down'[i].scope = Scope[k]
           /\ Scope[k] # s => /\ dirty'[k] = dirty[k]
                              /\ \A i : IsNewest(i, k)' => IsNewest(i, k) /\ down'[i] = down[i]
                              /\ (\A i \in DOMAIN down' : down'[i].scope # Scope[k]) =>
                                    \A i \in DOMAIN down : down[i].scope # Scope[k]
<1> DEFINE m == [scope |-> s, values |->
                   [j \in Keys |-> IF Scope[j] = s THEN server[j] ELSE None]]
<1>1. down \in Seq(Snapshots) /\ server \in [Keys -> MaybeValues]
  BY DEF TypeOK
<1>2. m \in Snapshots /\ m.scope = s /\ (Scope[k] = s => m.values[k] = server[k])
  BY <1>1 DEF Snapshots, MaybeValues
<1>3. down' = Append(down, m) /\ dirty' = Without(dirty, InScope(s), FALSE)
  BY DEF ServerSyncs
<1>4. dirty'[k] = IF Scope[k] = s THEN FALSE ELSE dirty[k]
  <2>1. k \in InScope(s) <=> Scope[k] = s
    BY DEF InScope
  <2> QED
    BY <1>3, <2>1 DEF Without
<1> HIDE DEF m
<1>5. /\ DOMAIN down' = DOMAIN down \cup {Len(down) + 1}
      /\ \A i \in DOMAIN down : down'[i] = down[i] /\ Len(down) + 1 > i
      /\ down'[Len(down) + 1] = m
  BY <1>1, <1>2, <1>3
<1>6. ASSUME Scope[k] = s, NEW i, IsNewest(i, k)' PROVE i = Len(down) + 1
  BY <1>2, <1>5, <1>6 DEF IsNewest
<1>7. ASSUME Scope[k] # s, NEW i, IsNewest(i, k)'
      PROVE  IsNewest(i, k) /\ down'[i] = down[i]
  BY <1>2, <1>5, <1>7 DEF IsNewest
<1> QED
  BY <1>2, <1>4, <1>5, <1>6, <1>7

\* Every action keeps what a snapshot says of a key.
LEMMA SnapshotStep ==
    ASSUME TypeOK, [Next]_vars, NEW k \in Keys, SnapshotInv(k)
    PROVE  SnapshotInv(k)'
<1> USE DEF clientVars, serverVars
<1>a. down \in Seq(Snapshots) /\ server \in [Keys -> MaybeValues] /\ up \in Seq(Packets)
      /\ foreign \in [Keys -> BOOLEAN] /\ dirty \in [Keys -> BOOLEAN]
  BY DEF TypeOK
<1>1. CASE UNCHANGED <<down, server[k], foreign[k], dirty[k]>>
  BY <1>1 DEF SnapshotInv, IsNewest
<1>2. CASE ServerApplies
  <2>1. CASE About(Head(up), k)
    BY <1>2, <2>1, AppliesAt DEF SnapshotInv
  <2>2. CASE ~About(Head(up), k)
    BY <1>1, <1>2, <2>2, AppliesAt
  <2> QED
    BY <2>1, <2>2
<1>3. ASSUME NEW j \in Keys, NEW v \in Values, OtherClientSets(j, v)
      PROVE  SnapshotInv(k)'
  <2>1. CASE j = k
    <3>1. server'[k] = v /\ dirty'[k]
      BY <1>3, <1>a, <2>1 DEF OtherClientSets
    <3> QED
      BY <3>1, NoneAssumption DEF SnapshotInv
  <2>2. CASE j # k
    <3>1. UNCHANGED <<down, server[k], foreign[k], dirty[k]>>
      BY <1>3, <1>a, <2>2 DEF OtherClientSets
    <3> QED
      BY <3>1, <1>1
  <2> QED
    BY <2>1, <2>2
<1>4. ASSUME NEW s \in Scopes, ServerSyncs(s) PROVE SnapshotInv(k)'
  <2>1. UNCHANGED <<server, foreign>>
    BY <1>4 DEF ServerSyncs
  <2>2. CASE Scope[k] = s
    BY <1>4, <2>1, <2>2, DownAppend DEF SnapshotInv
  <2>3. CASE Scope[k] # s
    <3>1. /\ dirty'[k] = dirty[k]
          /\ \A i : IsNewest(i, k)' => IsNewest(i, k) /\ down'[i] = down[i]
      BY <1>4, <2>3, DownAppend
    <3>2. \A i : IsNewest(i, k) => i \in DOMAIN down
      BY DEF IsNewest
    <3> QED
      BY <2>1, <3>1, <3>2 DEF SnapshotInv
  <2> QED
    BY <2>2, <2>3
<1>5. CASE HandleGlobalSync \/ HandleClientSync
  <2>1. down # <<>> /\ down' = Tail(down) /\ UNCHANGED serverVars
    BY <1>5 DEF HandleGlobalSync, HandleClientSync
  <2>2. ASSUME NEW i, IsNewest(i, k)' PROVE IsNewest(i + 1, k) /\ down'[i] = down[i + 1]
                                            /\ i + 1 \in DOMAIN down
    BY <2>1, <2>2, <1>a, DownTail
  <2> QED
    BY <2>1, <2>2 DEF SnapshotInv
<1>6. CASE ClearAll
  BY <1>6 DEF ClearAll, SnapshotInv
<1>7. CASE UNCHANGED <<down, server, foreign, dirty>>
  BY <1>7, <1>1
<1> QED
  BY <1>2, <1>3, <1>4, <1>5, <1>6, <1>7
     DEF Next, vars, SetGlobal, SetClient, SetVariable, Tick, Time,
         ClearMyClientVariables, PacketExpires

-----------------------------------------------------------------------------
(* Client variables, and what the dedupe cache may hold.                   *)

\* A queue that stays as it is looks the same to every variable.
LEMMA UpSame ==
    ASSUME up' = up, NEW k \in Keys
    PROVE  /\ InUp(k)' <=> InUp(k)
           /\ \A v \in Values : LastSets(k, v)' <=> LastSets(k, v)
  BY DEF InUp, LastSets, About, SetPacket

\* What a set or a flush of j leaves of k.
LEMMA SendAt ==
    ASSUME TypeOK, NEW j \in Keys, NEW k \in Keys,
           Tick(j) \/ \E w \in Values : SetVariable(j, w)
    PROVE  /\ UNCHANGED <<cache, down, serverVars>>
           /\ \/ /\ lastSent'[k] = lastSent[k]
                 /\ InUp(k)' <=> InUp(k)
                 /\ \A v \in Values : LastSets(k, v) => LastSets(k, v)'
              \/ InUp(k)' /\ \E v \in Values : LastSets(k, v)'
<1>1. UNCHANGED <<cache, down, serverVars>>
  BY DEF Tick, SetVariable
<1>2. /\ up \in Seq(Packets) /\ lastSent \in [Keys -> MaybeValues]
      /\ pending \in [Keys -> MaybeValues]
  BY DEF TypeOK
<1>3. \/ up' = up /\ lastSent' = lastSent
      \/ \E w \in Values : up' = Append(up, SetPacket(j, w))
                           /\ lastSent' = [lastSent EXCEPT ![j] = w]
  BY <1>2 DEF Tick, Flush, SetVariable, Dedupe, SendNow, Defer, Accept, Refuse, MaybeValues
<1>4. CASE up' = up /\ lastSent' = lastSent
  BY <1>1, <1>4, UpSame
<1>5. ASSUME NEW w \in Values, up' = Append(up, SetPacket(j, w)),
             lastSent' = [lastSent EXCEPT ![j] = w]
      PROVE  \/ /\ lastSent'[k] = lastSent[k]
                /\ InUp(k)' <=> InUp(k)
                /\ \A v \in Values : LastSets(k, v) => LastSets(k, v)'
             \/ InUp(k)' /\ \E v \in Values : LastSets(k, v)'
  <2>1. SetPacket(j, w) \in Packets /\ (About(SetPacket(j, w), k) <=> j = k)
    BY PacketFacts, AboutFacts
  <2>2. /\ InUp(k)' <=> InUp(k) \/ j = k
        /\ j # k => \A v \in Values : LastSets(k, v) => LastSets(k, v)'
        /\ \A v \in Values : SetPacket(j, w) = SetPacket(k, v) => LastSets(k, v)'
    BY <1>2, <1>5, <2>1, UpAppend
  <2>3. CASE j = k
    BY <2>2, <2>3
  <2>4. CASE j # k
    BY <1>2, <1>5, <2>2, <2>4
  <2> QED
    BY <2>3, <2>4
<1> QED
  BY <1>1, <1>3, <1>4, <1>5

\* clear_my_client_variables for one variable.
LEMMA ClearAt ==
    ASSUME TypeOK, ClearMyClientVariables, NEW k \in Keys
    PROVE  /\ UNCHANGED <<down, serverVars>>
           /\ Scope[k] = Mine => lastSent'[k] = None /\ cache'[k] = None /\ InUp(k)'
           /\ Scope[k] # Mine =>
                /\ UNCHANGED <<lastSent[k], cache[k]>>
                /\ InUp(k)' <=> InUp(k)
                /\ \A v \in Values : LastSets(k, v) => LastSets(k, v)'
<1>1. /\ UNCHANGED <<down, serverVars>> /\ up' = Append(up, ClearPacket)
      /\ cache' = Without(cache, InScope(Mine), None)
      /\ lastSent' = Without(lastSent, InScope(Mine), None)
  BY DEF ClearMyClientVariables
<1>2. /\ ClearPacket \in Packets /\ up \in Seq(Packets)
      /\ About(ClearPacket, k) <=> Scope[k] = Mine
      /\ k \in InScope(Mine) <=> Scope[k] = Mine
  BY AboutFacts DEF Packets, TypeOK, InScope
<1>3. /\ cache'[k] = IF Scope[k] = Mine THEN None ELSE cache[k]
      /\ lastSent'[k] = IF Scope[k] = Mine THEN None ELSE lastSent[k]
  BY <1>1, <1>2 DEF Without
<1>4. /\ InUp(k)' <=> InUp(k) \/ Scope[k] = Mine
      /\ Scope[k] # Mine => \A v \in Values : LastSets(k, v) => LastSets(k, v)'
  BY <1>1, <1>2, UpAppend
<1> QED
  BY <1>1, <1>3, <1>4

\* Every action keeps the invariant of a client variable.
LEMMA ClientStep ==
    ASSUME TypeOK, [Next]_vars, NEW k \in Keys, Scope[k] # Global, ClientInv(k)
    PROVE  ClientInv(k)'
<1> USE DEF clientVars, serverVars
<1>a. up \in Seq(Packets) /\ server \in [Keys -> MaybeValues] /\ None \notin Values
      /\ lost \in [Keys -> BOOLEAN]
  BY NoneAssumption DEF TypeOK
<1> SUFFICES ASSUME lastSent'[k] # None, cache'[k] = None
             PROVE  /\ InUp(k)' => \E v \in Values : LastSets(k, v)'
                    /\ ~InUp(k)' /\ ~lost'[k] => server'[k] # None
  BY DEF ClientInv
<1>1. ASSUME UNCHANGED <<lastSent[k], cache[k], lost[k]>>,
             server'[k] = server[k] \/ server'[k] # None,
             InUp(k)' <=> InUp(k), \A v \in Values : LastSets(k, v) => LastSets(k, v)'
      PROVE  /\ InUp(k)' => \E v \in Values : LastSets(k, v)'
             /\ ~InUp(k)' /\ ~lost'[k] => server'[k] # None
  BY <1>1 DEF ClientInv
<1>2. ASSUME NEW j \in Keys, Tick(j) \/ \E w \in Values : SetVariable(j, w)
      PROVE  /\ InUp(k)' => \E v \in Values : LastSets(k, v)'
             /\ ~InUp(k)' /\ ~lost'[k] => server'[k] # None
  BY <1>1, <1>2, SendAt
<1>3. CASE ClearMyClientVariables
  BY <1>1, <1>3, ClearAt
<1>4. CASE ClearAll
  BY <1>4 DEF ClearAll, Nothing
<1>5. CASE HandleGlobalSync
  <2>1. UNCHANGED <<lastSent[k], cache[k], lost, server, up>>
    BY <1>5, GlobalSyncAt
  <2> QED
    BY <1>1, <2>1, UpSame
<1>6. CASE HandleClientSync
  <2>1. UNCHANGED <<lastSent[k], cache[k], lost, server, up>>
    BY <1>6, ClientSyncAt
  <2> QED
    BY <1>1, <2>1, UpSame
<1>7. CASE ServerApplies
  <2>1. UNCHANGED <<lastSent, cache>> /\ up # <<>> /\ up' = Tail(up)
    BY <1>7, AppliesAt
  <2>2. /\ InUp(k) <=> InUp(k)' \/ About(Head(up), k)
        /\ \A v \in Values : LastSets(k, v) /\ InUp(k)' => LastSets(k, v)'
        /\ \A v \in Values : LastSets(k, v) /\ ~InUp(k)' => Head(up) = SetPacket(k, v)
    BY <1>a, <2>1, UpTail
  <2>3. CASE About(Head(up), k)
    <3>1. PICK v \in Values : LastSets(k, v)
      BY <2>1, <2>2, <2>3 DEF ClientInv
    <3>2. ASSUME ~InUp(k)' PROVE server'[k] # None
      <4>1. Head(up) = SetPacket(k, v)
        BY <2>2, <3>1, <3>2
      <4> QED
        BY <1>7, <2>3, <4>1, <1>a, PacketFacts, AppliesAt
    <3> QED
      BY <2>2, <3>1, <3>2
  <2>4. CASE ~About(Head(up), k)
    <3>1. UNCHANGED <<lost[k], server[k]>>
      BY <1>7, <2>4, AppliesAt
    <3> QED
      BY <2>1, <2>2, <2>4, <3>1 DEF ClientInv
  <2> QED
    BY <2>3, <2>4
<1>8. CASE PacketExpires
  <2>1. /\ UNCHANGED <<lastSent, cache, server>> /\ up # <<>> /\ up' = Tail(up)
        /\ About(Head(up), k) => lost'[k]
        /\ ~About(Head(up), k) => lost'[k] = lost[k]
    BY <1>8, ExpiresAt
  <2>2. /\ InUp(k) <=> InUp(k)' \/ About(Head(up), k)
        /\ \A v \in Values : LastSets(k, v) /\ InUp(k)' => LastSets(k, v)'
    BY <1>a, <2>1, UpTail
  <2> QED
    BY <2>1, <2>2 DEF ClientInv
<1>9. ASSUME NEW j \in Keys, NEW v \in Values, OtherClientSets(j, v)
      PROVE  /\ InUp(k)' => \E w \in Values : LastSets(k, w)'
             /\ ~InUp(k)' /\ ~lost'[k] => server'[k] # None
  <2>1. UNCHANGED <<lastSent, cache, lost, up>>
        /\ (server'[k] = server[k] \/ server'[k] # None)
    BY <1>9, <1>a DEF OtherClientSets
  <2> QED
    BY <1>1, <2>1, UpSame
<1>10. CASE UNCHANGED <<cache, lastSent, lost, server, up>>
  BY <1>1, <1>10, UpSame
<1> QED
  BY <1>2, <1>3, <1>4, <1>5, <1>6, <1>7, <1>8, <1>9, <1>10
     DEF Next, vars, SetGlobal, SetClient, Time, ServerSyncs

\* A variable becomes settled only when its newest snapshot is handled, and then
\* the snapshot or the last word on it says what the dedupe cache holds.
LEMMA CoherentStep ==
    ASSUME TypeOK, [Next]_vars, NEW k \in Keys, SnapshotInv(k), CoherentAt(k),
           Scope[k] = Global => GlobalInv(k), Scope[k] # Global => ClientInv(k)
    PROVE  CoherentAt(k)'
<1> USE DEF clientVars, serverVars
<1>a. /\ up \in Seq(Packets) /\ down \in Seq(Snapshots) /\ None \notin Values
      /\ server \in [Keys -> MaybeValues] /\ lastSent \in [Keys -> MaybeValues]
      /\ lost \in [Keys -> BOOLEAN] /\ dirty \in [Keys -> BOOLEAN]
  BY NoneAssumption DEF TypeOK
<1> SUFFICES ASSUME Settled(k)'
             PROVE  cache'[k] = server'[k] /\ lastSent'[k] \in {None, server'[k]}
  BY DEF CoherentAt
<1>b. /\ ~InUp(k)' /\ ~lost'[k] /\ ~dirty'[k]
      /\ \A i \in DOMAIN down' : down'[i].scope # Scope[k]
  BY DEF Settled
<1>1. ASSUME UNCHANGED <<lastSent[k], cache[k], server[k], lost[k], dirty[k]>>,
             InUp(k)' <=> InUp(k),
             (\A i \in DOMAIN down' : down'[i].scope # Scope[k]) =>
                \A i \in DOMAIN down : down[i].scope # Scope[k]
      PROVE  cache'[k] = server'[k] /\ lastSent'[k] \in {None, server'[k]}
  <2>1. Settled(k)
    BY <1>1, <1>b DEF Settled
  <2> QED
    BY <1>1, <2>1 DEF CoherentAt
<1>2. ASSUME NEW j \in Keys, Tick(j) \/ \E w \in Values : SetVariable(j, w)
      PROVE  cache'[k] = server'[k] /\ lastSent'[k] \in {None, server'[k]}
  BY <1>1, <1>2, <1>b, SendAt
<1>3. CASE ClearMyClientVariables
  BY <1>1, <1>3, <1>b, ClearAt
<1>4. CASE ClearAll
  BY <1>4, <1>b DEF ClearAll
<1>5. CASE HandleGlobalSync
  <2>1. /\ down # <<>> /\ down' = Tail(down) /\ UNCHANGED <<up, serverVars>>
        /\ Head(down).scope = Global
    BY <1>5, GlobalSyncAt
  <2>2. InUp(k)' <=> InUp(k)
    BY <2>1, UpSame
  <2>3. CASE Scope[k] # Global
    <3>1. UNCHANGED <<lastSent[k], cache[k]>>
      BY <1>5, <2>3, GlobalSyncAt
    <3>2. \A i \in DOMAIN down : down[i].scope # Scope[k]
      BY <1>a, <1>b, <2>1, <2>3, DownTail
    <3> QED
      BY <1>1, <2>1, <2>2, <3>1, <3>2
  <2>4. CASE Scope[k] = Global
    <3>1. IsNewest(1, k) /\ down[1] = Head(down)
      BY <1>a, <1>b, <2>1, <2>4, DownTail
    <3>2. Head(down).values[k] = server[k]
      BY <1>b, <2>1, <3>1 DEF SnapshotInv, IsNewest
    <3>3. CASE server[k] # None
      BY <1>5, <2>1, <2>4, <3>2, <3>3, GlobalSyncAt
    <3>4. CASE server[k] = None
      <4>1. UNCHANGED <<lastSent[k], cache[k]>>
        BY <1>5, <3>2, <3>4, GlobalSyncAt
      <4>2. cache[k] = None /\ ~foreign[k]
        BY <2>4, <3>4 DEF GlobalInv, NeverGone, SnapshotInv
      <4>3. ASSUME NEW v \in Values, lastSent[k] = v PROVE FALSE
        <5>1. LastWord(k, v)
          BY <2>4, <4>3 DEF GlobalInv
        <5> QED
          BY <1>a, <1>b, <2>1, <2>2, <3>4, <4>2, <5>1 DEF LastWord
      <4> QED
        BY <1>a, <2>1, <3>4, <4>1, <4>2, <4>3 DEF MaybeValues
    <3> QED
      BY <3>3, <3>4
  <2> QED
    BY <2>3, <2>4
<1>6. CASE HandleClientSync
  <2>1. /\ down # <<>> /\ down' = Tail(down) /\ UNCHANGED <<up, serverVars>>
        /\ Head(down).scope # Global
    BY <1>6, ClientSyncAt
  <2>2. InUp(k)' <=> InUp(k)
    BY <2>1, UpSame
  <2>3. CASE Scope[k] # Head(down).scope
    <3>1. UNCHANGED <<lastSent[k], cache[k]>>
      BY <1>6, <2>3, ClientSyncAt
    <3>2. \A i \in DOMAIN down : down[i].scope # Scope[k]
      BY <1>a, <1>b, <2>1, <2>3, DownTail
    <3> QED
      BY <1>1, <2>1, <2>2, <3>1, <3>2
  <2>4. CASE Scope[k] = Head(down).scope
    <3>1. IsNewest(1, k) /\ down[1] = Head(down)
      BY <1>a, <1>b, <2>1, <2>4, DownTail
    <3>2. Head(down).values[k] = server[k]
      BY <1>b, <2>1, <3>1 DEF SnapshotInv, IsNewest
    <3>3. cache'[k] = server'[k]
      BY <1>6, <2>1, <2>4, <3>2, ClientSyncAt
    <3>4. CASE server[k] # None \/ cache[k] # None
      BY <1>6, <2>1, <2>4, <3>2, <3>3, <3>4, ClientSyncAt
    <3>5. CASE server[k] = None /\ cache[k] = None
      <4>1. lastSent'[k] = lastSent[k]
        BY <1>6, <2>4, <3>2, <3>5, ClientSyncAt
      <4>2. lastSent[k] = None
        BY <1>b, <2>1, <2>2, <2>4, <3>5 DEF ClientInv
      <4> QED
        BY <3>3, <4>1, <4>2
    <3> QED
      BY <3>4, <3>5
  <2> QED
    BY <2>3, <2>4
<1>7. CASE ServerApplies
  <2>1. /\ UNCHANGED <<lastSent, cache, down>> /\ up # <<>> /\ up' = Tail(up)
        /\ ~About(Head(up), k) /\ UNCHANGED <<server[k], lost[k], dirty[k]>>
    BY <1>7, <1>b, AppliesAt
  <2>2. InUp(k)' <=> InUp(k)
    BY <1>a, <2>1, UpTail
  <2> QED
    BY <1>1, <2>1, <2>2
<1>8. CASE PacketExpires
  <2>1. /\ UNCHANGED <<lastSent, cache, down, server, dirty>> /\ up # <<>> /\ up' = Tail(up)
        /\ ~About(Head(up), k) /\ lost'[k] = lost[k]
    BY <1>8, <1>b, ExpiresAt
  <2>2. InUp(k)' <=> InUp(k)
    BY <1>a, <2>1, UpTail
  <2> QED
    BY <1>1, <2>1, <2>2
<1>9. ASSUME NEW j \in Keys, NEW v \in Values, OtherClientSets(j, v)
      PROVE  cache'[k] = server'[k] /\ lastSent'[k] \in {None, server'[k]}
  <2>1. /\ UNCHANGED <<lastSent, cache, lost, up, down>>
        /\ dirty' = [dirty EXCEPT ![j] = TRUE] /\ server' = [server EXCEPT ![j] = v]
    BY <1>9 DEF OtherClientSets
  <2>2. j # k
    BY <1>a, <1>b, <2>1
  <2>3. UNCHANGED <<server[k], dirty[k]>>
    BY <1>a, <2>1, <2>2
  <2> QED
    BY <1>1, <2>1, <2>3, UpSame
<1>10. ASSUME NEW s \in Scopes, ServerSyncs(s)
       PROVE  cache'[k] = server'[k] /\ lastSent'[k] \in {None, server'[k]}
  <2>1. UNCHANGED <<lastSent, cache, server, lost, up>>
    BY <1>10 DEF ServerSyncs
  <2>2. Scope[k] # s
    BY <1>10, <1>b, DownAppend
  <2>3. dirty'[k] = dirty[k] /\ \A i \in DOMAIN down : down[i].scope # Scope[k]
    BY <1>10, <1>b, <2>2, DownAppend
  <2> QED
    BY <1>1, <2>1, <2>3, UpSame
<1>11. CASE UNCHANGED <<cache, lastSent, lost, server, dirty, up, down>>
  BY <1>1, <1>11, UpSame
<1> QED
  BY <1>2, <1>3, <1>4, <1>5, <1>6, <1>7, <1>8, <1>9, <1>10, <1>11
     DEF Next, vars, SetGlobal, SetClient, Time

-----------------------------------------------------------------------------
(* The theorems.                                                           *)

\* The initial state satisfies the invariant: everything is empty.
LEMMA VariablesInit == Init => VariablesInv
<1> SUFFICES ASSUME Init PROVE VariablesInv
  OBVIOUS
<1> USE DEF Init, Nothing, Nowhere
<1>1. TypeOK
  <2>1. 0 \in 0..Debounce /\ <<>> \in Seq(Packets) /\ <<>> \in Seq(Snapshots)
    BY LimitsAssumption
  <2>2. foreign \in [Keys -> BOOLEAN] /\ lost \in [Keys -> BOOLEAN] /\ dirty \in [Keys -> BOOLEAN]
    BY Zenon
  <2> QED
    BY <2>1, <2>2 DEF TypeOK, MaybeValues
<1>2. ASSUME NEW k \in Keys
      PROVE  /\ cache[k] = None /\ lastSent[k] = None /\ pending[k] = None /\ due[k] = None
             /\ server[k] = None /\ intent[k] = None /\ ~foreign[k]
             /\ DOMAIN down = {}
  OBVIOUS
<1>3. \A k \in Keys : SnapshotInv(k) /\ CoherentAt(k)
  BY <1>2 DEF SnapshotInv, CoherentAt
<1>4. \A k \in InScope(Global) : GlobalInv(k)
  BY <1>2, NoneAssumption DEF GlobalInv, PendingInv, NeverGone, InScope
<1>5. \A k \in Keys : Scope[k] # Global => ClientInv(k)
  BY <1>2 DEF ClientInv
<1> QED
  BY <1>1, <1>3, <1>4, <1>5 DEF VariablesInv

\* The invariant of the manager, the server and the channels between them holds
\* in every state, for every number of variables, values and queued packets.
THEOREM VariablesInvariant == Spec => []VariablesInv
<1>1. VariablesInv /\ [Next]_vars => VariablesInv'
  <2> SUFFICES ASSUME VariablesInv, [Next]_vars PROVE VariablesInv'
    OBVIOUS
  <2>1. TypeOK /\ TypeOK'
    BY TypeOKStep DEF VariablesInv
  <2>2. ASSUME NEW k \in Keys PROVE SnapshotInv(k)' /\ CoherentAt(k)'
    <3>1. /\ SnapshotInv(k) /\ CoherentAt(k) /\ (Scope[k] = Global => GlobalInv(k))
          /\ (Scope[k] # Global => ClientInv(k))
      BY DEF VariablesInv, InScope
    <3> QED
      BY <2>1, <3>1, SnapshotStep, CoherentStep
  <2>3. ASSUME NEW k \in InScope(Global) PROVE GlobalInv(k)'
    BY <2>1, GlobalStep DEF VariablesInv
  <2>4. ASSUME NEW k \in Keys, Scope[k] # Global PROVE ClientInv(k)'
    BY <2>1, <2>4, ClientStep DEF VariablesInv
  <2> QED
    BY <2>1, <2>2, <2>3, <2>4 DEF VariablesInv, InScope
<1> QED
  BY <1>1, VariablesInit, PTL DEF Spec

\* Every variable keeps its type: no cooldown exceeds kDebounceInterval.
THEOREM VariablesTypeCorrect == Spec => []TypeOK
<1>1. VariablesInv => TypeOK
  BY DEF VariablesInv
<1> QED
  BY <1>1, VariablesInvariant, PTL

\* set_global, flush_pending_global and handle_global_sync lose no value the host
\* asked for and revive no older one: once nothing of ours is held back or queued,
\* the server has the last value set, unless a packet expired or someone else wrote.
THEOREM GlobalIntentAlwaysKept == Spec => []GlobalIntentKept
<1>1. VariablesInv => GlobalIntentKept
  <2> SUFFICES ASSUME VariablesInv, NEW k \in InScope(Global), intent[k] # None, Quiet(k)
               PROVE  server[k] = intent[k]
    BY DEF GlobalIntentKept, IntentKept
  <2>1. k \in Keys /\ intent[k] \in Values /\ due[k] \in Nat \cup {None} /\ GlobalInv(k)
    BY DEF VariablesInv, TypeOK, MaybeValues, InScope
  <2>2. pending[k] = None
    BY <2>1, LimitsAssumption DEF Quiet, Scheduled, GlobalInv, PendingInv
  <2>3. PICK v \in Values : v = intent[k]
    BY <2>1
  <2>4. LastWord(k, v)
    BY <2>1, <2>2, <2>3 DEF GlobalInv
  <2> QED
    BY <2>3, <2>4 DEF Quiet, LastWord
<1> QED
  BY <1>1, VariablesInvariant, PTL

\* Once all is delivered, last_sent_global_ and last_sent_client_ hold nothing but
\* the server's value: the dedupe swallows no set that would change it.
THEOREM DedupeAlwaysCoherent == Spec => []DedupeCoherent
<1>1. VariablesInv => DedupeCoherent
  BY DEF VariablesInv, DedupeCoherent, CoherentAt
<1> QED
  BY <1>1, VariablesInvariant, PTL
=============================================================================
