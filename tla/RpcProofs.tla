------------------------------ MODULE RpcProofs ------------------------------
(***************************************************************************)
(* Proofs about module Rpc for every rate limit and window, every length   *)
(* of the queue and of a flush, and any number of RPCs.                    *)
(***************************************************************************)
EXTENDS Rpc, FiniteSetTheorems, SequenceTheorems, WellFoundedInduction, TLAPS

-----------------------------------------------------------------------------
(* The inductive invariant.                                                *)

\* The k-th entry from the back: the k-th youngest.
Newest(s, k) == s[Len(s) + 1 - k]

\* The oldest is in front.
Sorted(ages) == \A i, j \in DOMAIN ages : i < j => ages[j] <= ages[i]

\* The k-th youngest send within the window is one of at most limit, and the k-th
\* youngest hit is no older, so that the count of the hits bounds the sends.
WindowInv ==
    limit > 0 => \A k \in 1..Len(recent) : Newest(recent, k) <= window =>
        /\ k <= limit
        /\ k <= Len(hits) /\ Newest(hits, k) <= Newest(recent, k)

\* Only queued RPCs wait, and nothing is sent before it is fired.
QueueInv ==
    /\ \A i \in DOMAIN pending : pending[i].id \in queued
    /\ \A i \in DOMAIN sent : sent[i] <= made

RpcInv ==
    /\ TypeOK
    /\ Sorted(hits) /\ WindowInv
    /\ QueueInv /\ QueuedAccounted

-----------------------------------------------------------------------------
(* Numbers.                                                                *)

\* A set of natural numbers has a least element.
LEMMA LeastNat ==
    ASSUME NEW T, T \subseteq Nat, T # {}
    PROVE  \E x \in T : \A y \in T : x <= y
<1> DEFINE R == OpToRel(<, Nat)
<1>1. IsWellFoundedOn(R, Nat)
  BY NatLessThanWellFounded
<1>2. \A x, y \in Nat : <<y, x>> \in R <=> y < x
  BY DEF OpToRel
<1> HIDE DEF R
<1>3. PICK x \in T : \A y \in T : ~(<<y, x>> \in R)
  BY <1>1, WFMin
<1>4. ASSUME NEW y \in T PROVE x <= y
  <2>1. x \in Nat /\ y \in Nat /\ ~(y < x)
    BY <1>2, <1>3
  <2> QED
    BY <2>1
<1> QED
  BY <1>4

\* Finitely many natural numbers have a bound.
LEMMA FiniteBound ==
    ASSUME NEW S, IsFiniteSet(S), S \subseteq Nat
    PROVE  \E b \in Nat : \A x \in S : x <= b
<1>1. PICK n \in Nat : ExistsSurjection(1..n, S)
  BY FS_NatSurjection
<1>2. PICK f \in [1..n -> S] : \A x \in S : \E i \in 1..n : f[i] = x
  BY <1>1 DEF ExistsSurjection, Surjection
<1> DEFINE Bounded(k) == \E b \in Nat : \A i \in 1..k : f[i] <= b
           T == {k \in 0..n : ~Bounded(k)}
<1>3. n \in Nat /\ \A i \in 1..n : f[i] \in Nat
  OBVIOUS
<1>4. Bounded(0)
  <2>1. \A i \in 1..0 : f[i] <= 0
    OBVIOUS
  <2> QED
    BY <2>1
<1>5. ASSUME NEW k \in 1..n, Bounded(k - 1) PROVE Bounded(k)
  <2>1. PICK b \in Nat : \A i \in 1..(k - 1) : f[i] <= b
    BY <1>5
  <2>2. f[k] \in Nat
    BY <1>3
  <2>3. PICK c \in Nat : b <= c /\ f[k] <= c
    BY <2>2
  <2>4. ASSUME NEW i \in 1..k PROVE f[i] <= c
    <3>1. f[i] \in Nat /\ (i = k \/ i \in 1..(k - 1))
      BY <1>3
    <3> QED
      BY <2>1, <2>3, <3>1
  <2> QED
    BY <2>4
<1>7. T \subseteq 0..n /\ T \subseteq Nat
  OBVIOUS
<1>6. \A k \in 0..n : k \in T <=> ~Bounded(k)
  BY Zenon
<1> HIDE DEF T, Bounded
<1>8. T = {}
  <2> SUFFICES ASSUME T # {} PROVE FALSE
    OBVIOUS
  <2>1. PICK k \in T : \A y \in T : k <= y
    BY <1>7, LeastNat
  <2>2. k \in 1..n /\ k - 1 \in 0..n
    BY <1>3, <1>4, <1>6, <1>7, <2>1
  <2>3. k - 1 \notin T
    BY <2>1, <2>2
  <2> QED
    BY <1>5, <1>6, <1>7, <2>1, <2>2, <2>3
<1>9. Bounded(n)
  BY <1>3, <1>6, <1>8
<1> QED
  BY <1>2, <1>9 DEF Bounded

\* AgeMax lies beyond every window and the TTL.
LEMMA AgeMaxFacts ==
    /\ AgeMax \in Nat
    /\ TTL < AgeMax
    /\ \A w \in Windows : w \in Nat /\ w < AgeMax
<1> DEFINE S == Windows \cup {TTL}
<1>1. IsFiniteSet(S) /\ S \subseteq Nat /\ TTL \in S
  BY WindowsAssumption, QueueAssumption, FS_AddElement
<1> HIDE DEF S
<1>2. PICK b \in Nat : \A x \in S : x <= b
  BY <1>1, FiniteBound
<1> DEFINE T == {b - x : x \in S}
<1>3. T \subseteq Nat /\ T # {}
  <2>1. \A x \in S : b - x \in Nat
    BY <1>1, <1>2
  <2> QED
    BY <1>1, <2>1
<1>4. PICK t \in T : \A y \in T : t <= y
  BY <1>3, LeastNat
<1>5. PICK m \in S : t = b - m
  OBVIOUS
<1>6. \A y \in S : m >= y
  <2> SUFFICES ASSUME NEW y \in S PROVE m >= y
    OBVIOUS
  <2>1. b - m <= b - y /\ m \in Nat /\ y \in Nat
    BY <1>1, <1>4, <1>5
  <2> QED
    BY <2>1
<1>7. Max(S) \in S /\ \A y \in S : Max(S) >= y
  BY <1>6 DEF Max
<1> DEFINE M == Max(S)
<1>8. AgeMax = M + 1
  BY DEF AgeMax, S
<1>9. \A w \in Windows : w \in S
  BY DEF S
<1> HIDE DEF M, T
<1>10. M \in Nat /\ \A y \in S : y \in Nat /\ M >= y
  BY <1>1, <1>7 DEF M
<1>11. \A y \in S : y \in Nat /\ y < M + 1
  BY <1>10
<1>12. TTL < M + 1 /\ \A w \in Windows : w \in Nat /\ w < M + 1
  BY <1>1, <1>9, <1>11
<1>13. M + 1 \in Nat
  BY <1>10
<1> QED
  BY <1>8, <1>12, <1>13

-----------------------------------------------------------------------------
(* The window.                                                             *)

\* Popping the front while it is too old leaves the rest as it is, and keeps every
\* entry that is young enough.
LEMMA WithinFacts ==
    ASSUME NEW ages \in Seq(0..AgeMax), NEW w \in Int
    PROVE  \E n \in 0..Len(ages) :
             /\ Within(ages, w) \in Seq(0..AgeMax)
             /\ Len(Within(ages, w)) = Len(ages) - n
             /\ \A i \in 1..(Len(ages) - n) : Within(ages, w)[i] = ages[i + n]
             /\ \A i \in 1..n : ages[i] > w
<1>1. Len(ages) \in Nat
  OBVIOUS
<1> DEFINE T == {n \in 0..Len(ages) : n < Len(ages) => ~(ages[n + 1] > w)}
<1>2. T \subseteq Nat /\ Len(ages) \in T
  BY <1>1
<1>3. \A n \in 0..Len(ages) : n \in T <=> (n < Len(ages) => ~(ages[n + 1] > w))
  OBVIOUS
<1>3a. T \subseteq 0..Len(ages)
  OBVIOUS
<1> HIDE DEF T
<1>4. PICK x \in T : \A y \in T : x <= y
  BY <1>2, LeastNat
<1>5. ASSUME NEW i \in 1..x PROVE ages[i] > w
  <2>1. i - 1 \in 0..Len(ages) /\ ~(x <= i - 1) /\ (i - 1) + 1 = i
    BY <1>1, <1>3a, <1>4
  <2>2. i - 1 \notin T
    BY <1>4, <2>1
  <2> QED
    BY <1>3, <2>1, <2>2
<1>6. /\ x \in 0..Len(ages)
      /\ \A i \in 1..x : ages[i] > w
      /\ x < Len(ages) => ~(ages[x + 1] > w)
  BY <1>3, <1>3a, <1>4, <1>5
<1> DEFINE n == Overdue(ages, w)
<1>7. n \in 0..Len(ages) /\ \A i \in 1..n : ages[i] > w
  BY <1>6 DEF Overdue
<1>8. Within(ages, w) = SubSeq(ages, n + 1, Len(ages))
  BY DEF Within
<1> HIDE DEF n
<1>9. /\ Within(ages, w) \in Seq(0..AgeMax)
      /\ Len(Within(ages, w)) = Len(ages) - n
      /\ \A i \in 1..(Len(ages) - n) : Within(ages, w)[i] = ages[i + n]
  <2>1. n + 1 \in 1..(Len(ages) + 1) /\ n \in Nat
    BY <1>1, <1>7
  <2>2. SubSeq(ages, n + 1, Len(ages)) \in Seq(0..AgeMax)
    <3>0. \A i \in 1..Len(ages) : ages[i] \in 0..AgeMax
      BY ElementOfSeq
    <3>1. \A i \in (n + 1)..Len(ages) : ages[i] \in 0..AgeMax
      <4> SUFFICES ASSUME NEW i \in (n + 1)..Len(ages) PROVE ages[i] \in 0..AgeMax
        OBVIOUS
      <4>1. i \in 1..Len(ages)
        BY <1>1, <2>1
      <4> QED
        BY <3>0, <4>1
    <3>2. n + 1 \in Int /\ Len(ages) \in Int
      BY <1>1, <2>1
    <3> QED
      BY <3>1, <3>2, SubSeqProperties
  <2>3. Len(SubSeq(ages, n + 1, Len(ages))) = Len(ages) - n
    BY <1>1, <1>7, <2>1
  <2>4. \A i \in 1..(Len(ages) - n) : SubSeq(ages, n + 1, Len(ages))[i] = ages[i + n]
    BY <1>1, <1>7, <2>1
  <2> QED
    BY <1>8, <2>2, <2>3, <2>4
<1> QED
  BY <1>7, <1>9

\* The same, counted from the back.
LEMMA WithinNewest ==
    ASSUME NEW ages \in Seq(0..AgeMax), NEW w \in Int
    PROVE  /\ Within(ages, w) \in Seq(0..AgeMax)
           /\ Len(Within(ages, w)) <= Len(ages)
           /\ \A k \in 1..Len(Within(ages, w)) : Newest(Within(ages, w), k) = Newest(ages, k)
           /\ \A k \in 1..Len(ages) : Newest(ages, k) <= w => k <= Len(Within(ages, w))
           /\ Sorted(ages) => Sorted(Within(ages, w))
<1> DEFINE s == Within(ages, w)
<1>1. PICK n \in 0..Len(ages) :
        /\ s \in Seq(0..AgeMax) /\ Len(s) = Len(ages) - n
        /\ \A i \in 1..(Len(ages) - n) : s[i] = ages[i + n]
        /\ \A i \in 1..n : ages[i] > w
  BY WithinFacts
<1> HIDE DEF s
<1>2. Len(ages) \in Nat /\ \A i \in 1..Len(ages) : ages[i] \in Nat
  BY AgeMaxFacts
<1>3. ASSUME NEW k \in 1..Len(s) PROVE Newest(s, k) = Newest(ages, k)
  <2>1. Len(s) + 1 - k \in 1..(Len(ages) - n) /\ (Len(s) + 1 - k) + n = Len(ages) + 1 - k
    BY <1>1, <1>2
  <2> QED
    BY <1>1, <2>1 DEF Newest
<1>4. ASSUME NEW k \in 1..Len(ages), Newest(ages, k) <= w PROVE k <= Len(s)
  <2>1. Len(ages) + 1 - k \in 1..Len(ages)
    BY <1>2
  <2>2. Len(ages) + 1 - k \notin 1..n
    BY <1>1, <1>2, <1>4, <2>1, SMTT(40) DEF Newest
  <2> QED
    BY <1>1, <1>2, <2>1, <2>2
<1>5. ASSUME Sorted(ages) PROVE Sorted(s)
  <2> SUFFICES ASSUME NEW i \in 1..Len(s), NEW j \in 1..Len(s), i < j PROVE s[j] <= s[i]
    BY <1>1 DEF Sorted
  <2>1. i + n \in DOMAIN ages /\ j + n \in DOMAIN ages /\ i + n < j + n
    BY <1>1, <1>2
  <2> QED
    BY <1>1, <1>5, <2>1 DEF Sorted
<1> QED
  BY <1>1, <1>2, <1>3, <1>4, <1>5 DEF s

\* A call that is counted back from the newest has an age.
LEMMA NewestType ==
    ASSUME NEW ages \in Seq(0..AgeMax), NEW k \in 1..Len(ages)
    PROVE  Newest(ages, k) \in 0..AgeMax
<1>1. Len(ages) + 1 - k \in 1..Len(ages)
  OBVIOUS
<1> QED
  BY <1>1, ElementOfSeq DEF Newest

\* One more entry at the back.
LEMMA AppendNewest ==
    ASSUME NEW ages \in Seq(0..AgeMax), NEW a \in 0..AgeMax
    PROVE  /\ Append(ages, a) \in Seq(0..AgeMax)
           /\ Len(Append(ages, a)) = Len(ages) + 1
           /\ Newest(Append(ages, a), 1) = a
           /\ \A k \in 2..(Len(ages) + 1) : Newest(Append(ages, a), k) = Newest(ages, k - 1)
  BY DEF Newest

\* A hit of now keeps the hits sorted.
LEMMA AppendSorted ==
    ASSUME NEW ages \in Seq(0..AgeMax), Sorted(ages)
    PROVE  Sorted(Append(ages, 0))
<1>1. /\ DOMAIN Append(ages, 0) = DOMAIN ages \cup {Len(ages) + 1}
      /\ \A i \in DOMAIN ages : Append(ages, 0)[i] = ages[i] /\ i < Len(ages) + 1 /\ ages[i] >= 0
      /\ Append(ages, 0)[Len(ages) + 1] = 0
  BY AgeMaxFacts
<1> QED
  BY <1>1 DEF Sorted

\* In a sorted sequence, an entry nearer the back is no older.
LEMMA NewerFirst ==
    ASSUME NEW ages \in Seq(0..AgeMax), Sorted(ages), NEW k \in 2..Len(ages)
    PROVE  Newest(ages, k - 1) <= Newest(ages, k)
  BY AgeMaxFacts DEF Sorted, Newest

\* What try_consume_quota leaves of the hits.
LEMMA HitsNowFacts ==
    ASSUME TypeOK, Sorted(hits)
    PROVE  /\ HitsNow \in Seq(0..AgeMax) /\ Sorted(HitsNow) /\ Len(HitsNow) <= Len(hits)
           /\ \A k \in 1..Len(HitsNow) : Newest(HitsNow, k) = Newest(hits, k)
           /\ limit # 0 => \A k \in 1..Len(hits) :
                Newest(hits, k) <= window => k <= Len(HitsNow)
<1>1. hits \in Seq(0..AgeMax) /\ window \in Int
  BY AgeMaxFacts DEF TypeOK
<1>2. CASE limit = 0
  BY <1>1, <1>2 DEF HitsNow
<1>3. CASE limit # 0
  <2>1. HitsNow = Within(hits, window)
    BY <1>3 DEF HitsNow
  <2> QED
    BY <1>1, <2>1, WithinNewest
<1> QED
  BY <1>2, <1>3

\* No attempt, taken or refused, lets a send into a window that is full.
LEMMA QuotaStep ==
    ASSUME RpcInv, UNCHANGED <<limit, window>>,
           hits' = HitsNow \/ Consume,
           recent' = recent \/ (recent' = Append(recent, 0) /\ ~Limited /\ Consume)
    PROVE  /\ hits' \in Seq(0..AgeMax) /\ Sorted(hits') /\ WindowInv'
           /\ recent' \in Seq(0..AgeMax)
<1>a. /\ hits \in Seq(0..AgeMax) /\ recent \in Seq(0..AgeMax) /\ limit \in Nat /\ window \in Nat
      /\ TypeOK /\ Sorted(hits) /\ 0 \in 0..AgeMax
  BY AgeMaxFacts, LimitsAssumption DEF RpcInv, TypeOK
<1> DEFINE now == HitsNow
<1>b. /\ now \in Seq(0..AgeMax) /\ Sorted(now) /\ Len(now) <= Len(hits)
      /\ \A k \in 1..Len(now) : Newest(now, k) = Newest(hits, k)
      /\ limit # 0 => \A k \in 1..Len(hits) : Newest(hits, k) <= window => k <= Len(now)
  BY <1>a, HitsNowFacts
<1>c. hits' = now \/ hits' = Append(now, 0)
  BY DEF Consume, HitsNow
<1>d. ~Limited => limit = 0 \/ Len(now) < limit
  BY <1>a, <1>b DEF Limited
<1>e. ~(hits' = now) => hits' = Append(now, 0)
  BY <1>c
<1>f. recent' = recent \/ (recent' = Append(recent, 0) /\ ~Limited /\ (limit = 0 \/ hits' = Append(now, 0)))
  BY DEF Consume
<1> HIDE DEF now
<1>1. hits' \in Seq(0..AgeMax) /\ Sorted(hits')
  BY <1>a, <1>b, <1>c, AppendNewest, AppendSorted
<1>2. recent' \in Seq(0..AgeMax)
  BY <1>a, <1>f, AppendNewest
<1>3. ASSUME limit # 0, NEW k \in 1..Len(recent), Newest(recent, k) <= window
      PROVE  /\ k <= limit /\ k \in 1..Len(now) /\ k + 1 \in 2..(Len(now) + 1)
             /\ Newest(now, k) <= Newest(recent, k)
  <2>1. k <= limit /\ k <= Len(hits) /\ Newest(hits, k) <= Newest(recent, k)
    BY <1>a, <1>3 DEF RpcInv, WindowInv
  <2>2. k \in 1..Len(hits) /\ Newest(hits, k) \in Nat /\ Newest(recent, k) \in Nat
    BY <1>a, <2>1, AgeMaxFacts, SMTT(40) DEF Newest
  <2>3. Newest(hits, k) <= window
    BY <1>a, <1>3, <2>1, <2>2
  <2>4. k <= Len(now)
    BY <1>b, <1>3, <2>2, <2>3
  <2>5. Len(now) \in Nat /\ k \in Nat /\ k >= 1
    BY <1>b
  <2>6. k \in 1..Len(now) /\ k + 1 \in 2..(Len(now) + 1)
    BY <2>4, <2>5
  <2> QED
    BY <1>b, <2>1, <2>6
<1>4. \A k \in 1..Len(now) : Newest(now, k) \in Nat
  BY <1>b, AgeMaxFacts DEF Newest
<1>5. \A k \in 1..Len(recent) : Newest(recent, k) \in Nat
  BY <1>a, AgeMaxFacts DEF Newest
<1>g. ASSUME limit > 0 => \A k \in 1..Len(recent') : Newest(recent', k) <= window =>
               k <= limit /\ k <= Len(hits') /\ Newest(hits', k) <= Newest(recent', k)
      PROVE  WindowInv'
  BY <1>g DEF WindowInv, Newest
<1>6. CASE recent' = recent
  <2> SUFFICES ASSUME limit > 0, NEW k \in 1..Len(recent), Newest(recent, k) <= window
               PROVE  k <= limit /\ k <= Len(hits') /\ Newest(hits', k) <= Newest(recent, k)
    BY <1>1, <1>2, <1>6, <1>g
  <2>1. /\ k <= limit /\ k \in 1..Len(now) /\ k + 1 \in 2..(Len(now) + 1)
        /\ Newest(now, k) <= Newest(recent, k)
    BY <1>a, <1>3
  <2>2. CASE hits' = now
    BY <2>1, <2>2
  <2>3. CASE hits' = Append(now, 0)
    <3>1. Len(hits') = Len(now) + 1 /\ Newest(hits', 1) = 0
          /\ \A j \in 2..(Len(now) + 1) : Newest(hits', j) = Newest(now, j - 1)
      BY <1>a, <1>b, <2>3, AppendNewest
    <3>2. CASE k = 1
      BY <1>5, <2>1, <3>1, <3>2
    <3>3. CASE k # 1
      <4>1. k \in 2..Len(now) /\ k \in 2..(Len(now) + 1) /\ k - 1 \in 1..Len(now)
        BY <1>b, <2>1, <3>3
      <4>2. Newest(now, k - 1) <= Newest(now, k)
        BY <1>b, <4>1, NewerFirst
      <4>3. Newest(hits', k) = Newest(now, k - 1)
        BY <3>1, <4>1
      <4>4. Newest(now, k) \in Nat /\ Newest(now, k - 1) \in Nat /\ Newest(recent, k) \in Nat
        BY <1>4, <1>5, <2>1, <4>1
      <4>5. Newest(hits', k) <= Newest(recent, k)
        BY <2>1, <4>2, <4>3, <4>4
      <4> QED
        BY <1>b, <2>1, <3>1, <4>5
    <3> QED
      BY <3>2, <3>3
  <2> QED
    BY <1>c, <2>2, <2>3
<1>7. CASE recent' = Append(recent, 0) /\ ~Limited /\ (limit = 0 \/ hits' = Append(now, 0))
  <2>1. /\ Len(recent') = Len(recent) + 1 /\ Newest(recent', 1) = 0
        /\ \A j \in 2..(Len(recent) + 1) : Newest(recent', j) = Newest(recent, j - 1)
    BY <1>a, <1>7, AppendNewest
  <2> SUFFICES ASSUME limit > 0, NEW k \in 1..Len(recent'), Newest(recent', k) <= window
               PROVE  k <= limit /\ k <= Len(hits') /\ Newest(hits', k) <= Newest(recent', k)
    BY <1>1, <1>2, <1>g
  <2>2. Len(now) < limit /\ hits' = Append(now, 0)
    BY <1>7, <1>a, <1>d
  <2>3. Len(hits') = Len(now) + 1 /\ Newest(hits', 1) = 0
        /\ \A j \in 2..(Len(now) + 1) : Newest(hits', j) = Newest(now, j - 1)
    BY <1>a, <1>b, <2>2, AppendNewest
  <2>4. CASE k = 1
    BY <1>a, <1>b, <2>1, <2>3, <2>4
  <2>5. CASE k # 1
    <3>1. k \in 2..(Len(recent) + 1) /\ k - 1 \in 1..Len(recent) /\ (k - 1) + 1 = k
      BY <1>a, <2>1, <2>5
    <3>2. Newest(recent', k) = Newest(recent, k - 1)
      BY <2>1, <3>1
    <3>3. /\ k - 1 \in 1..Len(now) /\ (k - 1) + 1 \in 2..(Len(now) + 1)
          /\ Newest(now, k - 1) <= Newest(recent, k - 1)
      BY <1>a, <1>3, <3>1, <3>2
    <3>4. k \in 2..(Len(now) + 1) /\ k <= limit /\ k <= Len(hits')
      BY <1>a, <1>b, <2>2, <2>3, <3>1, <3>3
    <3> QED
      BY <2>3, <3>2, <3>3, <3>4
  <2> QED
    BY <2>4, <2>5
<1> QED
  BY <1>1, <1>2, <1>6, <1>7, <1>f

-----------------------------------------------------------------------------
(* The passing of time.                                                    *)

Aged(ages) == [i \in DOMAIN ages |-> Older(ages[i])]

\* An age counts up to AgeMax and stays there.
LEMMA OlderFacts ==
    ASSUME NEW a \in 0..AgeMax
    PROVE  /\ Older(a) \in 0..AgeMax
           /\ \A b \in 0..AgeMax : a <= b => Older(a) <= Older(b)
           /\ \A w \in Windows : Older(a) <= w => a <= w /\ Older(a) = a + 1
<1>1. AgeMax \in Nat /\ \A w \in Windows : w \in Nat /\ w < AgeMax
  BY AgeMaxFacts
<1>2. /\ a \in Nat /\ a <= AgeMax
      /\ Older(a) = IF a < AgeMax THEN a + 1 ELSE AgeMax
  BY <1>1 DEF Older
<1>3. Older(a) \in 0..AgeMax
  BY <1>1, <1>2
<1>4. ASSUME NEW b \in 0..AgeMax, a <= b PROVE Older(a) <= Older(b)
  <2>1. b \in Nat /\ b <= AgeMax /\ Older(b) = IF b < AgeMax THEN b + 1 ELSE AgeMax
    BY <1>1 DEF Older
  <2> QED
    BY <1>1, <1>2, <1>4, <2>1
<1>5. ASSUME NEW w \in Windows, Older(a) <= w PROVE a <= w /\ Older(a) = a + 1
  <2>1. w \in Nat /\ w < AgeMax
    BY <1>1
  <2>2. CASE a < AgeMax
    BY <1>1, <1>2, <1>5, <2>1, <2>2
  <2>3. CASE ~(a < AgeMax)
    BY <1>1, <1>2, <1>5, <2>1, <2>3
  <2> QED
    BY <2>2, <2>3
<1> QED
  BY <1>3, <1>4, <1>5

\* Ages that grow together keep their order.
LEMMA AgedFacts ==
    ASSUME NEW ages \in Seq(0..AgeMax)
    PROVE  /\ Aged(ages) \in Seq(0..AgeMax) /\ Len(Aged(ages)) = Len(ages)
           /\ \A k \in 1..Len(ages) : Newest(Aged(ages), k) = Older(Newest(ages, k))
           /\ Sorted(ages) => Sorted(Aged(ages))
<1>1. /\ Len(ages) \in Nat /\ DOMAIN ages = 1..Len(ages)
      /\ \A i \in 1..Len(ages) : ages[i] \in 0..AgeMax
  <2>1. Len(ages) \in Nat /\ DOMAIN ages = 1..Len(ages)
    OBVIOUS
  <2>2. \A i \in 1..Len(ages) : ages[i] \in 0..AgeMax
    BY ElementOfSeq
  <2> QED
    BY <2>1, <2>2
<1>2. \A i \in 1..Len(ages) : Older(ages[i]) \in 0..AgeMax
  BY <1>1, OlderFacts
<1>3. Aged(ages) = [i \in 1..Len(ages) |-> Older(ages[i])]
  BY <1>1 DEF Aged
<1> DEFINE e(i) == Older(ages[i])
           s == [i \in 1..Len(ages) |-> e(i)]
<1> HIDE DEF e
<1>4. s \in [1..Len(ages) -> 0..AgeMax]
  BY <1>2 DEF e
<1>5. s \in Seq(0..AgeMax) /\ Len(s) = Len(ages)
  BY <1>1, <1>4
<1>6. ASSUME NEW k \in 1..Len(ages) PROVE Newest(s, k) = Older(Newest(ages, k))
  <2>1. Len(ages) + 1 - k \in 1..Len(ages)
    BY <1>1
  <2> QED
    BY <1>5, <2>1 DEF Newest, e
<1>7. ASSUME Sorted(ages) PROVE Sorted(s)
  <2> SUFFICES ASSUME NEW i \in 1..Len(ages), NEW j \in 1..Len(ages), i < j
               PROVE  e(j) <= e(i)
    BY DEF Sorted
  <2>1. ages[j] <= ages[i]
    BY <1>1, <1>7 DEF Sorted
  <2> QED
    BY <1>1, <2>1, OlderFacts DEF e
<1>8. Aged(ages) = s
  BY <1>3 DEF e
<1> HIDE DEF s
<1> QED
  BY <1>5, <1>6, <1>7, <1>8

\* The hits and the sends grow older together.
LEMMA TimeStep ==
    ASSUME RpcInv, Time
    PROVE  /\ hits' \in Seq(0..AgeMax) /\ Sorted(hits') /\ WindowInv'
           /\ recent' \in Seq(0..AgeMax)
<1>a. /\ hits \in Seq(0..AgeMax) /\ recent \in Seq(0..AgeMax) /\ window \in Windows
      /\ window \in Nat /\ Sorted(hits) /\ AgeMax - 1 \in Int /\ window <= AgeMax - 1
  BY AgeMaxFacts DEF RpcInv, TypeOK
<1>b. /\ hits' = Aged(hits) /\ recent' = Within(Aged(recent), AgeMax - 1)
      /\ UNCHANGED <<limit, window>>
  BY DEF Time, Aged, sessionVars
<1>c. /\ hits' \in Seq(0..AgeMax) /\ Len(hits') = Len(hits) /\ Sorted(hits')
      /\ \A k \in 1..Len(hits) : Newest(hits', k) = Older(Newest(hits, k))
  BY <1>a, <1>b, AgedFacts
<1>d. /\ Aged(recent) \in Seq(0..AgeMax) /\ Len(Aged(recent)) = Len(recent)
      /\ \A k \in 1..Len(recent) : Newest(Aged(recent), k) = Older(Newest(recent, k))
  BY <1>a, AgedFacts
<1>e. /\ recent' \in Seq(0..AgeMax) /\ Len(recent') <= Len(recent)
      /\ \A k \in 1..Len(recent') : Newest(recent', k) = Newest(Aged(recent), k)
  BY <1>a, <1>b, <1>d, WithinNewest
<1>1. ASSUME limit > 0, NEW k \in 1..Len(recent'), Newest(recent', k) <= window
      PROVE  k <= limit /\ k <= Len(hits') /\ Newest(hits', k) <= Newest(recent', k)
  <2>1. k \in 1..Len(recent)
    BY <1>a, <1>e
  <2>2. Newest(recent', k) = Older(Newest(recent, k)) /\ Newest(recent, k) \in 0..AgeMax
    BY <1>a, <1>d, <1>e, <2>1, NewestType
  <2>3. Newest(recent, k) <= window
    BY <1>a, <1>1, <2>2, OlderFacts
  <2>4. k <= limit /\ k <= Len(hits) /\ Newest(hits, k) <= Newest(recent, k)
    BY <1>1, <2>1, <2>3 DEF RpcInv, WindowInv
  <2>5. k \in 1..Len(hits) /\ Newest(hits, k) \in 0..AgeMax
    BY <1>a, <2>4, NewestType
  <2>6. Older(Newest(hits, k)) <= Older(Newest(recent, k))
    BY <2>2, <2>4, <2>5, OlderFacts
  <2> QED
    BY <1>c, <2>2, <2>4, <2>5, <2>6
<1>2. WindowInv'
  BY <1>b, <1>1 DEF WindowInv, Newest
<1> QED
  BY <1>c, <1>e, <1>2

-----------------------------------------------------------------------------
(* Types.                                                                  *)

\* pending_ grows older.
LEMMA PendingAged ==
    ASSUME TypeOK, Time
    PROVE  /\ pending' \in Seq(Entries) /\ Len(pending') = Len(pending)
           /\ \A i \in 1..Len(pending) : pending'[i].id = pending[i].id
<1>1. /\ pending \in Seq(Entries) /\ Len(pending) \in Nat /\ DOMAIN pending = 1..Len(pending)
      /\ \A i \in 1..Len(pending) : pending[i] \in Entries
  BY DEF TypeOK
<1> DEFINE e(i) == [pending[i] EXCEPT !.age = Older(@)]
<1>2. \A i \in 1..Len(pending) : e(i) \in Entries /\ e(i).id = pending[i].id
  <2> SUFFICES ASSUME NEW i \in 1..Len(pending)
               PROVE  e(i) \in Entries /\ e(i).id = pending[i].id
    OBVIOUS
  <2>1. /\ pending[i] \in [id : 1..MaxRpc, valid : BOOLEAN, age : 0..AgeMax]
        /\ Older(pending[i].age) \in 0..AgeMax
    BY <1>1, OlderFacts DEF Entries
  <2> QED
    BY <2>1 DEF Entries
<1>3. pending' = [i \in 1..Len(pending) |-> e(i)]
  BY <1>1 DEF Time
<1> HIDE DEF e
<1>4. pending' \in [1..Len(pending) -> Entries]
  BY <1>2, <1>3
<1> QED
  BY <1>1, <1>2, <1>3, <1>4

\* Every action keeps the types.
LEMMA TypeOKStep ==
    ASSUME RpcInv, [Next]_vars
    PROVE  TypeOK'
<1> USE DEF sessionVars
<1>a. /\ ready \in BOOLEAN /\ limit \in Limits /\ window \in Windows
      /\ hits \in Seq(0..AgeMax) /\ pending \in Seq(Entries) /\ Len(pending) <= MaxPending
      /\ flush \in {Idle} \cup 0..MaxFlush /\ expired \in Nat /\ overflow \in Nat
      /\ made \in 0..MaxRpc /\ queued \subseteq 1..made /\ sent \in Seq(1..MaxRpc)
      /\ recent \in Seq(0..AgeMax)
  BY DEF RpcInv, TypeOK
<1>b. /\ MaxPending \in Nat /\ MaxFlush \in Nat /\ MaxRpc \in Nat
      /\ 0 \in 0..AgeMax /\ 0 \in 0..MaxFlush
  BY QueueAssumption, AgeMaxFacts
<1>c. <<>> \in Seq(0..AgeMax) /\ <<>> \in Seq(Entries) /\ <<>> \in Seq(1..MaxRpc)
      /\ Len(<<>>) <= MaxPending
  BY <1>b
<1>1. ASSUME NEW l \in Limits, NEW w \in Windows, ConfigureRateLimit(l, w) PROVE TypeOK'
  BY <1>1, <1>a, <1>c DEF ConfigureRateLimit, TypeOK
<1>2. ASSUME NEW valid \in BOOLEAN, SendQueued(valid) PROVE TypeOK'
  <2> DEFINE e == [id |-> made', valid |-> valid, age |-> 0]
  <2>1. made' = made + 1 /\ made' \in 0..MaxRpc /\ made' \in 1..MaxRpc
        /\ queued' \subseteq 1..made'
    BY <1>2, <1>a, <1>b DEF SendQueued
  <2>2. e \in Entries
    BY <1>b, <2>1 DEF Entries
  <2>3. PushPending(e) /\ UNCHANGED <<ready, limit, window, hits, flush, expired, sent, recent>>
    BY <1>2 DEF SendQueued
  <2> HIDE DEF e
  <2>4. pending' \in Seq(Entries) /\ Len(pending') <= MaxPending /\ overflow' \in Nat
    <3>1. CASE Len(pending) < MaxPending
      <4>1. pending' = Append(pending, e) /\ overflow' = overflow
        BY <2>3, <3>1 DEF PushPending
      <4> QED
        BY <1>a, <1>b, <2>2, <3>1, <4>1, AppendProperties
    <3>2. CASE ~(Len(pending) < MaxPending)
      <4> DEFINE a == Append(pending, e)
      <4>1. a \in Seq(Entries) /\ Len(a) = Len(pending) + 1 /\ a # <<>>
        BY <1>a, <2>2, SMTT(40)
      <4>2. pending' = Tail(a) /\ overflow' = overflow + 1
        BY <2>3, <3>2 DEF PushPending
      <4> HIDE DEF a
      <4> QED
        BY <1>a, <1>b, <4>1, <4>2
    <3> QED
      BY <3>1, <3>2
  <2> QED
    BY <1>a, <2>1, <2>3, <2>4 DEF TypeOK
<1>3. ASSUME NEW n \in 1..MaxRpc, NEW valid, Sends(n, valid) \/ Fails, UNCHANGED <<limit, window>>
      PROVE  /\ hits' \in Seq(0..AgeMax) /\ recent' \in Seq(0..AgeMax)
             /\ sent' \in Seq(1..MaxRpc)
  <2>1. /\ hits' = HitsNow \/ Consume
        /\ recent' = recent \/ (recent' = Append(recent, 0) /\ ~Limited /\ Consume)
        /\ sent' = sent \/ sent' = Append(sent, n)
    BY <1>3 DEF Sends, Fails
  <2>2. hits' \in Seq(0..AgeMax) /\ recent' \in Seq(0..AgeMax)
    BY <1>3, <2>1, QuotaStep
  <2>3. sent' \in Seq(1..MaxRpc)
    <3>1. Append(sent, n) \in Seq(1..MaxRpc)
      BY <1>a, AppendProperties
    <3> QED
      BY <1>a, <2>1, <3>1
  <2> QED
    BY <2>2, <2>3
<1>4. ASSUME NEW valid \in BOOLEAN, SendNow(valid) PROVE TypeOK'
  <2>1. made' = made + 1 /\ made' \in 0..MaxRpc /\ made' \in 1..MaxRpc
        /\ queued' \subseteq 1..made'
    BY <1>4, <1>a, <1>b DEF SendNow
  <2>2. Sends(made', valid) \/ Fails
    BY <1>4 DEF SendNow
  <2>3. UNCHANGED <<ready, limit, window, pending, flush, expired, overflow>>
    BY <1>4 DEF SendNow
  <2>4. PICK n \in 1..MaxRpc : n = made'
    BY <2>1
  <2>5. /\ hits' \in Seq(0..AgeMax) /\ recent' \in Seq(0..AgeMax) /\ sent' \in Seq(1..MaxRpc)
    BY <1>3, <2>2, <2>3, <2>4
  <2> QED
    BY <1>a, <2>1, <2>3, <2>5 DEF TypeOK
<1>5. CASE ReadyChanges
  <2>1. ready' \in BOOLEAN
    BY <1>5 DEF ReadyChanges
  <2> QED
    BY <1>5, <1>a, <2>1 DEF ReadyChanges, TypeOK
<1>6. CASE ClearPending
  <2>1. ready' \in BOOLEAN
    BY <1>6 DEF ClearPending
  <2>2. made' \in 0..MaxRpc /\ queued' \subseteq 1..made'
    BY <1>6, <1>b DEF ClearPending
  <2> QED
    BY <1>6, <1>a, <1>c, <2>1, <2>2 DEF ClearPending, TypeOK
<1>7. CASE Time
  <2>1. pending' \in Seq(Entries) /\ Len(pending') = Len(pending)
    BY <1>7, PendingAged DEF RpcInv
  <2>2. hits' \in Seq(0..AgeMax) /\ recent' \in Seq(0..AgeMax)
    BY <1>7, TimeStep
  <2> QED
    BY <1>7, <1>a, <2>1, <2>2 DEF Time, TypeOK
<1>8. CASE FlushBegin
  BY <1>8, <1>a, <1>b DEF FlushBegin, TypeOK
<1>9. CASE FlushExpire
  <2>1. pending' \in Seq(Entries) /\ Len(pending') <= MaxPending /\ expired' \in Nat
    BY <1>9, <1>a, <1>b DEF FlushExpire, FlushTurn
  <2> QED
    BY <1>9, <1>a, <2>1 DEF FlushExpire, TypeOK
<1>10. CASE FlushSend
  <2>1. pending # <<>> /\ pending' = Tail(pending) /\ flush \in 0..MaxFlush /\ flush < MaxFlush
        /\ flush' = flush + 1
    BY <1>10, <1>a DEF FlushSend, FlushTurn
  <2>a. /\ pending' \in Seq(Entries) /\ Len(pending') = Len(pending) - 1
        /\ Head(pending) \in Entries /\ Len(pending) \in Nat
    BY <1>a, <2>1
  <2>2. /\ pending' \in Seq(Entries) /\ Len(pending') <= MaxPending
        /\ Head(pending).id \in 1..MaxRpc
    BY <1>a, <1>b, <2>a DEF Entries
  <2>3. flush' \in 0..MaxFlush
    BY <1>b, <2>1
  <2>4. PICK n \in 1..MaxRpc : n = Head(pending).id
    BY <2>2
  <2>5. /\ Sends(n, Head(pending).valid)
        /\ UNCHANGED <<ready, limit, window, expired, overflow, made, queued>>
    BY <1>10, <2>4 DEF FlushSend
  <2>6. /\ hits' \in Seq(0..AgeMax) /\ recent' \in Seq(0..AgeMax) /\ sent' \in Seq(1..MaxRpc)
    BY <1>3, <2>5
  <2> QED
    BY <1>a, <2>2, <2>3, <2>5, <2>6 DEF TypeOK
<1>11. CASE FlushHold
  <2>1. Fails /\ UNCHANGED <<ready, limit, window, pending, expired, overflow, made, queued>>
        /\ flush' = Idle
    BY <1>11 DEF FlushHold
  <2>2. hits' = HitsNow \/ Consume
    BY <2>1 DEF Fails
  <2>3. recent' = recent /\ sent' = sent
    BY <2>1 DEF Fails
  <2>4. hits' \in Seq(0..AgeMax) /\ recent' \in Seq(0..AgeMax)
    BY <2>1, <2>2, <2>3, QuotaStep
  <2> QED
    BY <1>a, <2>1, <2>3, <2>4 DEF TypeOK
<1>12. CASE FlushEnd
  BY <1>12, <1>a DEF FlushEnd, TypeOK
<1>13. CASE UNCHANGED vars
  BY <1>13, <1>a DEF vars, TypeOK
<1> QED
  BY <1>1, <1>2, <1>4, <1>5, <1>6, <1>7, <1>8, <1>9, <1>10, <1>11, <1>12, <1>13 DEF Next

-----------------------------------------------------------------------------
(* The queue.                                                              *)

\* The sends of queued RPCs.
Flushed == {i \in DOMAIN sent : sent[i] \in queued}

InOrder ==
    /\ \A i, j \in Flushed : i < j => sent[i] < sent[j]
    /\ \A i \in Flushed, j \in DOMAIN pending : sent[i] < pending[j].id
    /\ \A i, j \in DOMAIN pending : i < j => pending[i].id < pending[j].id

Counted == Cardinality(queued) = Cardinality(Flushed) + Len(pending) + expired + overflow

\* The property, taken apart.
LEMMA AccountedParts == QueuedAccounted <=> InOrder /\ Counted
  BY DEF QueuedAccounted, InOrder, Counted, Flushed

\* The sets that are counted are finite.
LEMMA CountedSets ==
    ASSUME TypeOK
    PROVE  /\ IsFiniteSet(queued) /\ IsFiniteSet(Flushed)
           /\ Cardinality(queued) \in Nat /\ Cardinality(Flushed) \in Nat
<1>1. Len(sent) \in Nat /\ DOMAIN sent = 1..Len(sent) /\ made \in Nat /\ queued \subseteq 1..made
  BY DEF TypeOK
<1>2. IsFiniteSet(1..Len(sent)) /\ IsFiniteSet(1..made)
  BY <1>1, FS_Interval
<1>3. Flushed \subseteq 1..Len(sent)
  BY <1>1 DEF Flushed
<1>4. IsFiniteSet(queued) /\ IsFiniteSet(Flushed)
  BY <1>1, <1>2, <1>3, FS_Subset
<1> QED
  BY <1>4, FS_CardinalityType

\* What waits is in order, whether its front leaves or time passes.
LEMMA TailInOrder ==
    ASSUME TypeOK, pending # <<>>, pending' = Tail(pending)
    PROVE  /\ Len(pending') = Len(pending) - 1 /\ Len(pending) \in Nat
           /\ \A j \in DOMAIN pending' : j + 1 \in DOMAIN pending /\ pending'[j] = pending[j + 1]
           /\ \A i, j \in DOMAIN pending' : i < j => i + 1 < j + 1
           /\ Head(pending) = pending[1] /\ 1 \in DOMAIN pending
           /\ \A j \in DOMAIN pending' : 1 < j + 1
<1>1. pending \in Seq(Entries)
  BY DEF TypeOK
<1>2. /\ Len(pending') = Len(pending) - 1 /\ Len(pending) \in Nat
      /\ DOMAIN pending' = 1..Len(pending') /\ DOMAIN pending = 1..Len(pending)
      /\ Len(pending) >= 1
      /\ \A j \in 1..Len(pending') : pending'[j] = pending[j + 1]
      /\ Head(pending) = pending[1]
  BY <1>1
<1> QED
  BY <1>2

\* Every action keeps the queue in order and every call accounted for.
LEMMA QueueStep ==
    ASSUME RpcInv, TypeOK', [Next]_vars
    PROVE  QueueInv' /\ QueuedAccounted'
<1> USE DEF sessionVars
<1>a. /\ TypeOK /\ pending \in Seq(Entries) /\ made \in Nat /\ queued \subseteq 1..made
      /\ sent \in Seq(1..MaxRpc) /\ expired \in Nat /\ overflow \in Nat
      /\ Len(sent) \in Nat /\ DOMAIN sent = 1..Len(sent)
      /\ Len(pending) \in Nat /\ DOMAIN pending = 1..Len(pending)
  BY DEF RpcInv, TypeOK
<1>a1. /\ \A i \in DOMAIN pending : pending[i].id \in Nat
       /\ \A i \in DOMAIN sent : sent[i] \in Nat
  <2>1. \A i \in DOMAIN pending : pending[i] \in Entries
    BY <1>a
  <2>2. \A i \in DOMAIN sent : sent[i] \in 1..MaxRpc
    BY <1>a, ElementOfSeq
  <2>3. \A i \in DOMAIN pending : pending[i].id \in 1..MaxRpc
    BY <2>1 DEF Entries
  <2>4. \A n \in 1..MaxRpc : n \in Nat
    BY QueueAssumption
  <2> QED
    BY <2>2, <2>3, <2>4
<1>b. /\ IsFiniteSet(queued) /\ IsFiniteSet(Flushed)
      /\ Cardinality(queued) \in Nat /\ Cardinality(Flushed) \in Nat
  BY <1>a, CountedSets
<1>c. InOrder /\ Counted
  BY AccountedParts DEF RpcInv
<1>d. /\ \A i \in DOMAIN pending : pending[i].id \in queued
      /\ \A i \in DOMAIN sent : sent[i] <= made
  BY DEF RpcInv, QueueInv
<1>e. \A i \in Flushed : i \in DOMAIN sent /\ sent[i] \in queued
  BY DEF Flushed
<1>f. QueuedAccounted' <=> InOrder' /\ Counted'
  BY DEF QueuedAccounted, InOrder, Counted, Flushed
<1> SUFFICES QueueInv' /\ InOrder' /\ Counted'
  BY <1>f
<1>1. ASSUME UNCHANGED <<sent, queued, expired, overflow>>, made' >= made,
             Len(pending') = Len(pending), DOMAIN pending' = DOMAIN pending,
             \A i \in DOMAIN pending : pending'[i].id = pending[i].id, made' \in Nat
      PROVE  QueueInv' /\ InOrder' /\ Counted'
  <2>1. Flushed' = Flushed
    BY <1>1 DEF Flushed
  <2>2. QueueInv'
    BY <1>1, <1>a, <1>a1, <1>d DEF QueueInv
  <2>3. InOrder'
    BY <1>1, <1>c, <1>e, <2>1 DEF InOrder
  <2>4. Counted'
    BY <1>1, <1>c, <2>1 DEF Counted
  <2> QED
    BY <2>2, <2>3, <2>4
<1>2. ASSUME NEW valid \in BOOLEAN, SendQueued(valid) PROVE QueueInv' /\ InOrder' /\ Counted'
  <2> DEFINE e == [id |-> made + 1, valid |-> valid, age |-> 0]
  <2>1. /\ made' = made + 1 /\ queued' = queued \cup {made + 1} /\ UNCHANGED <<expired, sent>>
        /\ \/ /\ pending' = Append(pending, e) /\ overflow' = overflow
           \/ /\ pending' = Tail(Append(pending, e)) /\ overflow' = overflow + 1
    BY <1>2 DEF SendQueued, PushPending
  <2>2. made + 1 \in 1..MaxRpc
    BY <1>2, <1>a, QueueAssumption DEF SendQueued
  <2>3. e \in Entries /\ e.id = made + 1
    BY <2>2, AgeMaxFacts DEF Entries
  <2> HIDE DEF e
  <2> DEFINE a == Append(pending, e)
  <2>4. /\ a \in Seq(Entries) /\ a # <<>> /\ Len(a) = Len(pending) + 1
        /\ \A i \in 1..Len(pending) : a[i] = pending[i]
        /\ a[Len(pending) + 1] = e
    BY <1>a, <2>3, AppendProperties
  <2> HIDE DEF a
  <2>5. ASSUME NEW i \in 1..Len(a)
        PROVE  /\ a[i].id \in queued' /\ a[i].id \in Nat
               /\ \A j \in 1..Len(a) : i < j => a[i].id < a[j].id
               /\ \A j \in Flushed : sent[j] < a[i].id
    <3>1. \A n \in queued : n \in Nat /\ n < made + 1
      BY <1>a
    <3>2. CASE i \in 1..Len(pending)
      <4>1. a[i] = pending[i] /\ i \in DOMAIN pending
        BY <1>a, <2>4, <3>2
      <4>2. ASSUME NEW j \in 1..Len(a), i < j PROVE a[i].id < a[j].id
        <5>1. CASE j \in 1..Len(pending)
          BY <1>a, <1>c, <2>4, <4>1, <4>2, <5>1 DEF InOrder
        <5>2. CASE j = Len(pending) + 1
          BY <1>d, <2>3, <2>4, <3>1, <4>1, <5>2
        <5> QED
          BY <1>a, <2>4, <5>1, <5>2
      <4> QED
        BY <1>a1, <1>c, <1>d, <2>1, <4>1, <4>2 DEF InOrder
    <3>3. CASE i = Len(pending) + 1
      <4>1. a[i].id = made + 1
        BY <2>3, <2>4, <3>3
      <4>2. \A j \in 1..Len(a) : ~(i < j)
        BY <1>a, <2>4, <3>3
      <4>3. \A j \in Flushed : sent[j] < made + 1
        BY <1>e, <3>1
      <4> QED
        BY <1>a, <2>1, <4>1, <4>2, <4>3
    <3> QED
      BY <1>a, <2>4, <3>2, <3>3
  <2>6. Flushed' = Flushed
    <3>1. \A i \in DOMAIN sent : sent[i] # made + 1
      BY <1>a, <1>a1, <1>d
    <3> QED
      BY <2>1, <3>1 DEF Flushed
  <2>7. Cardinality(queued') = Cardinality(queued) + 1
    <3>1. made + 1 \notin queued
      BY <1>a
    <3> QED
      BY <1>b, <2>1, <3>1, FS_AddElement
  <2>8. ASSUME NEW p, pending' = p, \A j \in DOMAIN p : \E i \in 1..Len(a) : p[j] = a[i],
               \A i, j \in DOMAIN p : i < j => p[i].id < p[j].id
        PROVE  QueueInv' /\ InOrder'
    <3>1. QueueInv'
      BY <1>a, <1>a1, <1>d, <2>1, <2>5, <2>8, SMTT(40) DEF QueueInv
    <3>2. InOrder'
      BY <1>c, <2>1, <2>5, <2>6, <2>8 DEF InOrder
    <3> QED
      BY <3>1, <3>2
  <2>9. CASE pending' = a /\ overflow' = overflow
    <3>1. DOMAIN a = 1..Len(a)
      BY <2>4
    <3>2. QueueInv' /\ InOrder'
      BY <2>5, <2>8, <2>9, <3>1
    <3>3. Counted'
      <4>1. /\ Cardinality(Flushed') = Cardinality(Flushed) /\ Len(pending') = Len(pending) + 1
            /\ expired' = expired /\ overflow' = overflow
        BY <2>1, <2>4, <2>6, <2>9
      <4> QED
        BY <1>a, <1>b, <1>c, <2>7, <4>1 DEF Counted
    <3> QED
      BY <3>2, <3>3
  <2>10. CASE pending' = Tail(a) /\ overflow' = overflow + 1
    <3>1. /\ Len(Tail(a)) = Len(pending) /\ DOMAIN Tail(a) = 1..Len(pending)
          /\ \A j \in 1..Len(pending) : j + 1 \in 1..Len(a) /\ Tail(a)[j] = a[j + 1]
      BY <1>a, <2>4, HeadTailProperties
    <3>2. \A i, j \in 1..Len(pending) : i < j => i + 1 < j + 1
      OBVIOUS
    <3>3. QueueInv' /\ InOrder'
      BY <2>5, <2>8, <2>10, <3>1, <3>2
    <3>4. Counted'
      BY <1>a, <1>b, <1>c, <2>1, <2>6, <2>7, <2>10, <3>1, SMTT(40) DEF Counted
    <3> QED
      BY <3>3, <3>4
  <2> QED
    BY <2>1, <2>9, <2>10 DEF a
<1>3. ASSUME NEW valid \in BOOLEAN, SendNow(valid) PROVE QueueInv' /\ InOrder' /\ Counted'
  <2>1. /\ made' = made + 1 /\ UNCHANGED <<pending, expired, overflow, queued>>
        /\ sent' = sent \/ sent' = Append(sent, made + 1)
    BY <1>3 DEF SendNow, Sends, Fails
  <2>2. CASE sent' = sent
    BY <1>1, <1>a, <2>1, <2>2
  <2>3. CASE sent' = Append(sent, made + 1)
    <3>1. /\ Len(sent') = Len(sent) + 1 /\ DOMAIN sent' = 1..(Len(sent) + 1)
          /\ \A i \in 1..Len(sent) : sent'[i] = sent[i]
          /\ sent'[Len(sent) + 1] = made + 1
      <4>1. made + 1 \in 1..MaxRpc
        BY <1>3, <1>a, QueueAssumption DEF SendNow
      <4> QED
        BY <1>a, <2>3, <4>1, AppendProperties
    <3>2. made + 1 \notin queued
      BY <1>a
    <3>3. ASSUME NEW i PROVE i \in Flushed' <=> i \in Flushed
      BY <1>a, <2>1, <3>1, <3>2 DEF Flushed
    <3>4. Flushed' = Flushed
      BY <3>3
    <3>5. \A i \in Flushed : sent'[i] = sent[i]
      BY <1>a, <1>e, <3>1
    <3>6. QueueInv'
      <4>1. ASSUME NEW i \in DOMAIN sent' PROVE sent'[i] <= made'
        <5>1. i = Len(sent) + 1 \/ (i \in 1..Len(sent) /\ sent[i] \in Nat /\ sent[i] <= made)
          BY <1>a, <1>a1, <1>d, <3>1
        <5> QED
          BY <1>a, <2>1, <3>1, <5>1
      <4> QED
        BY <1>d, <2>1, <4>1 DEF QueueInv
    <3>7. InOrder'
      BY <1>c, <2>1, <3>4, <3>5 DEF InOrder
    <3>8. Counted'
      BY <1>c, <2>1, <3>4 DEF Counted
    <3> QED
      BY <3>6, <3>7, <3>8
  <2> QED
    BY <2>1, <2>2, <2>3
<1>4. CASE ClearPending
  <2>1. /\ pending' = <<>> /\ sent' = <<>> /\ queued' = {} /\ expired' = 0 /\ overflow' = 0
        /\ DOMAIN pending' = {} /\ DOMAIN sent' = {} /\ Len(pending') = 0
    BY <1>4 DEF ClearPending
  <2>2. Flushed' = {}
    BY <2>1 DEF Flushed
  <2>3. Counted'
    BY <2>1, <2>2, FS_EmptySet DEF Counted
  <2> QED
    BY <2>1, <2>2, <2>3 DEF QueueInv, InOrder
<1>5. CASE Time
  <2>1. /\ Len(pending') = Len(pending) /\ DOMAIN pending' = DOMAIN pending
        /\ \A i \in DOMAIN pending : pending'[i].id = pending[i].id
    <3>1. /\ pending' \in Seq(Entries) /\ Len(pending') = Len(pending)
          /\ \A i \in 1..Len(pending) : pending'[i].id = pending[i].id
      BY <1>5, <1>a, PendingAged
    <3>2. DOMAIN pending' = 1..Len(pending')
      BY <3>1
    <3> QED
      BY <1>a, <3>1, <3>2
  <2>2. UNCHANGED <<sent, queued, expired, overflow, made>>
    BY <1>5 DEF Time
  <2> QED
    BY <1>1, <1>a, <2>1, <2>2
<1>6. ASSUME pending # <<>>, pending' = Tail(pending), UNCHANGED <<made, queued>>
      PROVE  /\ \A j \in DOMAIN pending' : pending'[j].id \in queued'
             /\ \A j \in DOMAIN pending', i \in Flushed : sent[i] < pending'[j].id
             /\ \A j \in DOMAIN pending' : Head(pending).id < pending'[j].id
             /\ \A i, j \in DOMAIN pending' : i < j => pending'[i].id < pending'[j].id
  BY <1>6, <1>a, <1>c, <1>d, TailInOrder DEF InOrder
<1>7. CASE FlushExpire
  <2>1. /\ pending # <<>> /\ pending' = Tail(pending) /\ expired' = expired + 1
        /\ UNCHANGED <<overflow, made, queued, sent>>
    BY <1>7 DEF FlushExpire, FlushTurn
  <2>2. Flushed' = Flushed
    BY <2>1 DEF Flushed
  <2>3. QueueInv' /\ InOrder'
    BY <1>6, <1>c, <1>d, <2>1, <2>2 DEF QueueInv, InOrder
  <2>4. Counted'
    <3>1. Len(pending') = Len(pending) - 1
      BY <1>a, <2>1, TailInOrder
    <3> QED
      BY <1>a, <1>b, <1>c, <2>1, <2>2, <3>1 DEF Counted
  <2> QED
    BY <2>3, <2>4
<1>8. CASE FlushSend
  <2>1. /\ pending # <<>> /\ pending' = Tail(pending)
        /\ sent' = Append(sent, Head(pending).id)
        /\ UNCHANGED <<overflow, expired, made, queued>>
    BY <1>8 DEF FlushSend, FlushTurn, Sends
  <2>2. /\ Len(pending') = Len(pending) - 1
        /\ Head(pending) = pending[1] /\ 1 \in DOMAIN pending
    BY <1>a, <2>1, TailInOrder
  <2> DEFINE h == Head(pending).id
             n == Len(sent) + 1
  <2>3. h \in queued /\ h \in Nat /\ h <= made /\ \A i \in Flushed : sent[i] < h
    <3>1. h = pending[1].id /\ h \in queued
      BY <1>d, <2>2
    <3>2. \A i \in Flushed : sent[i] < h
      BY <1>c, <2>2, <3>1 DEF InOrder
    <3> HIDE DEF h
    <3>3. h \in 1..made /\ made \in Nat
      BY <1>a, <3>1, Zenon
    <3>4. h \in Nat /\ h <= made
      BY <3>3
    <3> QED
      BY <3>1, <3>2, <3>4, Zenon
  <2>4. /\ Len(sent') = n /\ DOMAIN sent' = 1..n /\ n \in Nat
        /\ \A i \in 1..Len(sent) : sent'[i] = sent[i]
        /\ sent'[n] = h
    <3>1. h \in 1..MaxRpc
      <4>1. pending[1] \in Entries
        BY <1>a, <2>2
      <4> QED
        BY <2>2, <4>1 DEF Entries
    <3> QED
      BY <1>a, <2>1, <3>1, AppendProperties
  <2>5. ASSUME NEW i PROVE i \in Flushed' <=> (i \in Flushed \/ i = n)
    BY <1>a, <2>1, <2>3, <2>4 DEF Flushed
  <2>6. Flushed' = Flushed \cup {n}
    BY <2>5
  <2>7. n \notin Flushed /\ \A i \in Flushed : i \in Nat /\ i < n /\ sent'[i] = sent[i] /\ sent[i] \in Nat
    BY <1>a, <1>a1, <1>e, <2>4
  <2> HIDE DEF h, n
  <2>8. QueueInv'
    <3>1. ASSUME NEW i \in DOMAIN sent' PROVE sent'[i] <= made'
      <4>1. i = n \/ i \in 1..Len(sent)
        BY <1>a, <2>4 DEF n
      <4> QED
        BY <1>a, <1>d, <2>1, <2>3, <2>4, <4>1
    <3> QED
      BY <1>6, <2>1, <3>1 DEF QueueInv
  <2>9. InOrder'
    <3>1. ASSUME NEW i \in Flushed', NEW j \in Flushed', i < j PROVE sent'[i] < sent'[j]
      <4>1. i \in Flushed
        BY <2>4, <2>6, <2>7, <3>1
      <4>2. CASE j = n
        BY <2>3, <2>4, <2>7, <4>1, <4>2
      <4>3. CASE j \in Flushed
        BY <1>c, <2>7, <3>1, <4>1, <4>3 DEF InOrder
      <4> QED
        BY <2>6, <4>2, <4>3
    <3>2. ASSUME NEW i \in Flushed', NEW j \in DOMAIN pending' PROVE sent'[i] < pending'[j].id
      <4>1. h < pending'[j].id /\ \A k \in Flushed : sent[k] < pending'[j].id
        <5>1. UNCHANGED <<made, queued>>
          BY <2>1
        <5>2. Head(pending).id < pending'[j].id /\ \A k \in Flushed : sent[k] < pending'[j].id
          BY <1>6, <2>1, <5>1
        <5> QED
          BY <5>2 DEF h
      <4>2. i = n \/ i \in Flushed
        BY <2>6
      <4> QED
        BY <2>4, <2>7, <4>1, <4>2
    <3> QED
      BY <1>6, <2>1, <3>1, <3>2 DEF InOrder
  <2>10. Counted'
    <3>1. Cardinality(Flushed') = Cardinality(Flushed) + 1
      BY <1>b, <2>6, <2>7, FS_AddElement
    <3> QED
      BY <1>a, <1>b, <1>c, <2>1, <2>2, <3>1 DEF Counted
  <2> QED
    BY <2>8, <2>9, <2>10
<1>9. CASE \E l \in Limits, w \in Windows : ConfigureRateLimit(l, w)
  BY <1>1, <1>9, <1>a DEF ConfigureRateLimit
<1>10. CASE ReadyChanges \/ FlushBegin \/ FlushHold \/ FlushEnd \/ UNCHANGED vars
  <2>1. UNCHANGED <<pending, expired, overflow, made, queued, sent>>
    BY <1>10 DEF ReadyChanges, FlushBegin, FlushHold, FlushEnd, Fails, vars
  <2> QED
    BY <1>1, <1>a, <2>1
<1> QED
  BY <1>2, <1>3, <1>4, <1>5, <1>7, <1>8, <1>9, <1>10 DEF Next

-----------------------------------------------------------------------------
(* The window.                                                             *)

\* Every action leaves the hits sorted and the window no fuller than the limit.
LEMMA WindowStep ==
    ASSUME RpcInv, [Next]_vars
    PROVE  Sorted(hits') /\ WindowInv'
<1> USE DEF sessionVars
<1>a. Sorted(hits) /\ WindowInv
  BY DEF RpcInv
<1>1. ASSUME UNCHANGED <<limit, window, hits, recent>> PROVE Sorted(hits') /\ WindowInv'
  BY <1>1, <1>a DEF WindowInv, Newest
<1>2. ASSUME recent' = <<>> PROVE WindowInv'
  <2>1. Len(recent') = 0
    BY <1>2
  <2>2. 1..Len(recent') = {}
    BY <2>1
  <2> QED
    BY <2>2 DEF WindowInv
<1>3. ASSUME UNCHANGED <<limit, window>>, hits' = HitsNow \/ Consume,
             recent' = recent \/ (recent' = Append(recent, 0) /\ ~Limited /\ Consume)
      PROVE  Sorted(hits') /\ WindowInv'
  BY <1>3, QuotaStep
<1>4. CASE \E l \in Limits, w \in Windows : ConfigureRateLimit(l, w)
  BY <1>2, <1>4, <1>a DEF ConfigureRateLimit
<1>5. CASE \E valid \in BOOLEAN : SendNow(valid)
  <2>1. UNCHANGED <<limit, window>>
    BY <1>5 DEF SendNow
  <2>2. \/ ~Limited /\ Consume /\ recent' = Append(recent, 0)
        \/ (hits' = HitsNow \/ Consume) /\ recent' = recent
    BY <1>5 DEF SendNow, Sends, Fails
  <2> QED
    BY <1>3, <2>1, <2>2
<1>6. CASE ClearPending
  <2>1. hits' = <<>> /\ recent' = <<>>
    BY <1>6 DEF ClearPending
  <2>2. Sorted(hits')
    BY <2>1 DEF Sorted
  <2> QED
    BY <1>2, <2>1, <2>2
<1>7. CASE Time
  BY <1>7, TimeStep
<1>8. CASE FlushSend
  <2>1. /\ UNCHANGED <<limit, window>>
        /\ ~Limited /\ Consume /\ recent' = Append(recent, 0)
    BY <1>8 DEF FlushSend, Sends
  <2> QED
    BY <1>3, <2>1
<1>9. CASE FlushHold
  <2>1. UNCHANGED <<limit, window, recent>> /\ (hits' = HitsNow \/ Consume)
    BY <1>9 DEF FlushHold, Fails
  <2> QED
    BY <1>3, <2>1
<1>10. CASE \/ \E valid \in BOOLEAN : SendQueued(valid)
            \/ ReadyChanges \/ FlushBegin \/ FlushExpire \/ FlushEnd \/ UNCHANGED vars
  <2>1. UNCHANGED <<limit, window, hits, recent>>
    BY <1>10 DEF SendQueued, ReadyChanges, FlushBegin, FlushExpire, FlushEnd, vars
  <2> QED
    BY <1>1, <2>1
<1> QED
  BY <1>4, <1>5, <1>6, <1>7, <1>8, <1>9, <1>10 DEF Next

-----------------------------------------------------------------------------
(* The theorems.                                                           *)

\* A new client has sent nothing and has nothing to send.
LEMMA RpcInit == Init => RpcInv
<1> SUFFICES ASSUME Init PROVE RpcInv
  OBVIOUS
<1>1. /\ hits = <<>> /\ pending = <<>> /\ sent = <<>> /\ recent = <<>> /\ queued = {}
      /\ expired = 0 /\ overflow = 0 /\ made = 0 /\ flush = Idle
      /\ limit \in Limits /\ window \in Windows
  BY DEF Init
<1>2. /\ hits \in Seq(0..AgeMax) /\ recent \in Seq(0..AgeMax) /\ pending \in Seq(Entries)
      /\ sent \in Seq(1..MaxRpc) /\ Len(pending) = 0 /\ Len(recent) = 0
      /\ DOMAIN hits = {} /\ DOMAIN pending = {} /\ DOMAIN sent = {}
  BY <1>1
<1>3. ready \in BOOLEAN
  BY DEF Init
<1>4. TypeOK
  BY <1>1, <1>2, <1>3, QueueAssumption DEF TypeOK
<1>5. Sorted(hits) /\ WindowInv
  <2>1. 1..Len(recent) = {}
    BY <1>2
  <2> QED
    BY <1>2, <2>1 DEF Sorted, WindowInv
<1>6. QueueInv /\ InOrder
  BY <1>2 DEF QueueInv, InOrder, Flushed
<1>7. Counted
  <2>1. Flushed = {}
    BY <1>2 DEF Flushed
  <2> QED
    BY <1>1, <1>2, <2>1, FS_EmptySet DEF Counted
<1> QED
  BY <1>4, <1>5, <1>6, <1>7, AccountedParts DEF RpcInv

\* The inductive invariant holds in every reachable state.
THEOREM RpcInvariant == Spec => []RpcInv
<1>1. Init => RpcInv
  BY RpcInit
<1>2. RpcInv /\ [Next]_vars => RpcInv'
  <2> SUFFICES ASSUME RpcInv, [Next]_vars PROVE RpcInv'
    OBVIOUS
  <2>1. TypeOK'
    BY TypeOKStep
  <2>2. QueueInv' /\ QueuedAccounted'
    BY <2>1, QueueStep
  <2>3. Sorted(hits') /\ WindowInv'
    BY WindowStep
  <2>4. Sorted(hits)'
    BY <2>3 DEF Sorted
  <2> QED
    BY <2>1, <2>2, <2>3, <2>4 DEF RpcInv
<1> QED
  BY <1>1, <1>2, PTL DEF Spec

\* RpcManager's variables keep their types and pending_ its limit.
THEOREM RpcTypeCorrect == Spec => []TypeOK
<1>1. RpcInv => TypeOK
  BY DEF RpcInv
<1> QED
  BY <1>1, RpcInvariant, PTL

\* However try_send_now and flush_pending alternate, at most rpc_limit_ sends lie
\* within one window: for every limit, every window and any number of RPCs.
THEOREM RateAlwaysLimited == Spec => []RateLimited
<1>1. RpcInv => RateLimited
  <2> SUFFICES ASSUME RpcInv, limit > 0
               PROVE  Cardinality({i \in DOMAIN recent : ~(recent[i] > window)}) <= limit
    BY DEF RateLimited
  <2> DEFINE S == {i \in DOMAIN recent : ~(recent[i] > window)}
             n == Len(recent)
  <2>1. /\ recent \in Seq(0..AgeMax) /\ n \in Nat /\ DOMAIN recent = 1..n
        /\ limit \in Nat /\ window \in Nat /\ AgeMax \in Nat
    BY AgeMaxFacts, LimitsAssumption DEF RpcInv, TypeOK
  <2>2. ASSUME NEW i \in S PROVE i \in (n - limit + 1)..n
    <3>1. i \in 1..n /\ recent[i] \in 0..AgeMax /\ ~(recent[i] > window)
      BY <2>1, ElementOfSeq
    <3>2. n + 1 - i \in 1..n /\ n + 1 - (n + 1 - i) = i
      BY <2>1, <3>1
    <3>3. Newest(recent, n + 1 - i) = recent[i]
      BY <3>2 DEF Newest
    <3>4. Newest(recent, n + 1 - i) <= window
      BY <2>1, <3>1, <3>3
    <3>5. n + 1 - i <= limit
      BY <3>2, <3>4 DEF RpcInv, WindowInv
    <3> HIDE DEF n
    <3> QED
      BY <2>1, <3>1, <3>5
  <2>3. S \subseteq (n - limit + 1)..n
    BY <2>2
  <2> HIDE DEF S, n
  <2>4. /\ IsFiniteSet((n - limit + 1)..n)
        /\ Cardinality((n - limit + 1)..n) = limit
    <3>1. n - limit + 1 \in Int /\ n \in Int /\ ~(n - limit + 1 > n)
          /\ n - (n - limit + 1) + 1 = limit
      BY <2>1
    <3> QED
      BY <3>1, FS_Interval
  <2>5. Cardinality(S) <= limit
    BY <2>3, <2>4, FS_Subset
  <2> QED
    BY <2>5 DEF S
<1> QED
  BY <1>1, RpcInvariant, PTL

\* Every RPC fired before the client was ready is sent once and in order, still
\* waits, or is counted by a drop counter, however sends, flushes and overflows
\* of pending_ interleave.
THEOREM QueuedAlwaysAccounted == Spec => []QueuedAccounted
<1>1. RpcInv => QueuedAccounted
  BY DEF RpcInv
<1> QED
  BY <1>1, RpcInvariant, PTL
=============================================================================
