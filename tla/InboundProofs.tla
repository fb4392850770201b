----------------------------- MODULE InboundProofs -----------------------------
(***************************************************************************)
(* Proofs about module Inbound for any rooms whose topics differ, any      *)
(* high-water mark, any limit of the inbox and any number of messages and  *)
(* sessions.                                                               *)
(***************************************************************************)
EXTENDS Inbound, FiniteSetTheorems, SequenceTheorems, TLAPS

SubLanes == {"pose", "objects"}
Lanes == SubLanes \cup {"control"}
Numbers == Nat \cup {None}

-----------------------------------------------------------------------------
(* The inductive invariant.                                                *)

Texts == {<<"payload">>} \cup {Topic(lane, r) : lane \in Lanes, r \in Rooms}
Frames == [data : Texts, n : Nat, more : BOOLEAN]
Messages == [lane : Lanes, room : Rooms, session : Nat]
Records == [lane : Lanes, n : Nat, session : Nat]

Typed ==
    /\ room \in Rooms
    /\ session \in Nat
    /\ stopping \in BOOLEAN
    /\ netPc \in {"head", "sub", "avatar", "object", "control", "done"}
    /\ subSocket \in Seq(Frames) /\ ctlSocket \in Seq(Frames)
    /\ lastAvatar \in Numbers /\ lastObject \in Numbers
    /\ roomPose \in Numbers /\ roomObjects \in Numbers
    /\ inbox \in Seq(Nat) /\ Len(inbox) <= InboxMax
    /\ dropped \in Nat
    /\ sent \in Seq(Messages)
    /\ newest \in [pose : Numbers, objects : Numbers]
    /\ arrived \in Seq(Nat)
    /\ seen \in Seq(Records)

\* "more" says whether the next frame belongs to the same message; messages come
\* in order and have at most three frames.
Framed(s) ==
    /\ \A i \in 1..Len(s) : s[i].more <=> i < Len(s) /\ s[i + 1].n = s[i].n
    /\ \A i, j \in 1..Len(s) : i <= j => s[i].n <= s[j].n
    /\ \A i \in 1..Len(s) : i + 3 <= Len(s) => s[i].n # s[i + 3].n

\* A receive loop finds a topic with its payload here.
Starts(s, i) == s[i].more /\ (i = 1 \/ s[i - 1].n # s[i].n)

\* The frames of a socket are of this session and of its lanes, and where a
\* message starts its topic is the one it was published under.
Stamped(s, lanes, msgs, ses) ==
    \A i \in 1..Len(s) :
        /\ s[i].n \in 1..Len(msgs)
        /\ msgs[s[i].n].lane \in lanes
        /\ msgs[s[i].n].session = ses
        /\ Starts(s, i) => s[i].data = Topic(msgs[s[i].n].lane, msgs[s[i].n].room)

SocketInv ==
    /\ Framed(subSocket) /\ Stamped(subSocket, SubLanes, sent, session)
    /\ Framed(ctlSocket) /\ Stamped(ctlSocket, {"control"}, sent, session)

\* The message was sent on that lane to the room, in the session; to this room,
\* in this session.
SentTo(lane, n, msgs, r, ses) ==
    /\ n \in 1..Len(msgs)
    /\ msgs[n].lane = lane /\ msgs[n].room = r /\ msgs[n].session = ses
Genuine(lane, n) == SentTo(lane, n, sent, room, session)

\* What receive_sub holds of a lane, while it is still to be delivered, and the
\* client's slot for it.
Held(lane) == IF lane = "pose" THEN lastAvatar ELSE lastObject
Undelivered(lane) ==
    netPc \in {"sub", "avatar"} \/ (lane = "objects" /\ netPc = "object")
Slot(lane) == IF lane = "pose" THEN roomPose ELSE roomObjects

\* What is seen, in the slot, held and on the socket is genuine and grows in this
\* order.
LaneOrder(lane) ==
    /\ Held(lane) # None => Genuine(lane, Held(lane))
    /\ netPc = "done" => Held(lane) = None
    /\ Slot(lane) # None => Genuine(lane, Slot(lane))
    /\ \A i \in 1..Len(seen) : seen[i].lane = lane /\ Slot(lane) # None
                                => seen[i].n < Slot(lane)
    /\ Held(lane) # None /\ Undelivered(lane) =>
          /\ Slot(lane) # None => Slot(lane) < Held(lane)
          /\ \A i \in 1..Len(seen) : seen[i].lane = lane => seen[i].n < Held(lane)
    /\ \A i \in 1..Len(subSocket) : Starts(subSocket, i) =>
          /\ Held(lane) # None => Held(lane) < subSocket[i].n
          /\ Slot(lane) # None => Slot(lane) < subSocket[i].n
          /\ \A j \in 1..Len(seen) : seen[j].lane = lane => seen[j].n < subSocket[i].n

\* Nothing of the lane is newer than newest, and newest is somewhere on its way.
LaneNewest(lane) ==
    /\ Held(lane) # None => newest[lane] # None /\ Held(lane) <= newest[lane]
    /\ \A i \in 1..Len(subSocket) :
          Starts(subSocket, i) /\ Genuine(lane, subSocket[i].n) =>
              newest[lane] # None /\ subSocket[i].n <= newest[lane]
    /\ newest[lane] # None =>
          /\ Genuine(lane, newest[lane])
          /\ \/ \E i \in 1..Len(subSocket) :
                   Starts(subSocket, i) /\ subSocket[i].n = newest[lane]
             \/ Undelivered(lane) /\ Held(lane) = newest[lane]
             \/ Slot(lane) = newest[lane]
             \/ HasSeen(lane, newest[lane])

LaneInv == \A lane \in SubLanes : LaneOrder(lane) /\ LaneNewest(lane)

\* The inbox and the control socket, likewise.
ControlOrder ==
    /\ \A i \in 1..Len(inbox) : Genuine("control", inbox[i])
    /\ \A i, j \in 1..Len(inbox) : i < j => inbox[i] < inbox[j]
    /\ \A i \in 1..Len(inbox), j \in 1..Len(seen) :
          seen[j].lane = "control" => seen[j].n < inbox[i]
    /\ \A i \in 1..Len(ctlSocket) : Starts(ctlSocket, i) =>
          /\ \A j \in 1..Len(inbox) : inbox[j] < ctlSocket[i].n
          /\ \A j \in 1..Len(seen) :
                seen[j].lane = "control" => seen[j].n < ctlSocket[i].n

\* What was handed on was sent before, in no later session.
SeenSent ==
    \A i \in 1..Len(seen) : seen[i].n \in 1..Len(sent) /\ seen[i].session <= session

InboundInv ==
    /\ Typed /\ SocketInv /\ LaneInv /\ ControlOrder
    /\ SeenSent /\ SeenInRoomAndOrder /\ ControlAccounted

-----------------------------------------------------------------------------
(* Sockets.                                                                *)

\* A frame's fields.
LEMMA FrameType ==
    ASSUME NEW s \in Seq(Frames), NEW i \in 1..Len(s)
    PROVE  s[i].n \in Nat /\ s[i].more \in BOOLEAN /\ s[i].data \in Texts
<1>1. s[i] \in Frames
  BY ElementOfSeq
<1> QED
  BY <1>1 DEF Frames

\* One iteration of a receive loop takes the front message's topic and payload, or
\* a frame that starts nothing; what follows starts where it did, and is newer.
LEMMA RestFacts ==
    ASSUME NEW s \in Seq(Frames), s # <<>>, Framed(s)
    PROVE  /\ Rest(s) \in Seq(Frames) /\ Framed(Rest(s))
           /\ Taken(s) \in {1, 2} /\ Len(Rest(s)) = Len(s) - Taken(s)
           /\ \A j \in 1..Len(Rest(s)) :
                /\ j + Taken(s) \in 1..Len(s) /\ Rest(s)[j] = s[j + Taken(s)]
                /\ Starts(Rest(s), j) => Starts(s, j + Taken(s)) /\ s[1].n < s[j + Taken(s)].n
           /\ \A i \in 1..Len(s) : Starts(s, i) =>
                \/ i = 1 /\ Taken(s) = 2
                \/ \E j \in 1..Len(Rest(s)) : Starts(Rest(s), j) /\ Rest(s)[j].n = s[i].n
           /\ Taken(s) = 2 => Starts(s, 1) /\ 2 \in 1..Len(s) /\ s[2].n = s[1].n
           /\ 1 \in 1..Len(s) /\ Head(s) = s[1]
<1> DEFINE k == Taken(s)
           N == Len(s)
           r == Rest(s)
<1>1. N \in Nat /\ N >= 1 /\ 1 \in 1..N /\ Head(s) = s[1]
  BY EmptySeq
<1>2. \A i \in 1..N : s[i].n \in Nat /\ s[i].more \in BOOLEAN
  BY FrameType
<1>3. /\ \A i \in 1..N : s[i].more <=> i < N /\ s[i + 1].n = s[i].n
      /\ \A i, j \in 1..N : i <= j => s[i].n <= s[j].n
      /\ \A i \in 1..N : i + 3 <= N => s[i].n # s[i + 3].n
  BY DEF Framed
<1>4. k \in {1, 2} /\ (k = 2 <=> s[1].more)
  BY <1>1, <1>2 DEF Taken
<1>5. k = 2 => Starts(s, 1) /\ 2 \in 1..N /\ s[2].n = s[1].n
  BY <1>1, <1>3, <1>4 DEF Starts
<1>6. k \in 1..N /\ k \in Nat
  BY <1>1, <1>4, <1>5
<1>7. /\ r \in Seq(Frames) /\ Len(r) = N - k
      /\ \A j \in 1..(N - k) : r[j] = s[j + k]
  <2>1. r = SubSeq(s, k + 1, N)
    BY DEF Rest
  <2>2. /\ k + 1 \in 1..(N + 1) /\ N \in (k + 1 - 1)..N
    BY <1>1, <1>6
  <2> HIDE DEF r, k
  <2>3. /\ r \in Seq(Frames)
        /\ Len(r) = IF k + 1 <= N THEN N - (k + 1) + 1 ELSE 0
        /\ \A j \in 1..(N - (k + 1) + 1) : r[j] = s[k + 1 + j - 1]
    BY <1>1, <1>6, <2>1, <2>2, SubSeqProperties
  <2> QED
    BY <1>1, <1>6, <2>3
<1> HIDE DEF k, N, r
<1>8. \A j \in 1..Len(r) : j + k \in 1..N /\ r[j] = s[j + k]
  BY <1>1, <1>6, <1>7
<1>9. ASSUME NEW i \in 1..N, Starts(s, i), i # 1 PROVE i > k /\ s[1].n < s[i].n
  <2>1. s[i].more /\ s[i - 1].n # s[i].n /\ i - 1 \in 1..N
    BY <1>1, <1>9 DEF Starts
  <2>2. s[1].n <= s[i - 1].n /\ s[i - 1].n <= s[i].n
    BY <1>1, <1>3, <2>1
  <2>3. s[1].n < s[i].n
    BY <1>1, <1>2, <2>1, <2>2
  <2>4. i > k
    BY <1>1, <1>2, <1>4, <1>5, <1>9, <2>3
  <2> QED
    BY <2>3, <2>4
<1>10. ASSUME NEW j \in 1..Len(r) PROVE Starts(r, j) <=> Starts(s, j + k)
  <2>1. r[j] = s[j + k] /\ j + k \in 1..N /\ j + k # 1
    BY <1>4, <1>8
  <2>2. CASE j # 1
    <3>1. j - 1 \in 1..Len(r) /\ (j - 1) + k = (j + k) - 1
      BY <1>1, <1>6, <1>7, <2>2
    <3>2. r[j - 1] = s[(j + k) - 1]
      BY <1>8, <3>1
    <3>3. Starts(r, j) <=> r[j].more /\ r[j - 1].n # r[j].n
      BY <2>2 DEF Starts
    <3>4. Starts(s, j + k) <=> s[j + k].more /\ s[(j + k) - 1].n # s[j + k].n
      BY <2>1 DEF Starts
    <3> QED
      BY <2>1, <3>2, <3>3, <3>4
  <2>3. CASE j = 1
    <3>1. Starts(r, j) <=> s[1 + k].more
      BY <2>1, <2>3 DEF Starts
    <3>2. Starts(s, j + k) <=> s[1 + k].more /\ s[k].n # s[1 + k].n
      BY <1>4, <2>1, <2>3 DEF Starts
    <3>3. s[1 + k].more => s[k].n # s[1 + k].n
      <4>1. CASE k = 1
        BY <1>1, <1>2, <1>3, <1>4, <2>1, <2>3, <4>1
      <4>2. CASE k = 2
        <5>1. 3 \in 1..N /\ s[2].n = s[1].n
          BY <1>5, <2>1, <2>3, <4>2
        <5>2. ASSUME s[3].more, s[2].n = s[3].n PROVE FALSE
          <6>1. 3 < N /\ s[4].n = s[3].n
            BY <1>3, <5>1, <5>2
          <6>2. 1 + 3 <= N /\ s[1 + 3].n = s[1].n
            BY <1>1, <5>1, <5>2, <6>1
          <6> QED
            BY <1>1, <1>3, <6>2
        <5> QED
          BY <4>2, <5>2
      <4> QED
        BY <1>4, <4>1, <4>2
    <3> QED
      BY <3>1, <3>2, <3>3
  <2> QED
    BY <2>2, <2>3
<1>11. Framed(r)
  <2>1. ASSUME NEW i \in 1..Len(r) PROVE r[i].more <=> i < Len(r) /\ r[i + 1].n = r[i].n
    <3>1. i + k \in 1..N /\ r[i] = s[i + k] /\ (i < Len(r) <=> i + k < N)
      BY <1>1, <1>6, <1>7, <1>8
    <3>2. i < Len(r) => r[i + 1] = s[(i + k) + 1]
      <4>1. i < Len(r) => i + 1 \in 1..Len(r) /\ (i + 1) + k = (i + k) + 1
        BY <1>1, <1>6, <1>7
      <4> QED
        BY <1>8, <4>1
    <3> QED
      BY <1>3, <3>1, <3>2
  <2>2. ASSUME NEW i \in 1..Len(r), NEW j \in 1..Len(r), i <= j PROVE r[i].n <= r[j].n
    <3>1. i + k <= j + k
      BY <1>6, <2>2
    <3> QED
      BY <1>3, <1>8, <3>1
  <2>3. ASSUME NEW i \in 1..Len(r), i + 3 <= Len(r) PROVE r[i].n # r[i + 3].n
    <3>1. i + 3 \in 1..Len(r) /\ (i + 3) + k = (i + k) + 3 /\ (i + k) + 3 <= N
      BY <1>1, <1>6, <1>7, <2>3
    <3>2. r[i] = s[i + k] /\ r[i + 3] = s[(i + k) + 3] /\ i + k \in 1..N
      BY <1>8, <3>1
    <3> QED
      BY <1>3, <3>1, <3>2
  <2> QED
    BY <2>1, <2>2, <2>3 DEF Framed
<1>12. ASSUME NEW i \in 1..N, Starts(s, i)
       PROVE  \/ i = 1 /\ k = 2
              \/ \E j \in 1..Len(r) : Starts(r, j) /\ r[j].n = s[i].n
  <2>1. CASE i = 1
    BY <1>4, <1>12, <2>1 DEF Starts
  <2>2. CASE i # 1
    <3>1. i > k
      BY <1>9, <1>12, <2>2
    <3>2. i - k \in 1..Len(r) /\ (i - k) + k = i
      BY <1>1, <1>6, <1>7, <3>1
    <3>3. Starts(r, i - k) /\ r[i - k].n = s[i].n
      BY <1>8, <1>10, <1>12, <3>2
    <3> QED
      BY <3>2, <3>3
  <2> QED
    BY <2>1, <2>2
<1>13. ASSUME NEW j \in 1..Len(r), Starts(r, j) PROVE Starts(s, j + k) /\ s[1].n < s[j + k].n
  <2>1. j + k # 1 /\ j + k \in 1..N
    BY <1>4, <1>8
  <2> QED
    BY <1>9, <1>10, <1>13, <2>1
<1> QED
  BY <1>1, <1>4, <1>5, <1>7, <1>8, <1>11, <1>12, <1>13 DEF k, N, r

\* A new message goes to the back; a receive loop will find it there unless it is
\* a topic alone.
LEMMA FormFacts ==
    ASSUME NEW s \in Seq(Frames), Framed(s), NEW topic \in Texts, NEW n \in Nat,
           NEW form \in Forms(topic, n), \A i \in 1..Len(s) : s[i].n < n
    PROVE  /\ s \o form \in Seq(Frames) /\ Framed(s \o form)
           /\ \A i \in 1..Len(s \o form) :
                \/ i \in 1..Len(s) /\ (s \o form)[i] = s[i]
                     /\ (Starts(s \o form, i) <=> Starts(s, i))
                \/ (s \o form)[i].n = n
                     /\ (Starts(s \o form, i) => (s \o form)[i].data = topic /\ Len(form) > 1)
           /\ \A i \in 1..Len(s) : i \in 1..Len(s \o form) /\ (s \o form)[i] = s[i]
                                   /\ (Starts(s \o form, i) <=> Starts(s, i))
           /\ Len(form) > 1 => \E i \in 1..Len(s \o form) :
                                  Starts(s \o form, i) /\ (s \o form)[i].n = n
<1> DEFINE N == Len(s)
           m == Len(form)
           t == s \o form
<1>1. /\ form \in Seq(Frames) /\ m \in 1..3
      /\ \A j \in 1..m : form[j].n = n /\ (form[j].more <=> j < m)
      /\ form[1].data = topic
  <2> DEFINE a == Frame(topic, n, FALSE)
             b == Frame(topic, n, TRUE)
             c == Frame(<<"payload">>, n, FALSE)
             d == Frame(<<"payload">>, n, TRUE)
  <2>1. /\ a \in Frames /\ a.n = n /\ a.more = FALSE /\ a.data = topic
        /\ b \in Frames /\ b.n = n /\ b.more = TRUE /\ b.data = topic
    BY DEF Frame, Frames
  <2>2. /\ c \in Frames /\ c.n = n /\ c.more = FALSE
        /\ d \in Frames /\ d.n = n /\ d.more = TRUE
    <3>1. <<"payload">> \in Texts
      BY DEF Texts
    <3> QED
      BY <3>1 DEF Frame, Frames
  <2>3. form = <<a>> \/ form = <<b, c>> \/ form = <<b, d, a>>
    BY DEF Forms
  <2> HIDE DEF a, b, c, d
  <2>4. CASE form = <<a>>
    <3>1. form \in Seq(Frames) /\ m = 1 /\ form[1] = a
      BY <2>1, <2>4
    <3> QED
      BY <2>1, <3>1
  <2>5. CASE form = <<b, c>>
    <3>1. form \in Seq(Frames) /\ m = 2 /\ form[1] = b /\ form[2] = c
      BY <2>1, <2>2, <2>5
    <3> HIDE DEF m
    <3>2. \A j \in 1..m : j = 1 \/ j = 2
      BY <3>1
    <3> QED
      BY <2>1, <2>2, <3>1, <3>2
  <2>6. CASE form = <<b, d, a>>
    <3>1. form \in Seq(Frames) /\ m = 3 /\ form[1] = b /\ form[2] = d /\ form[3] = a
      BY <2>1, <2>2, <2>6
    <3> HIDE DEF m
    <3>2. \A j \in 1..m : j = 1 \/ j = 2 \/ j = 3
      BY <3>1
    <3> QED
      BY <2>1, <2>2, <3>1, <3>2
  <2> QED
    BY <2>3, <2>4, <2>5, <2>6
<1>2. N \in Nat /\ \A i \in 1..N : s[i].n \in Nat /\ s[i].more \in BOOLEAN
  BY FrameType
<1>3. /\ t \in Seq(Frames) /\ Len(t) = N + m
      /\ \A i \in 1..N : t[i] = s[i]
      /\ \A j \in 1..m : t[N + j] = form[j]
  <2>1. /\ t \in Seq(Frames) /\ Len(t) = N + m
        /\ \A i \in 1..(N + m) : t[i] = IF i <= N THEN s[i] ELSE form[i - N]
    BY <1>1, ConcatProperties
  <2>2. ASSUME NEW j \in 1..m PROVE t[N + j] = form[j]
    <3>1. N + j \in 1..(N + m) /\ ~(N + j <= N) /\ (N + j) - N = j
      BY <1>1, <1>2
    <3> QED
      BY <2>1, <3>1
  <2> HIDE DEF t, N, m
  <2>3. \A i \in 1..N : i \in 1..(N + m) /\ i <= N
    BY <1>1, <1>2
  <2> QED
    BY <2>1, <2>2, <2>3
<1>4. /\ \A i \in 1..N : s[i].more <=> i < N /\ s[i + 1].n = s[i].n
      /\ \A i, j \in 1..N : i <= j => s[i].n <= s[j].n
      /\ \A i \in 1..N : i + 3 <= N => s[i].n # s[i + 3].n
      /\ \A i \in 1..N : s[i].n < n
  BY DEF Framed
<1> HIDE DEF N, m, t
<1>5. ASSUME NEW i \in 1..Len(t)
      PROVE  \/ i \in 1..N /\ t[i] = s[i] /\ t[i].n < n /\ t[i].n \in Nat
             \/ i - N \in 1..m /\ i = N + (i - N) /\ t[i] = form[i - N] /\ t[i].n = n
                  /\ (t[i].more <=> i - N < m)
  <2>1. CASE i <= N
    BY <1>2, <1>3, <1>4, <2>1
  <2>2. CASE ~(i <= N)
    <3>1. i - N \in 1..m /\ i = N + (i - N)
      BY <1>1, <1>2, <1>3, <2>2
    <3>2. t[i] = form[i - N]
      BY <1>3, <3>1
    <3> QED
      BY <1>1, <3>1, <3>2
  <2> QED
    BY <2>1, <2>2
<1>6. ASSUME NEW i \in 1..N PROVE Starts(t, i) <=> Starts(s, i)
  <2>1. t[i] = s[i]
    BY <1>3
  <2>2. CASE i = 1
    BY <2>1, <2>2 DEF Starts
  <2>3. CASE i # 1
    <3>1. i - 1 \in 1..N
      BY <1>2, <2>3
    <3>2. t[i - 1] = s[i - 1]
      BY <1>3, <3>1
    <3>3. Starts(t, i) <=> t[i].more /\ t[i - 1].n # t[i].n
      BY <2>3 DEF Starts
    <3>4. Starts(s, i) <=> s[i].more /\ s[i - 1].n # s[i].n
      BY <2>3 DEF Starts
    <3> QED
      BY <2>1, <3>2, <3>3, <3>4
  <2> QED
    BY <2>2, <2>3
<1>7. ASSUME NEW i \in 1..Len(t), i > N, Starts(t, i) PROVE i = N + 1 /\ m > 1
  <2>1. i - N \in 1..m /\ t[i].n = n /\ i - N < m
    BY <1>2, <1>5, <1>7 DEF Starts
  <2>2. SUFFICES ASSUME i # N + 1 PROVE FALSE
    BY <1>1, <1>2, <2>1
  <2>3. i - 1 - N \in 1..m /\ N + (i - 1 - N) = i - 1 /\ i # 1
    BY <1>1, <1>2, <2>1, <2>2
  <2>4. t[i - 1].n = n
    BY <1>1, <1>3, <2>3
  <2> QED
    BY <1>7, <2>1, <2>3, <2>4 DEF Starts
<1>8. t[N + 1].n = n /\ t[N + 1].data = topic /\ N + 1 \in 1..Len(t)
  BY <1>1, <1>2, <1>3
<1>9. ASSUME m > 1 PROVE Starts(t, N + 1)
  <2>1. t[N + 1].more
    <3>1. 1 \in 1..m /\ 1 < m
      BY <1>1, <1>9
    <3>2. t[N + 1] = form[1] /\ form[1].more
      BY <1>1, <1>3, <3>1
    <3> QED
      BY <3>2
  <2>2. CASE N = 0
    BY <2>1, <2>2 DEF Starts
  <2>3. CASE N # 0
    <3>1. N \in 1..N /\ (N + 1) - 1 = N
      BY <1>2, <2>3
    <3>2. t[N].n < n /\ t[N].n \in Nat
      BY <1>2, <1>3, <1>4, <3>1
    <3> QED
      BY <1>8, <2>1, <3>1, <3>2 DEF Starts
  <2> QED
    BY <2>2, <2>3
<1>10. Framed(t)
  <2>1. ASSUME NEW i \in 1..Len(t) PROVE t[i].more <=> i < Len(t) /\ t[i + 1].n = t[i].n
    <3>1. CASE i < N
      <4>1. i \in 1..N /\ i + 1 \in 1..N /\ i < Len(t)
        BY <1>1, <1>2, <1>3, <3>1
      <4>2. t[i] = s[i] /\ t[i + 1] = s[i + 1]
        BY <1>3, <4>1
      <4> QED
        BY <1>4, <3>1, <4>1, <4>2
    <3>2. CASE i = N
      <4>1. i \in 1..N /\ t[i] = s[i]
        BY <1>2, <1>3, <3>2
      <4>2. ~s[i].more /\ s[i].n \in Nat /\ s[i].n < n
        BY <1>2, <1>4, <3>2, <4>1
      <4> QED
        BY <1>8, <3>2, <4>1, <4>2
    <3>3. CASE i > N
      <4>1. t[i].n = n /\ i - N \in 1..m /\ (t[i].more <=> i - N < m)
        BY <1>2, <1>5, <3>3
      <4>2. i - N < m <=> i < Len(t)
        BY <1>1, <1>2, <1>3
      <4>3. i < Len(t) => t[i + 1].n = n
        <5> SUFFICES ASSUME i < Len(t) PROVE t[i + 1].n = n
          OBVIOUS
        <5>1. i + 1 \in 1..Len(t) /\ ~(i + 1 \in 1..N)
          BY <1>1, <1>2, <1>3, <3>3
        <5> QED
          BY <1>5, <5>1
      <4> QED
        BY <4>1, <4>2, <4>3
    <3> QED
      BY <1>2, <1>3, <3>1, <3>2, <3>3
  <2>2. ASSUME NEW i \in 1..Len(t), NEW j \in 1..Len(t), i <= j PROVE t[i].n <= t[j].n
    <3>1. CASE j \in 1..N
      <4>1. i \in 1..N
        BY <1>2, <2>2, <3>1
      <4> QED
        BY <1>3, <1>4, <2>2, <3>1, <4>1
    <3>2. CASE j \notin 1..N
      <4>1. t[j].n = n
        BY <1>5, <3>2
      <4>2. t[i].n \in Nat /\ t[i].n <= n
        BY <1>5
      <4> QED
        BY <4>1, <4>2
    <3> QED
      BY <3>1, <3>2
  <2>3. ASSUME NEW i \in 1..Len(t), i + 3 <= Len(t) PROVE t[i].n # t[i + 3].n
    <3>1. i + 3 \in 1..Len(t) /\ i \in 1..N
      BY <1>1, <1>2, <1>3, <2>3
    <3>2. CASE i + 3 \in 1..N
      <4>1. t[i] = s[i] /\ t[i + 3] = s[i + 3] /\ i + 3 <= N
        BY <1>3, <3>1, <3>2
      <4> QED
        BY <1>4, <3>1, <4>1
    <3>3. CASE i + 3 \notin 1..N
      <4>1. t[i + 3].n = n
        BY <1>5, <3>1, <3>3
      <4>2. t[i].n \in Nat /\ t[i].n < n
        BY <1>2, <1>3, <1>4, <3>1
      <4> QED
        BY <4>1, <4>2
    <3> QED
      BY <3>2, <3>3
  <2> QED
    BY <2>1, <2>2, <2>3 DEF Framed
<1>11. ASSUME NEW i \in 1..Len(t)
       PROVE  \/ i \in 1..N /\ t[i] = s[i] /\ (Starts(t, i) <=> Starts(s, i))
              \/ t[i].n = n /\ (Starts(t, i) => t[i].data = topic /\ m > 1)
  <2>1. CASE i \in 1..N
    BY <1>3, <1>6, <2>1
  <2>2. CASE i \notin 1..N
    <3>1. i > N /\ t[i].n = n
      BY <1>2, <1>5, <2>2
    <3> QED
      BY <1>7, <1>8, <3>1
  <2> QED
    BY <2>1, <2>2
<1>12. ASSUME NEW i \in 1..N
       PROVE  i \in 1..Len(t) /\ t[i] = s[i] /\ (Starts(t, i) <=> Starts(s, i))
  BY <1>1, <1>2, <1>3, <1>6
<1> QED
  BY <1>3, <1>8, <1>9, <1>10, <1>11, <1>12 DEF N, m, t

-----------------------------------------------------------------------------
(* Topics and messages.                                                    *)

\* is_avatar_topic and is_object_topic tell the rooms and the lanes apart.
LEMMA TopicFacts ==
    ASSUME NEW lane \in Lanes, NEW r \in Rooms, NEW q \in Rooms
    PROVE  /\ Topic(lane, r) \in Texts
           /\ Topic(lane, r) = q <=> lane # "objects" /\ r = q
           /\ Topic(lane, r) = q \o ObjSuffix <=> lane = "objects" /\ r = q
<1>1. r \in Seq(STRING) /\ q \in Seq(STRING) /\ ObjSuffix \in Seq(STRING)
      /\ r # q \o ObjSuffix /\ q # r \o ObjSuffix
  BY RoomsAssumption
<1>2. r \o ObjSuffix = q \o ObjSuffix <=> r = q
  BY <1>1, ConcatSimplifications
<1>3. Topic(lane, r) \in Texts
  BY DEF Texts
<1> QED
  BY <1>1, <1>2, <1>3 DEF Topic

\* A message keeps what it was sent as.
LEMMA SentGrows ==
    ASSUME Typed, NEW m \in Messages, sent' = Append(sent, m)
    PROVE  /\ sent' \in Seq(Messages) /\ Len(sent') = Len(sent) + 1 /\ Len(sent) \in Nat
           /\ \A n \in 1..Len(sent) : n \in 1..Len(sent') /\ sent'[n] = sent[n]
           /\ sent'[Len(sent) + 1] = m
<1>1. sent \in Seq(Messages)
  BY DEF Typed
<1>2. Len(sent) \in Nat
  BY <1>1
<1>3. /\ sent' \in Seq(Messages) /\ Len(sent') = Len(sent) + 1
      /\ \A n \in 1..Len(sent) : sent'[n] = sent[n]
      /\ sent'[Len(sent) + 1] = m
  BY <1>1, AppendProperties
<1> QED
  BY <1>2, <1>3

\* A message's fields.
LEMMA MessageType ==
    ASSUME Typed, NEW n \in 1..Len(sent)
    PROVE  sent[n].lane \in Lanes /\ sent[n].room \in Rooms /\ sent[n].session \in Nat
<1>1. sent \in Seq(Messages)
  BY DEF Typed
<1>2. sent[n] \in Messages
  BY <1>1, ElementOfSeq
<1> QED
  BY <1>2 DEF Messages

\* What one iteration of receive_sub does to what is held of a lane.
LEMMA ReadFacts ==
    ASSUME InboundInv, ReceiveSub, NEW lane \in SubLanes
    PROVE  \/ /\ Taken(subSocket) = 2 /\ Genuine(lane, subSocket[1].n)
              /\ Held(lane)' = subSocket[1].n
           \/ /\ ~(Taken(subSocket) = 2 /\ Genuine(lane, subSocket[1].n))
              /\ Held(lane)' = Held(lane)
<1>1. /\ subSocket # <<>> /\ subSocket \in Seq(Frames) /\ Framed(subSocket)
      /\ Stamped(subSocket, SubLanes, sent, session) /\ Typed /\ room \in Rooms
  BY DEF ReceiveSub, InboundInv, SocketInv, Typed
<1>2. /\ Taken(subSocket) = 2 => /\ Starts(subSocket, 1)
                                 /\ subSocket[2].n = subSocket[1].n
      /\ 1 \in 1..Len(subSocket) /\ Head(subSocket) = subSocket[1]
  BY <1>1, RestFacts
<1> DEFINE n == subSocket[1].n
<1>3. /\ n \in 1..Len(sent) /\ sent[n].lane \in SubLanes /\ sent[n].session = session
      /\ Starts(subSocket, 1) => subSocket[1].data = Topic(sent[n].lane, sent[n].room)
  BY <1>1, <1>2 DEF Stamped
<1>4. sent[n].lane \in Lanes /\ sent[n].room \in Rooms
  BY <1>1, <1>3, MessageType
<1> DEFINE topic == Head(subSocket).data
           paid == Taken(subSocket) = 2
           avatar == is_avatar_topic(topic, room)
           object == ~avatar /\ is_object_topic(topic, room)
<1>5. /\ lastAvatar' = IF paid /\ avatar THEN subSocket[2].n ELSE lastAvatar
      /\ lastObject' = IF paid /\ object THEN subSocket[2].n ELSE lastObject
  BY DEF ReceiveSub
<1>6. ASSUME paid
      PROVE  /\ avatar <=> sent[n].lane = "pose" /\ sent[n].room = room
             /\ object <=> sent[n].lane = "objects" /\ sent[n].room = room
  <2>1. topic = Topic(sent[n].lane, sent[n].room)
    BY <1>2, <1>3, <1>6
  <2>2. /\ topic = room <=> sent[n].lane # "objects" /\ sent[n].room = room
        /\ topic = room \o ObjSuffix <=> sent[n].lane = "objects" /\ sent[n].room = room
    <3>1. PICK l \in Lanes, r \in Rooms : l = sent[n].lane /\ r = sent[n].room
      BY <1>4
    <3> HIDE DEF n, topic
    <3>2. topic = Topic(l, r)
      BY <2>1, <3>1
    <3>3. PICK q \in Rooms : q = room
      BY <1>1
    <3>4. /\ Topic(l, r) = q <=> l # "objects" /\ r = q
          /\ Topic(l, r) = q \o ObjSuffix <=> l = "objects" /\ r = q
      BY TopicFacts, Zenon
    <3> QED
      BY <3>1, <3>2, <3>3, <3>4, Zenon
  <2> QED
    BY <1>3, <2>2 DEF SubLanes, is_avatar_topic, is_object_topic
<1> HIDE DEF n, topic, avatar, object
<1>7. Genuine(lane, n) <=> sent[n].lane = lane /\ sent[n].room = room
  BY <1>3, Zenon DEF Genuine, SentTo
<1>8. CASE lane = "pose"
  BY <1>2, <1>5, <1>6, <1>7, <1>8 DEF Held, n
<1>9. CASE lane = "objects"
  BY <1>2, <1>5, <1>6, <1>7, <1>9 DEF Held, n
<1> QED
  BY <1>8, <1>9 DEF SubLanes

-----------------------------------------------------------------------------
(* poll().                                                                 *)

Record(lane, n) == [lane |-> lane, n |-> n, session |-> session]
Before(n) == IF n = None THEN 0 ELSE 1

\* A pose or an objects snapshot that poll() finds is handed on as one record.
LEMMA SeenPart ==
    ASSUME NEW lane \in Lanes, NEW n \in Numbers, session \in Nat
    PROVE  /\ Seen(lane, n) \in Seq(Records) /\ Len(Seen(lane, n)) = Before(n)
           /\ n # None => Seen(lane, n)[1] = Record(lane, n)
<1>1. CASE n = None
  BY <1>1 DEF Seen, Before
<1>2. CASE n # None
  <2>1. Record(lane, n) \in Records
    BY <1>2 DEF Record, Records, Numbers
  <2>2. Seen(lane, n) = <<Record(lane, n)>>
    BY <1>2 DEF Seen, Record
  <2> HIDE DEF Record
  <2> QED
    BY <1>2, <2>1, <2>2 DEF Before
<1> QED
  BY <1>1, <1>2

\* poll() hands on the pose, then the control messages in their order, then the
\* objects.
LEMMA PollSeen ==
    ASSUME Typed, Poll
    PROVE  /\ seen' \in Seq(Records)
           /\ Len(seen') = Len(seen) + Before(roomPose) + Len(inbox) + Before(roomObjects)
           /\ \A i \in 1..Len(seen) : seen'[i] = seen[i]
           /\ roomPose # None => seen'[Len(seen) + 1] = Record("pose", roomPose)
           /\ \A i \in 1..Len(inbox) :
                seen'[Len(seen) + Before(roomPose) + i] = Record("control", inbox[i])
           /\ roomObjects # None =>
                seen'[Len(seen) + Before(roomPose) + Len(inbox) + 1]
                    = Record("objects", roomObjects)
           /\ Len(seen) \in Nat /\ Len(inbox) \in Nat
           /\ Before(roomPose) \in {0, 1} /\ Before(roomObjects) \in {0, 1}
<1> DEFINE a == Seen("pose", roomPose)
           b == [i \in DOMAIN inbox |-> [lane |-> "control", n |-> inbox[i],
                                         session |-> session]]
           c == Seen("objects", roomObjects)
<1>1. /\ seen \in Seq(Records) /\ Len(seen) \in Nat /\ Len(inbox) \in Nat
      /\ DOMAIN inbox = 1..Len(inbox) /\ session \in Nat
      /\ \A i \in 1..Len(inbox) : inbox[i] \in Nat
      /\ roomPose \in Numbers /\ roomObjects \in Numbers
  BY DEF Typed
<1>2. /\ a \in Seq(Records) /\ Len(a) = Before(roomPose)
      /\ roomPose # None => a[1] = Record("pose", roomPose)
  BY <1>1, SeenPart DEF Lanes, SubLanes
<1>3. /\ c \in Seq(Records) /\ Len(c) = Before(roomObjects)
      /\ roomObjects # None => c[1] = Record("objects", roomObjects)
  BY <1>1, SeenPart DEF Lanes, SubLanes
<1>4. /\ b \in Seq(Records) /\ Len(b) = Len(inbox)
      /\ \A i \in 1..Len(inbox) : b[i] = Record("control", inbox[i])
  <2>1. \A i \in 1..Len(inbox) : Record("control", inbox[i]) \in Records
    BY <1>1 DEF Record, Records, Lanes
  <2>2. b = [i \in 1..Len(inbox) |-> Record("control", inbox[i])]
    BY <1>1 DEF Record
  <2> HIDE DEF b, Record
  <2>3. b \in [1..Len(inbox) -> Records]
    BY <2>1, <2>2
  <2> QED
    BY <1>1, <2>2, <2>3
<1>5. seen' = ((seen \o a) \o b) \o c
  BY DEF Poll
<1>6. /\ Before(roomPose) \in {0, 1} /\ Before(roomObjects) \in {0, 1}
      /\ roomPose # None => Before(roomPose) = 1
      /\ roomObjects # None => Before(roomObjects) = 1
  BY DEF Before
<1> HIDE DEF a, b, c
<1> DEFINE x == seen \o a
           y == x \o b
           N == Len(seen)
           p == Before(roomPose)
           k == Len(inbox)
           q == Before(roomObjects)
<1>7. /\ x \in Seq(Records) /\ Len(x) = N + p
      /\ \A i \in 1..(N + p) : x[i] = IF i <= N THEN seen[i] ELSE a[i - N]
  BY <1>1, <1>2, ConcatProperties
<1> HIDE DEF x
<1>8. /\ y \in Seq(Records) /\ Len(y) = (N + p) + k
      /\ \A i \in 1..((N + p) + k) : y[i] = IF i <= N + p THEN x[i] ELSE b[i - (N + p)]
  BY <1>4, <1>7, ConcatProperties
<1> HIDE DEF y
<1>9. /\ seen' \in Seq(Records) /\ Len(seen') = ((N + p) + k) + q
      /\ \A i \in 1..(((N + p) + k) + q) :
            seen'[i] = IF i <= (N + p) + k THEN y[i] ELSE c[i - ((N + p) + k)]
  <2>1. seen' = y \o c
    BY <1>5 DEF x, y
  <2>2. /\ y \o c \in Seq(Records) /\ Len(y \o c) = Len(y) + Len(c)
        /\ \A i \in 1..(Len(y) + Len(c)) :
              (y \o c)[i] = IF i <= Len(y) THEN y[i] ELSE c[i - Len(y)]
    BY <1>3, <1>8, ConcatProperties
  <2> HIDE DEF N, p, k, q
  <2>3. Len(y) = (N + p) + k /\ Len(c) = q
    BY <1>3, <1>8 DEF q
  <2> QED
    BY <2>1, <2>2, <2>3
<1> HIDE DEF N, p, k, q
<1>a. N \in Nat /\ k \in Nat /\ p \in {0, 1} /\ q \in {0, 1}
  BY <1>1, <1>6 DEF N, k, p, q
<1>10. ASSUME NEW i \in 1..N PROVE seen'[i] = seen[i]
  <2>1. /\ i \in 1..(N + p) /\ i \in 1..((N + p) + k) /\ i \in 1..(((N + p) + k) + q)
        /\ i <= N /\ i <= N + p /\ i <= (N + p) + k
    BY <1>a
  <2> QED
    BY <1>7, <1>8, <1>9, <2>1
<1>11. ASSUME roomPose # None PROVE seen'[N + 1] = Record("pose", roomPose)
  <2>0. p = 1
    BY <1>6, <1>11 DEF p
  <2>1. /\ N + 1 \in 1..(N + p) /\ N + 1 \in 1..((N + p) + k) /\ N + 1 \in 1..(((N + p) + k) + q)
        /\ ~(N + 1 <= N) /\ N + 1 <= N + p /\ N + 1 <= (N + p) + k /\ (N + 1) - N = 1
    BY <1>a, <2>0
  <2> QED
    BY <1>2, <1>7, <1>8, <1>9, <1>11, <2>1
<1>12. ASSUME NEW i \in 1..k PROVE seen'[(N + p) + i] = Record("control", inbox[i])
  <2>1. /\ (N + p) + i \in 1..((N + p) + k) /\ (N + p) + i \in 1..(((N + p) + k) + q)
        /\ ~((N + p) + i <= N + p) /\ (N + p) + i <= (N + p) + k
        /\ ((N + p) + i) - (N + p) = i
    BY <1>a
  <2>2. seen'[(N + p) + i] = b[i]
    BY <1>8, <1>9, <2>1
  <2> QED
    BY <1>4, <2>2 DEF k
<1>13. ASSUME roomObjects # None PROVE seen'[((N + p) + k) + 1] = Record("objects", roomObjects)
  <2>0. q = 1
    BY <1>6, <1>13 DEF q
  <2>1. /\ ((N + p) + k) + 1 \in 1..(((N + p) + k) + q)
        /\ ~(((N + p) + k) + 1 <= (N + p) + k)
        /\ (((N + p) + k) + 1) - ((N + p) + k) = 1
    BY <1>a, <2>0
  <2> QED
    BY <1>3, <1>9, <1>13, <2>1
<1> QED
  BY <1>a, <1>9, <1>10, <1>11, <1>12, <1>13 DEF N, p, k, q

-----------------------------------------------------------------------------
(* The sockets.                                                            *)

\* What is on a socket stays stamped while other messages are sent.
LEMMA StampedStays ==
    ASSUME Typed, NEW m \in Messages, sent' = Append(sent, m), session' = session,
           NEW s \in Seq(Frames), NEW lanes, Stamped(s, lanes, sent, session)
    PROVE  Stamped(s, lanes, sent', session')
<1>1. \A n \in 1..Len(sent) : n \in 1..Len(sent') /\ sent'[n] = sent[n]
  BY SentGrows
<1> QED
  BY <1>1 DEF Stamped

\* A socket takes the frames of the message just sent.
LEMMA SocketTakes ==
    ASSUME Typed, NEW lane \in Lanes, NEW r \in Rooms,
           NEW form \in Forms(Topic(lane, r), Len(sent) + 1),
           sent' = Append(sent, [lane |-> lane, room |-> r, session |-> session]),
           session' = session,
           NEW s \in Seq(Frames), Framed(s), NEW lanes, lane \in lanes,
           Stamped(s, lanes, sent, session)
    PROVE  /\ s \o form \in Seq(Frames) /\ Framed(s \o form)
           /\ Stamped(s \o form, lanes, sent', session')
<1> DEFINE m == [lane |-> lane, room |-> r, session |-> session]
           n == Len(sent) + 1
           t == s \o form
<1>1. m \in Messages /\ m.lane = lane /\ m.room = r /\ m.session = session
  BY DEF Typed, Messages
<1> HIDE DEF m
<1>2. /\ Len(sent') = n /\ Len(sent) \in Nat
      /\ \A k \in 1..Len(sent) : k \in 1..Len(sent') /\ sent'[k] = sent[k]
      /\ sent'[n] = m
  BY <1>1, SentGrows DEF m
<1>3. n \in Nat /\ \A i \in 1..Len(s) : s[i].n < n
  BY <1>2 DEF Stamped
<1>4. Topic(lane, r) \in Texts
  BY TopicFacts
<1>5. /\ t \in Seq(Frames) /\ Framed(t)
      /\ \A i \in 1..Len(t) :
           \/ i \in 1..Len(s) /\ t[i] = s[i] /\ (Starts(t, i) <=> Starts(s, i))
           \/ t[i].n = n /\ (Starts(t, i) => t[i].data = Topic(lane, r) /\ Len(form) > 1)
  BY <1>3, <1>4, FormFacts, SMTT(40)
<1>6. n \in 1..Len(sent')
  BY <1>2, <1>3
<1> HIDE DEF n, t
<1>7. ASSUME NEW i \in 1..Len(t)
      PROVE  /\ t[i].n \in 1..Len(sent')
             /\ sent'[t[i].n].lane \in lanes
             /\ sent'[t[i].n].session = session'
             /\ Starts(t, i) => t[i].data = Topic(sent'[t[i].n].lane, sent'[t[i].n].room)
  <2>1. CASE i \in 1..Len(s) /\ t[i] = s[i] /\ (Starts(t, i) <=> Starts(s, i))
    BY <1>2, <2>1 DEF Stamped
  <2>2. CASE t[i].n = n /\ (Starts(t, i) => t[i].data = Topic(lane, r) /\ Len(form) > 1)
    BY <1>1, <1>2, <1>6, <2>2
  <2> QED
    BY <1>5, <2>1, <2>2
<1> QED
  BY <1>5, <1>7 DEF Stamped, t

\* A receive loop takes frames from a socket.
LEMMA SocketGives ==
    ASSUME NEW s \in Seq(Frames), s # <<>>, Framed(s), NEW lanes, NEW msgs, NEW ses,
           Stamped(s, lanes, msgs, ses)
    PROVE  Rest(s) \in Seq(Frames) /\ Framed(Rest(s)) /\ Stamped(Rest(s), lanes, msgs, ses)
<1>1. /\ Rest(s) \in Seq(Frames) /\ Framed(Rest(s))
      /\ \A j \in 1..Len(Rest(s)) :
           /\ j + Taken(s) \in 1..Len(s) /\ Rest(s)[j] = s[j + Taken(s)]
           /\ Starts(Rest(s), j) => Starts(s, j + Taken(s))
  BY RestFacts
<1>2. Stamped(Rest(s), lanes, msgs, ses)
  BY <1>1 DEF Stamped
<1> QED
  BY <1>1, <1>2

\* A publication reaches the socket whole or not at all.
LEMMA PublishFacts ==
    ASSUME NEW lane, NEW r, Publish(lane, r)
    PROVE  /\ sent' = Append(sent, [lane |-> lane, room |-> r, session |-> session])
           /\ \E form \in Forms(Topic(lane, r), Len(sent) + 1) :
                \/ subSocket' = subSocket /\ newest' = newest
                \/ /\ subSocket' = subSocket \o form
                   /\ newest' = IF r = room /\ Len(form) > 1
                                THEN [newest EXCEPT ![lane] = Len(sent) + 1] ELSE newest
           /\ UNCHANGED <<room, session, stopping, netPc, lastAvatar, lastObject, ctlSocket,
                          roomPose, roomObjects, inbox, dropped, arrived, seen>>
  BY DEF Publish, News, netVars, clientVars

\* The sockets of one session's messages, in whole frames.
LEMMA SocketStep ==
    ASSUME InboundInv, [Next]_vars
    PROVE  /\ subSocket' \in Seq(Frames) /\ ctlSocket' \in Seq(Frames)
           /\ SocketInv'
<1> USE DEF netVars, socketVars, clientVars
<1>a. /\ Typed /\ session \in Nat
      /\ subSocket \in Seq(Frames) /\ Framed(subSocket)
      /\ ctlSocket \in Seq(Frames) /\ Framed(ctlSocket)
      /\ Stamped(subSocket, SubLanes, sent, session)
      /\ Stamped(ctlSocket, {"control"}, sent, session)
  BY DEF InboundInv, Typed, SocketInv
<1> DEFINE Goal == /\ subSocket' \in Seq(Frames) /\ ctlSocket' \in Seq(Frames)
                   /\ SocketInv'
<1>b. ASSUME subSocket' \in Seq(Frames), ctlSocket' \in Seq(Frames),
             Framed(subSocket'), Framed(ctlSocket'),
             Stamped(subSocket', SubLanes, sent', session'),
             Stamped(ctlSocket', {"control"}, sent', session')
      PROVE  Goal
  BY <1>b DEF SocketInv, Framed, Stamped, Starts
<1> SUFFICES Goal
  OBVIOUS
<1> HIDE DEF Goal
<1>1. ASSUME NEW lane \in SubLanes, NEW r \in Rooms, Publish(lane, r) PROVE Goal
  <2> DEFINE m == [lane |-> lane, room |-> r, session |-> session]
  <2>1. lane \in Lanes /\ m \in Messages
    BY <1>a DEF Lanes, Messages
  <2>2. sent' = Append(sent, m) /\ session' = session /\ ctlSocket' = ctlSocket
    BY <1>1, PublishFacts
  <2>3. PICK form \in Forms(Topic(lane, r), Len(sent) + 1) :
          subSocket' = subSocket \/ subSocket' = subSocket \o form
    BY <1>1, PublishFacts
  <2>4. /\ Stamped(ctlSocket, {"control"}, sent', session')
        /\ Stamped(subSocket, SubLanes, sent', session')
    BY <1>a, <2>1, <2>2, StampedStays
  <2>5. /\ subSocket \o form \in Seq(Frames) /\ Framed(subSocket \o form)
        /\ Stamped(subSocket \o form, SubLanes, sent', session')
    BY <1>a, <2>1, <2>2, SocketTakes
  <2> HIDE DEF m
  <2> QED
    BY <1>a, <1>b, <2>2, <2>3, <2>4, <2>5
<1>2. ASSUME NEW r \in Rooms, SendControl(r) PROVE Goal
  <2> DEFINE m == [lane |-> "control", room |-> r, session |-> session]
  <2>1. "control" \in Lanes /\ m \in Messages
    BY <1>a DEF Lanes, Messages
  <2>2. sent' = Append(sent, m) /\ session' = session /\ subSocket' = subSocket
    BY <1>2 DEF SendControl
  <2>3. PICK form \in Forms(Topic("control", r), Len(sent) + 1) : ctlSocket' = ctlSocket \o form
    BY <1>2 DEF SendControl, Topic
  <2>4. Stamped(subSocket, SubLanes, sent', session')
    BY <1>a, <2>1, <2>2, StampedStays
  <2>5. /\ ctlSocket \o form \in Seq(Frames) /\ Framed(ctlSocket \o form)
        /\ Stamped(ctlSocket \o form, {"control"}, sent', session')
    BY <1>a, <2>1, <2>2, SocketTakes
  <2> HIDE DEF m
  <2> QED
    BY <1>a, <1>b, <2>2, <2>3, <2>4, <2>5
<1>3. CASE ReceiveSub
  <2>1. subSocket # <<>> /\ subSocket' = Rest(subSocket) /\ UNCHANGED <<ctlSocket, sent, session>>
    BY <1>3 DEF ReceiveSub
  <2>2. /\ Rest(subSocket) \in Seq(Frames) /\ Framed(Rest(subSocket))
        /\ Stamped(Rest(subSocket), SubLanes, sent, session)
    BY <1>a, <2>1, SocketGives
  <2> QED
    BY <1>a, <1>b, <2>1, <2>2
<1>4. CASE ReceiveControl
  <2>1. ctlSocket # <<>> /\ ctlSocket' = Rest(ctlSocket) /\ UNCHANGED <<subSocket, sent, session>>
    BY <1>4 DEF ReceiveControl
  <2>2. /\ Rest(ctlSocket) \in Seq(Frames) /\ Framed(Rest(ctlSocket))
        /\ Stamped(Rest(ctlSocket), {"control"}, sent, session)
    BY <1>a, <2>1, SocketGives
  <2> QED
    BY <1>a, <1>b, <2>1, <2>2
<1>5. ASSUME NEW r \in Rooms, Rejoin(r) PROVE Goal
  <2>1. subSocket' = <<>> /\ ctlSocket' = <<>>
    BY <1>5 DEF Rejoin
  <2>2. <<>> \in Seq(Frames) /\ 1..Len(<<>>) = {}
    OBVIOUS
  <2>3. Framed(<<>>) /\ \A lanes : Stamped(<<>>, lanes, sent', session')
    BY <2>2 DEF Framed, Stamped
  <2> QED
    BY <1>b, <2>1, <2>2, <2>3
<1>6. CASE UNCHANGED <<subSocket, ctlSocket, sent, session>>
  BY <1>6, <1>a, <1>b
<1>7. CASE LoopHead \/ SubDrained \/ DeliverAvatar \/ DeliverObject \/ ControlDrained
           \/ Poll \/ Stop \/ UNCHANGED vars
  <2>1. UNCHANGED <<subSocket, ctlSocket, sent, session>>
    BY <1>7 DEF LoopHead, SubDrained, DeliverAvatar, DeliverObject, ControlDrained,
                Poll, Stop, vars
  <2> QED
    BY <1>6, <2>1
<1>8. "pose" \in SubLanes /\ "objects" \in SubLanes
  BY DEF SubLanes
<1> QED
  BY <1>1, <1>2, <1>3, <1>4, <1>5, <1>7, <1>8 DEF Next, NetNext

-----------------------------------------------------------------------------
(* Types.                                                                  *)

\* Every action keeps the types.
LEMMA TypedStep ==
    ASSUME InboundInv, [Next]_vars
    PROVE  Typed'
<1> USE DEF netVars, socketVars, clientVars
<1>a. /\ room \in Rooms
      /\ session \in Nat
      /\ stopping \in BOOLEAN
      /\ netPc \in {"head", "sub", "avatar", "object", "control", "done"}
      /\ lastAvatar \in Numbers /\ lastObject \in Numbers
      /\ roomPose \in Numbers /\ roomObjects \in Numbers
      /\ inbox \in Seq(Nat) /\ Len(inbox) <= InboxMax
      /\ dropped \in Nat
      /\ sent \in Seq(Messages)
      /\ newest \in [pose : Numbers, objects : Numbers]
      /\ arrived \in Seq(Nat)
      /\ seen \in Seq(Records)
      /\ Typed
  BY DEF InboundInv, Typed
<1>b. subSocket' \in Seq(Frames) /\ ctlSocket' \in Seq(Frames)
  BY SocketStep
<1>c. InboxMax \in Nat /\ InboxMax >= 1 /\ None \in Numbers /\ Nat \subseteq Numbers
  BY LimitsAssumption DEF Numbers
<1>1. ASSUME NEW lane \in SubLanes, NEW r \in Rooms, Publish(lane, r) PROVE Typed'
  <2>1. /\ sent' = Append(sent, [lane |-> lane, room |-> r, session |-> session])
        /\ \/ newest' = newest
           \/ newest' = [newest EXCEPT ![lane] = Len(sent) + 1]
        /\ UNCHANGED <<room, session, stopping, netPc, lastAvatar, lastObject,
                       roomPose, roomObjects, inbox, dropped, arrived, seen>>
    <3>1. /\ \E form \in Forms(Topic(lane, r), Len(sent) + 1) :
                newest' = newest \/ newest' = [newest EXCEPT ![lane] = Len(sent) + 1]
      BY <1>1, PublishFacts
    <3> QED
      BY <1>1, <3>1, PublishFacts
  <2>2. sent' \in Seq(Messages) /\ Len(sent) + 1 \in Numbers
    <3>1. [lane |-> lane, room |-> r, session |-> session] \in Messages
      BY <1>a DEF Messages, Lanes
    <3>2. Len(sent) + 1 \in Nat
      BY <1>a
    <3> QED
      BY <1>a, <1>c, <2>1, <3>1, <3>2, SentGrows
  <2>3. newest' \in [pose : Numbers, objects : Numbers]
    BY <1>a, <2>1, <2>2 DEF SubLanes
  <2> QED
    BY <1>a, <1>b, <2>1, <2>2, <2>3 DEF Typed
<1>2. ASSUME NEW r \in Rooms, SendControl(r) PROVE Typed'
  <2>1. /\ sent' = Append(sent, [lane |-> "control", room |-> r, session |-> session])
        /\ UNCHANGED <<room, session, stopping, netPc, lastAvatar, lastObject,
                       roomPose, roomObjects, inbox, dropped, newest, arrived, seen>>
    BY <1>2 DEF SendControl
  <2>2. sent' \in Seq(Messages)
    <3>1. [lane |-> "control", room |-> r, session |-> session] \in Messages
      BY <1>a DEF Messages, Lanes
    <3> QED
      BY <1>a, <2>1, <3>1, SentGrows
  <2> QED
    BY <1>a, <1>b, <2>1, <2>2 DEF Typed
<1>3. CASE LoopHead
  <2>1. /\ netPc' \in {"head", "sub", "avatar", "object", "control", "done"}
        /\ lastAvatar' = None /\ lastObject' = None
        /\ UNCHANGED <<room, session, stopping, roomPose, roomObjects, inbox, dropped, sent,
                       newest, arrived, seen>>
    BY <1>3 DEF LoopHead
  <2> QED
    BY <1>a, <1>b, <1>c, <2>1 DEF Typed
<1>4. CASE ReceiveSub
  <2>1. UNCHANGED <<room, session, stopping, netPc, roomPose, roomObjects, inbox, dropped,
                    sent, newest, arrived, seen>>
    BY <1>4 DEF ReceiveSub
  <2>2. subSocket \in Seq(Frames) /\ subSocket # <<>> /\ Framed(subSocket)
    BY <1>4 DEF ReceiveSub, InboundInv, Typed, SocketInv
  <2>3. 1 \in 1..Len(subSocket)
    BY <2>2, RestFacts
  <2>4. subSocket[1].n \in Numbers
    BY <1>c, <2>2, <2>3, FrameType
  <2>5. /\ Held("pose")' \in {subSocket[1].n, Held("pose")}
        /\ Held("objects")' \in {subSocket[1].n, Held("objects")}
    BY <1>4, ReadFacts DEF SubLanes
  <2>6. lastAvatar' \in Numbers /\ lastObject' \in Numbers
    BY <1>a, <2>4, <2>5 DEF Held
  <2> QED
    BY <1>a, <1>b, <2>1, <2>6 DEF Typed
<1>5. CASE SubDrained \/ ControlDrained
  <2>1. /\ netPc' \in {"head", "sub", "avatar", "object", "control", "done"}
        /\ UNCHANGED <<room, session, stopping, lastAvatar, lastObject, roomPose, roomObjects,
                       inbox, dropped, sent, newest, arrived, seen>>
    BY <1>5 DEF SubDrained, ControlDrained
  <2> QED
    BY <1>a, <1>b, <2>1 DEF Typed
<1>6. CASE DeliverAvatar \/ DeliverObject
  <2>1. /\ netPc' \in {"head", "sub", "avatar", "object", "control", "done"}
        /\ roomPose' \in {roomPose, lastAvatar} /\ roomObjects' \in {roomObjects, lastObject}
        /\ UNCHANGED <<room, session, stopping, lastAvatar, lastObject,
                       inbox, dropped, sent, newest, arrived, seen>>
    BY <1>6 DEF DeliverAvatar, DeliverObject
  <2> QED
    BY <1>a, <1>b, <2>1 DEF Typed
<1>7. CASE ReceiveControl
  <2>1. UNCHANGED <<room, session, stopping, netPc, lastAvatar, lastObject, roomPose,
                    roomObjects, sent, newest, seen>>
    BY <1>7 DEF ReceiveControl
  <2>2. CASE UNCHANGED <<inbox, dropped, arrived>>
    BY <1>a, <1>b, <2>1, <2>2 DEF Typed
  <2>3. CASE Taken(ctlSocket) = 2 /\ QueueControl(ctlSocket[2].n)
             /\ arrived' = Append(arrived, ctlSocket[2].n)
    <3>1. ctlSocket \in Seq(Frames) /\ ctlSocket # <<>> /\ Framed(ctlSocket)
      BY <1>7 DEF ReceiveControl, InboundInv, Typed, SocketInv
    <3>2. 2 \in 1..Len(ctlSocket)
      BY <2>3, <3>1, RestFacts
    <3>3. PICK n \in Nat : n = ctlSocket[2].n
      BY <3>1, <3>2, FrameType
    <3>4. arrived' \in Seq(Nat)
      BY <1>a, <2>3, <3>3
    <3>5. inbox' \in Seq(Nat) /\ Len(inbox') <= InboxMax /\ dropped' \in Nat
      <4>1. CASE Len(inbox) >= InboxMax
        <5>1. inbox' = Append(Tail(inbox), n) /\ dropped' = dropped + 1
          BY <2>3, <3>3, <4>1 DEF QueueControl
        <5>2. inbox # <<>>
          BY <1>c, <4>1
        <5>3. Tail(inbox) \in Seq(Nat) /\ Len(Tail(inbox)) = Len(inbox) - 1
          BY <1>a, <5>2, HeadTailProperties
        <5>4. inbox' \in Seq(Nat) /\ Len(inbox') = Len(Tail(inbox)) + 1
          BY <5>1, <5>3, AppendProperties
        <5> QED
          BY <1>a, <1>c, <5>1, <5>3, <5>4
      <4>2. CASE ~(Len(inbox) >= InboxMax)
        <5>1. inbox' = Append(inbox, n) /\ dropped' = dropped
          BY <2>3, <3>3, <4>2 DEF QueueControl
        <5>2. inbox' \in Seq(Nat) /\ Len(inbox') = Len(inbox) + 1
          BY <1>a, <5>1, AppendProperties
        <5> QED
          BY <1>a, <1>c, <4>2, <5>1, <5>2
      <4> QED
        BY <4>1, <4>2
    <3> QED
      BY <1>a, <1>b, <2>1, <3>4, <3>5 DEF Typed
  <2> QED
    BY <1>7, <2>2, <2>3 DEF ReceiveControl
<1>8. CASE Poll
  <2>1. /\ roomPose' = None /\ roomObjects' = None /\ inbox' = <<>>
        /\ UNCHANGED <<room, session, stopping, netPc, lastAvatar, lastObject, dropped, sent,
                       newest, arrived>>
    BY <1>8 DEF Poll
  <2>2. seen' \in Seq(Records)
    BY <1>8, <1>a, PollSeen
  <2>3. inbox' \in Seq(Nat) /\ Len(inbox') <= InboxMax
    BY <1>c, <2>1
  <2> QED
    BY <1>a, <1>b, <1>c, <2>1, <2>2, <2>3 DEF Typed
<1>9. CASE Stop
  <2>1. /\ stopping' \in BOOLEAN
        /\ UNCHANGED <<room, session, netPc, lastAvatar, lastObject, roomPose, roomObjects,
                       inbox, dropped, sent, newest, arrived, seen>>
    BY <1>9 DEF Stop
  <2> QED
    BY <1>a, <1>b, <2>1 DEF Typed
<1>10. ASSUME NEW r \in Rooms, Rejoin(r) PROVE Typed'
  <2>1. /\ stopping' = FALSE /\ room' = r /\ session' = session + 1 /\ netPc' = "head"
        /\ roomPose' = None /\ roomObjects' = None /\ inbox' = <<>> /\ dropped' = 0
        /\ newest' = NoNews /\ arrived' = <<>>
        /\ UNCHANGED <<lastAvatar, lastObject, sent, seen>>
    BY <1>10 DEF Rejoin
  <2>2. /\ inbox' \in Seq(Nat) /\ Len(inbox') <= InboxMax /\ arrived' \in Seq(Nat)
        /\ session' \in Nat
    BY <1>a, <1>c, <2>1
  <2>3. newest' \in [pose : Numbers, objects : Numbers]
    BY <1>c, <2>1 DEF NoNews
  <2>4. stopping' \in BOOLEAN
    BY <2>1
  <2> QED
    BY <1>a, <1>b, <1>c, <2>1, <2>2, <2>3, <2>4 DEF Typed
<1>11. CASE UNCHANGED vars
  BY <1>11, <1>a, <1>b DEF vars, Typed
<1>12. "pose" \in SubLanes /\ "objects" \in SubLanes
  BY DEF SubLanes
<1> QED
  BY <1>1, <1>2, <1>3, <1>4, <1>5, <1>6, <1>7, <1>8, <1>9, <1>10, <1>11, <1>12 DEF Next, NetNext

-----------------------------------------------------------------------------
(* The two lanes of the SUB socket.                                        *)

\* A record's fields.
LEMMA RecordType ==
    ASSUME NEW s \in Seq(Records), NEW i \in 1..Len(s)
    PROVE  s[i].lane \in Lanes /\ s[i].n \in Nat /\ s[i].session \in Nat
<1>1. s[i] \in Records
  BY ElementOfSeq
<1> QED
  BY <1>1 DEF Records

\* What poll() hands on of a lane is what its slot held.
LEMMA PollLane ==
    ASSUME Typed, Poll, NEW lane \in SubLanes
    PROVE  /\ \A i \in 1..Len(seen') : seen'[i].lane = lane =>
                \/ i \in 1..Len(seen) /\ seen'[i] = seen[i]
                \/ Slot(lane) # None /\ seen'[i].n = Slot(lane)
           /\ \A i \in 1..Len(seen) : i \in 1..Len(seen') /\ seen'[i] = seen[i]
           /\ Slot(lane) # None =>
                \E i \in 1..Len(seen') : seen'[i].lane = lane /\ seen'[i].n = Slot(lane)
<1> DEFINE N == Len(seen)
           p == Before(roomPose)
           k == Len(inbox)
           q == Before(roomObjects)
           N2 == Len(seen')
<1>1. /\ N2 = N + p + k + q
      /\ \A i \in 1..N : seen'[i] = seen[i]
      /\ roomPose # None => seen'[N + 1] = Record("pose", roomPose)
      /\ \A i \in 1..k : seen'[N + p + i] = Record("control", inbox[i])
      /\ roomObjects # None => seen'[N + p + k + 1] = Record("objects", roomObjects)
      /\ N \in Nat /\ k \in Nat /\ p \in {0, 1} /\ q \in {0, 1}
  BY PollSeen
<1>2. (p = 1 <=> roomPose # None) /\ (q = 1 <=> roomObjects # None)
  BY DEF Before
<1>3. \A l, n : Record(l, n).lane = l /\ Record(l, n).n = n
  BY DEF Record
<1> HIDE DEF N, p, k, q, N2
<1>4. ASSUME NEW i \in 1..N2
      PROVE  \/ i \in 1..N
             \/ i = N + 1 /\ p = 1
             \/ i - (N + p) \in 1..k /\ N + p + (i - (N + p)) = i
             \/ i = N + p + k + 1 /\ q = 1
  BY <1>1
<1>5. ASSUME NEW i \in 1..N2, seen'[i].lane = lane
      PROVE  \/ i \in 1..N /\ seen'[i] = seen[i]
             \/ Slot(lane) # None /\ seen'[i].n = Slot(lane)
  <2>1. CASE i \in 1..N
    BY <1>1, <2>1
  <2>2. CASE i = N + 1 /\ p = 1
    BY <1>1, <1>2, <1>3, <1>5, <2>2 DEF Slot
  <2>3. CASE i - (N + p) \in 1..k /\ N + p + (i - (N + p)) = i
    <3>1. seen'[i].lane = "control"
      BY <1>1, <1>3, <2>3
    <3> QED
      BY <1>5, <3>1 DEF SubLanes
  <2>4. CASE i = N + p + k + 1 /\ q = 1
    <3>1. seen'[i].lane = "objects" /\ seen'[i].n = roomObjects /\ roomObjects # None
      BY <1>1, <1>2, <1>3, <2>4
    <3> QED
      BY <1>5, <3>1 DEF Slot
  <2> QED
    BY <1>4, <2>1, <2>2, <2>3, <2>4
<1>6. ASSUME Slot(lane) # None
      PROVE  \E i \in 1..N2 : seen'[i].lane = lane /\ seen'[i].n = Slot(lane)
  <2>1. CASE lane = "pose"
    <3>1. N + 1 \in 1..N2 /\ seen'[N + 1] = Record("pose", roomPose)
      BY <1>1, <1>2, <1>6, <2>1 DEF Slot
    <3> QED
      BY <1>3, <2>1, <3>1 DEF Slot
  <2>2. CASE lane = "objects"
    <3>1. roomObjects # None
      BY <1>6, <2>2 DEF Slot
    <3>2. N + p + k + 1 \in 1..N2 /\ seen'[N + p + k + 1] = Record("objects", roomObjects)
      BY <1>1, <1>2, <3>1
    <3> QED
      BY <1>3, <2>2, <3>2 DEF Slot
  <2> QED
    BY <2>1, <2>2 DEF SubLanes
<1>7. \A i \in 1..N : i \in 1..N2 /\ seen'[i] = seen[i]
  BY <1>1
<1> QED
  BY <1>5, <1>6, <1>7 DEF N, N2

\* Every action keeps a lane in order and its newest message on its way.
LEMMA LaneStep ==
    ASSUME InboundInv, Typed', [Next]_vars, NEW lane \in SubLanes
    PROVE  LaneOrder(lane)' /\ LaneNewest(lane)'
<1> USE DEF netVars, socketVars, clientVars
<1> DEFINE h == Held(lane)
           c == Slot(lane)
           w == newest[lane]
           u == Undelivered(lane)
           s == subSocket
<1>a. /\ Typed /\ h \in Numbers /\ c \in Numbers /\ w \in Numbers
      /\ s \in Seq(Frames) /\ Framed(s) /\ Stamped(s, SubLanes, sent, session)
      /\ Len(s) \in Nat /\ Len(seen) \in Nat /\ Len(sent) \in Nat
      /\ DOMAIN seen = 1..Len(seen)
      /\ None \notin Nat
  <2>1. /\ Typed /\ s \in Seq(Frames) /\ Framed(s) /\ Stamped(s, SubLanes, sent, session)
        /\ seen \in Seq(Records) /\ sent \in Seq(Messages)
    BY DEF InboundInv, Typed, SocketInv
  <2>2. h \in Numbers /\ c \in Numbers /\ w \in Numbers
    BY <2>1 DEF Typed, Held, Slot, SubLanes
  <2> QED
    BY <2>1, <2>2, LimitsAssumption
<1>b. /\ \A i \in 1..Len(seen) : seen[i].n \in Nat
      /\ \A i \in 1..Len(s) : s[i].n \in Nat
  BY <1>a, RecordType, FrameType DEF Typed
<1>c. /\ LaneOrder(lane) /\ LaneNewest(lane)
  BY DEF InboundInv, LaneInv
<1>d. /\ h # None => SentTo(lane, h, sent, room, session)
      /\ netPc = "done" => h = None
      /\ c # None => SentTo(lane, c, sent, room, session)
  BY <1>c DEF LaneOrder, Genuine
<1>e. \A i \in 1..Len(seen) : seen[i].lane = lane /\ c # None => seen[i].n < c
  BY <1>c DEF LaneOrder
<1>f. h # None /\ u => /\ c # None => c < h
                       /\ \A i \in 1..Len(seen) : seen[i].lane = lane => seen[i].n < h
  BY <1>c DEF LaneOrder
<1>g. \A i \in 1..Len(s) : Starts(s, i) =>
         /\ h # None => h < s[i].n
         /\ c # None => c < s[i].n
         /\ \A j \in 1..Len(seen) : seen[j].lane = lane => seen[j].n < s[i].n
  BY <1>c DEF LaneOrder
<1>h. /\ h # None => w # None /\ h <= w
      /\ \A i \in 1..Len(s) : Starts(s, i) /\ SentTo(lane, s[i].n, sent, room, session) =>
            w # None /\ s[i].n <= w
  BY <1>c DEF LaneNewest, Genuine
<1>i. w # None =>
        /\ SentTo(lane, w, sent, room, session)
        /\ \/ \E i \in 1..Len(s) : Starts(s, i) /\ s[i].n = w
           \/ u /\ h = w
           \/ c = w
           \/ \E i \in 1..Len(seen) : seen[i].lane = lane /\ seen[i].n = w
  BY <1>a, <1>c DEF LaneNewest, Genuine, HasSeen
<1> DEFINE Goal == LaneOrder(lane)' /\ LaneNewest(lane)'
<1>j. ASSUME /\ h' # None => SentTo(lane, h', sent', room', session')
             /\ netPc' = "done" => h' = None
             /\ c' # None => SentTo(lane, c', sent', room', session'),
             \A i \in 1..Len(seen') : seen'[i].lane = lane /\ c' # None => seen'[i].n < c',
             h' # None /\ u' => /\ c' # None => c' < h'
                                /\ \A i \in 1..Len(seen') :
                                      seen'[i].lane = lane => seen'[i].n < h',
             \A i \in 1..Len(s') : Starts(s', i) =>
                /\ h' # None => h' < s'[i].n
                /\ c' # None => c' < s'[i].n
                /\ \A j \in 1..Len(seen') : seen'[j].lane = lane => seen'[j].n < s'[i].n,
             h' # None => w' # None /\ h' <= w',
             \A i \in 1..Len(s') :
                Starts(s', i) /\ SentTo(lane, s'[i].n, sent', room', session') =>
                    w' # None /\ s'[i].n <= w',
             w' # None =>
                /\ SentTo(lane, w', sent', room', session')
                /\ \/ \E i \in 1..Len(s') : Starts(s', i) /\ s'[i].n = w'
                   \/ u' /\ h' = w'
                   \/ c' = w'
                   \/ \E i \in 1..Len(seen') : seen'[i].lane = lane /\ seen'[i].n = w'
      PROVE  Goal
  <2>1. LaneOrder(lane)'
    BY <1>j DEF LaneOrder, Genuine
  <2>2. DOMAIN seen' = 1..Len(seen')
    BY DEF Typed
  <2>3. LaneNewest(lane)'
    BY <1>j, <2>2 DEF LaneNewest, Genuine, HasSeen
  <2> QED
    BY <2>1, <2>3
<1> SUFFICES Goal
  OBVIOUS
<1> HIDE DEF Goal
<1>1. ASSUME UNCHANGED <<sent, room, session, newest, seen, subSocket>>,
             h' = h, c' = c, u' <=> u, netPc' = "done" => netPc = "done"
      PROVE  Goal
  <2>1. w' = w /\ s' = s
    BY <1>1
  <2> HIDE DEF h, c, w, u, s
  <2> QED
    BY <1>1, <1>d, <1>e, <1>f, <1>g, <1>h, <1>i, <1>j, <2>1
<1>2. CASE LoopHead
  <2>1. /\ h' = None /\ c' = c /\ w' = w /\ s' = s /\ ~u
        /\ UNCHANGED <<sent, room, session, seen>>
    BY <1>2 DEF LoopHead, Held, Slot, Undelivered
  <2> HIDE DEF h, c, w, u, s
  <2> QED
    BY <1>d, <1>e, <1>g, <1>h, <1>i, <1>j, <2>1
<1>3. ASSUME UNCHANGED <<sent, room, session, newest, seen, subSocket>>, u, ~u',
             h' = h, c' = IF h = None THEN c ELSE h, netPc' # "done"
      PROVE  Goal
  <2>1. w' = w /\ s' = s
    BY <1>3
  <2>2. h # None => h \in Nat /\ w \in Nat /\ (c # None => c \in Nat)
    BY <1>a, <1>h DEF Numbers
  <2> HIDE DEF h, c, w, u, s
  <2>3. ASSUME h # None PROVE c # w /\ w # None
    BY <1>3, <1>a, <1>f, <1>h, <2>2, <2>3
  <2>4. w' # None =>
          /\ SentTo(lane, w', sent', room', session')
          /\ \/ \E i \in 1..Len(s') : Starts(s', i) /\ s'[i].n = w'
             \/ u' /\ h' = w'
             \/ c' = w'
             \/ \E i \in 1..Len(seen') : seen'[i].lane = lane /\ seen'[i].n = w'
    BY <1>3, <1>i, <2>1, <2>3
  <2> QED
    BY <1>3, <1>d, <1>e, <1>f, <1>g, <1>h, <1>j, <2>1, <2>4
<1>4. CASE ReceiveSub
  <2>1. /\ c' = c /\ w' = w /\ s' = Rest(s) /\ s # <<>> /\ u /\ u' /\ netPc' # "done"
        /\ UNCHANGED <<sent, room, session, seen>>
    BY <1>4 DEF ReceiveSub, Slot, Undelivered
  <2> DEFINE k == Taken(s)
             r == Rest(s)
             n == s[1].n
  <2>2. /\ \A j \in 1..Len(r) :
             /\ j + k \in 1..Len(s) /\ r[j] = s[j + k]
             /\ Starts(r, j) => Starts(s, j + k) /\ n < s[j + k].n
        /\ \A i \in 1..Len(s) : Starts(s, i) =>
             \/ i = 1 /\ k = 2
             \/ \E j \in 1..Len(r) : Starts(r, j) /\ r[j].n = s[i].n
        /\ k = 2 => Starts(s, 1)
        /\ 1 \in 1..Len(s)
    BY <1>a, <2>1, RestFacts
  <2>3. \/ k = 2 /\ SentTo(lane, n, sent, room, session) /\ h' = n
        \/ ~(k = 2 /\ SentTo(lane, n, sent, room, session)) /\ h' = h
    BY <1>4, ReadFacts DEF Genuine
  <2>4. n \in Nat
    BY <1>b, <2>2
  <2> HIDE DEF h, c, w, u, s, k, r, n
  <2>5. \A i \in 1..Len(r) : Starts(r, i) =>
           /\ c # None => c < r[i].n
           /\ \A j \in 1..Len(seen) : seen[j].lane = lane => seen[j].n < r[i].n
           /\ h # None => h < r[i].n
           /\ n < r[i].n
    BY <1>g, <2>2
  <2>6. \A i \in 1..Len(r) : Starts(r, i) /\ SentTo(lane, r[i].n, sent, room, session) =>
            w # None /\ r[i].n <= w
    BY <1>h, <2>2
  <2>7. CASE k = 2 /\ SentTo(lane, n, sent, room, session) /\ h' = n
    <3>1. /\ n # None /\ (c # None => c < n) /\ w # None /\ n <= w
          /\ \A i \in 1..Len(seen) : seen[i].lane = lane => seen[i].n < n
          /\ h # None => h < n
      BY <1>a, <1>g, <1>h, <2>2, <2>4, <2>7 DEF n
    <3>2. h # w
      <4> SUFFICES ASSUME h = w PROVE FALSE
        OBVIOUS
      <4>1. w \in Nat /\ w < n /\ n <= w
        BY <1>a, <3>1 DEF Numbers
      <4> QED
        BY <2>4, <4>1
    <3>3. \/ \E i \in 1..Len(r) : Starts(r, i) /\ r[i].n = w
          \/ n = w
          \/ c = w
          \/ \E i \in 1..Len(seen) : seen[i].lane = lane /\ seen[i].n = w
      BY <1>i, <2>2, <3>1, <3>2, SMTT(40) DEF n
    <3>4. s' = r
      BY <2>1 DEF r
    <3> QED
      BY <1>d, <1>e, <1>i, <1>j, <2>1, <2>5, <2>6, <2>7, <3>1, <3>3, <3>4
  <2>8. CASE ~(k = 2 /\ SentTo(lane, n, sent, room, session)) /\ h' = h
    <3>1. w # None =>
            \/ \E i \in 1..Len(r) : Starts(r, i) /\ r[i].n = w
            \/ h = w
            \/ c = w
            \/ \E i \in 1..Len(seen) : seen[i].lane = lane /\ seen[i].n = w
      BY <1>i, <2>2, <2>8 DEF n
    <3>2. s' = r
      BY <2>1 DEF r
    <3> QED
      BY <1>d, <1>e, <1>f, <1>h, <1>i, <1>j, <2>1, <2>5, <2>6, <2>8, <3>1, <3>2
  <2> QED
    BY <2>3, <2>7, <2>8
<1>5. CASE Poll
  <2>1. /\ c' = None /\ h' = h /\ w' = w /\ s' = s /\ (u' <=> u) /\ netPc' = netPc
        /\ UNCHANGED <<sent, room, session>>
    BY <1>5 DEF Poll, Held, Slot, Undelivered
  <2>2. /\ \A i \in 1..Len(seen') : seen'[i].lane = lane =>
             \/ i \in 1..Len(seen) /\ seen'[i] = seen[i]
             \/ c # None /\ seen'[i].n = c
        /\ \A i \in 1..Len(seen) : i \in 1..Len(seen') /\ seen'[i] = seen[i]
        /\ c # None => \E i \in 1..Len(seen') : seen'[i].lane = lane /\ seen'[i].n = c
    BY <1>5, <1>a, PollLane
  <2> HIDE DEF h, c, w, u, s
  <2>3. h # None /\ u => \A i \in 1..Len(seen') : seen'[i].lane = lane => seen'[i].n < h
    BY <1>f, <2>2
  <2>4. \A i \in 1..Len(s) : Starts(s, i) =>
           \A j \in 1..Len(seen') : seen'[j].lane = lane => seen'[j].n < s[i].n
    BY <1>g, <2>2
  <2>5. w # None =>
          \/ \E i \in 1..Len(s) : Starts(s, i) /\ s[i].n = w
          \/ u /\ h = w
          \/ \E i \in 1..Len(seen') : seen'[i].lane = lane /\ seen'[i].n = w
    BY <1>i, <2>2
  <2> QED
    BY <1>d, <1>g, <1>h, <1>i, <1>j, <2>1, <2>3, <2>4, <2>5
<1>k. \A i \in 1..Len(seen) : seen[i].n \in 1..Len(sent)
  BY DEF InboundInv, SeenSent
<1>6. ASSUME NEW m \in Messages, sent' = Append(sent, m), h' = h, c' = c, u' <=> u,
             UNCHANGED <<room, session, seen, netPc>>,
             \A i \in 1..Len(s') : Starts(s', i) =>
                \/ \E j \in 1..Len(s) : Starts(s, j) /\ s[j].n = s'[i].n
                \/ /\ s'[i].n = Len(sent) + 1
                   /\ SentTo(lane, Len(sent) + 1, sent', room, session) => w' = Len(sent) + 1,
             \A j \in 1..Len(s) : Starts(s, j) =>
                \E i \in 1..Len(s') : Starts(s', i) /\ s'[i].n = s[j].n,
             \/ w' = w
             \/ /\ w' = Len(sent) + 1
                /\ SentTo(lane, Len(sent) + 1, sent', room, session)
                /\ \E i \in 1..Len(s') : Starts(s', i) /\ s'[i].n = Len(sent) + 1
      PROVE  Goal
  <2> DEFINE n == Len(sent) + 1
  <2>1. /\ Len(sent') = n
        /\ \A x \in 1..Len(sent) : x \in 1..Len(sent') /\ sent'[x] = sent[x]
    BY <1>6, <1>a, SentGrows
  <2>2. n \in Nat /\ n # None /\ \A x \in 1..Len(sent) : x \in Nat /\ x < n
    BY <1>a
  <2>3. ASSUME NEW x, SentTo(lane, x, sent, room, session)
        PROVE  SentTo(lane, x, sent', room', session') /\ x \in Nat /\ x < n
    BY <1>6, <2>1, <2>2, <2>3 DEF SentTo
  <2>4. ASSUME NEW x \in 1..Len(sent), SentTo(lane, x, sent', room', session')
        PROVE  SentTo(lane, x, sent, room, session)
    BY <1>6, <2>1, <2>4 DEF SentTo
  <2>5. \A j \in 1..Len(s) : s[j].n \in 1..Len(sent)
    BY <1>a DEF Stamped
  <2> HIDE DEF h, c, w, u, s, n
  <2>6. \A i \in 1..Len(s') : Starts(s', i) =>
                \/ \E j \in 1..Len(s) : Starts(s, j) /\ s[j].n = s'[i].n
                \/ s'[i].n = n /\ (SentTo(lane, n, sent', room, session) => w' = n)
    BY <1>6 DEF n
  <2>7. \/ w' = w
        \/ /\ w' = n /\ SentTo(lane, n, sent', room, session)
           /\ \E i \in 1..Len(s') : Starts(s', i) /\ s'[i].n = n
    BY <1>6 DEF n
  <2>8. w # None => w' # None /\ w \in Nat /\ w' \in Nat /\ w <= w'
    BY <1>i, <2>2, <2>3, <2>7
  <2>9. /\ h' # None => SentTo(lane, h', sent', room', session')
        /\ netPc' = "done" => h' = None
        /\ c' # None => SentTo(lane, c', sent', room', session')
    BY <1>6, <1>d, <2>3
  <2>10. ASSUME NEW i \in 1..Len(s'), Starts(s', i)
         PROVE  /\ h # None => h < s'[i].n
                /\ c # None => c < s'[i].n
                /\ \A j \in 1..Len(seen) : seen[j].lane = lane => seen[j].n < s'[i].n
                /\ SentTo(lane, s'[i].n, sent', room', session') =>
                     w' # None /\ s'[i].n <= w'
    <3>1. CASE \E j \in 1..Len(s) : Starts(s, j) /\ s[j].n = s'[i].n
      <4>1. PICK j \in 1..Len(s) : Starts(s, j) /\ s[j].n = s'[i].n
        BY <3>1
      <4>2. ASSUME SentTo(lane, s'[i].n, sent', room', session')
            PROVE  w' # None /\ s'[i].n <= w'
        <5>1. w # None /\ s[j].n <= w
          BY <1>h, <2>4, <2>5, <4>1, <4>2
        <5> QED
          BY <1>b, <2>8, <4>1, <5>1
      <4> QED
        BY <1>g, <4>1, <4>2
    <3>2. CASE s'[i].n = n /\ (SentTo(lane, n, sent', room, session) => w' = n)
      <4>1. /\ h # None => h < n
            /\ c # None => c < n
            /\ \A j \in 1..Len(seen) : seen[j].n < n
        BY <1>d, <1>k, <2>2, <2>3
      <4>2. SentTo(lane, n, sent', room', session') => w' # None /\ n <= w'
        BY <1>6, <2>2, <3>2
      <4> QED
        BY <3>2, <4>1, <4>2
    <3> QED
      BY <2>6, <2>10, <3>1, <3>2
  <2>11. w' # None =>
           /\ SentTo(lane, w', sent', room', session')
           /\ \/ \E i \in 1..Len(s') : Starts(s', i) /\ s'[i].n = w'
              \/ u' /\ h' = w'
              \/ c' = w'
              \/ \E i \in 1..Len(seen') : seen'[i].lane = lane /\ seen'[i].n = w'
    <3>1. CASE w' = w
      <4> SUFFICES ASSUME w # None
                   PROVE  /\ SentTo(lane, w, sent', room', session')
                          /\ \/ \E i \in 1..Len(s') : Starts(s', i) /\ s'[i].n = w
                             \/ u' /\ h' = w
                             \/ c' = w
                             \/ \E i \in 1..Len(seen') : seen'[i].lane = lane /\ seen'[i].n = w
        BY <3>1
      <4>1. SentTo(lane, w, sent', room', session')
        BY <1>i, <2>3
      <4> QED
        BY <1>6, <1>i, <4>1
    <3>2. CASE /\ w' = n /\ SentTo(lane, n, sent', room, session)
               /\ \E i \in 1..Len(s') : Starts(s', i) /\ s'[i].n = n
      BY <1>6, <3>2
    <3> QED
      BY <2>7, <3>1, <3>2
  <2>12. h' # None => w' # None /\ h' <= w'
    <3>1. h # None => h \in Nat /\ w # None /\ h <= w
      BY <1>d, <1>h, <2>3
    <3> QED
      BY <1>6, <2>8, <3>1
  <2> QED
    BY <1>6, <1>e, <1>f, <1>j, <2>9, <2>10, <2>11, <2>12
<1>7. ASSUME NEW r \in Rooms, SendControl(r) PROVE Goal
  <2>1. /\ sent' = Append(sent, [lane |-> "control", room |-> r, session |-> session])
        /\ h' = h /\ c' = c /\ (u' <=> u) /\ w' = w /\ s' = s
        /\ UNCHANGED <<room, session, seen, netPc>>
    BY <1>7 DEF SendControl, Held, Slot, Undelivered
  <2>2. [lane |-> "control", room |-> r, session |-> session] \in Messages
    BY <1>a DEF Messages, Lanes, Typed
  <2> HIDE DEF h, c, w, u, s
  <2> QED
    BY <1>6, <2>1, <2>2
<1>8. ASSUME NEW l \in SubLanes, NEW r \in Rooms, Publish(l, r) PROVE Goal
  <2> DEFINE m == [lane |-> l, room |-> r, session |-> session]
             n == Len(sent) + 1
  <2>1. m \in Messages /\ m.lane = l /\ m.room = r /\ l \in Lanes
    BY <1>a DEF Messages, Lanes, Typed
  <2>2. /\ sent' = Append(sent, m) /\ h' = h /\ c' = c /\ (u' <=> u)
        /\ UNCHANGED <<room, session, seen, netPc>>
    BY <1>8, PublishFacts DEF Held, Slot, Undelivered
  <2>3. PICK form \in Forms(Topic(l, r), n) :
          \/ s' = s /\ newest' = newest
          \/ /\ s' = s \o form
             /\ newest' = IF r = room /\ Len(form) > 1
                          THEN [newest EXCEPT ![l] = n] ELSE newest
    BY <1>8, PublishFacts
  <2>4. /\ n \in Nat /\ Topic(l, r) \in Texts /\ \A i \in 1..Len(s) : s[i].n < n
    BY <1>a, <2>1, TopicFacts DEF Stamped
  <2>5. /\ \A i \in 1..Len(s \o form) :
             \/ i \in 1..Len(s) /\ (s \o form)[i] = s[i]
                  /\ (Starts(s \o form, i) <=> Starts(s, i))
             \/ (s \o form)[i].n = n
                  /\ (Starts(s \o form, i) => (s \o form)[i].data = Topic(l, r) /\ Len(form) > 1)
        /\ \A i \in 1..Len(s) : i \in 1..Len(s \o form) /\ (s \o form)[i] = s[i]
                                /\ (Starts(s \o form, i) <=> Starts(s, i))
        /\ Len(form) > 1 => \E i \in 1..Len(s \o form) :
                               Starts(s \o form, i) /\ (s \o form)[i].n = n
    <3>1. s \in Seq(Frames) /\ Framed(s)
      BY <1>a
    <3>2. form \in Forms(Topic(l, r), n)
      OBVIOUS
    <3> HIDE DEF s, n
    <3> QED
      BY <2>4, <3>1, <3>2, FormFacts, SMTT(40)
  <2>6. SentTo(lane, n, sent', room, session) <=> l = lane /\ r = room
    <3>1. Len(sent') = n /\ sent'[n] = m /\ n \in 1..Len(sent')
      BY <1>a, <2>1, <2>2, <2>4, SentGrows
    <3>2. m.session = session
      OBVIOUS
    <3> HIDE DEF m, n
    <3> QED
      BY <2>1, <3>1, <3>2 DEF SentTo
  <2>7. CASE s' = s /\ newest' = newest
    <3>1. w' = w
      BY <2>7
    <3> HIDE DEF h, c, w, u, s, m
    <3> QED
      BY <1>6, <2>1, <2>2, <2>7, <3>1
  <2>8. CASE /\ s' = s \o form
             /\ newest' = IF r = room /\ Len(form) > 1
                          THEN [newest EXCEPT ![l] = n] ELSE newest
    <3>1. w' = IF l = lane /\ r = room /\ Len(form) > 1 THEN n ELSE w
      BY <1>a, <2>8 DEF Typed, SubLanes
    <3> HIDE DEF h, c, w, u, s, m
    <3>2. \A i \in 1..Len(s') : Starts(s', i) =>
                \/ \E j \in 1..Len(s) : Starts(s, j) /\ s[j].n = s'[i].n
                \/ s'[i].n = n /\ (SentTo(lane, n, sent', room, session) => w' = n)
      BY <2>5, <2>6, <2>8, <3>1
    <3>3. \A j \in 1..Len(s) : Starts(s, j) =>
                \E i \in 1..Len(s') : Starts(s', i) /\ s'[i].n = s[j].n
      BY <2>5, <2>8
    <3>4. \/ w' = w
          \/ /\ w' = n /\ SentTo(lane, n, sent', room, session)
             /\ \E i \in 1..Len(s') : Starts(s', i) /\ s'[i].n = n
      BY <2>5, <2>6, <2>8, <3>1
    <3> QED
      BY <1>6, <2>1, <2>2, <3>2, <3>3, <3>4
  <2> QED
    BY <2>3, <2>7, <2>8
<1>9. ASSUME NEW r \in Rooms, Rejoin(r) PROVE Goal
  <2>1. /\ netPc = "done" /\ h' = h /\ c' = None /\ w' = None /\ s' = <<>> /\ netPc' = "head"
    BY <1>9 DEF Rejoin, Held, Slot, NoNews, SubLanes
  <2>2. h' = None
    BY <1>d, <2>1
  <2>3. 1..Len(s') = {}
    BY <2>1
  <2> HIDE DEF h, c, w, u, s
  <2> QED
    BY <1>j, <2>1, <2>2, <2>3
<1>10. CASE SubDrained \/ ControlDrained \/ ReceiveControl \/ Stop \/ UNCHANGED vars
  <2>1. /\ h' = h /\ c' = c /\ (u' <=> u) /\ (netPc' = "done" => netPc = "done")
        /\ UNCHANGED <<sent, room, session, newest, seen, subSocket>>
    BY <1>10 DEF SubDrained, ControlDrained, ReceiveControl, Stop, vars, Held, Slot, Undelivered
  <2> QED
    BY <1>1, <2>1
<1>11. CASE DeliverAvatar
  <2>1. CASE lane = "pose"
    <3>1. /\ UNCHANGED <<sent, room, session, newest, seen, subSocket>> /\ u /\ ~u'
          /\ h' = h /\ c' = (IF h = None THEN c ELSE h) /\ netPc' # "done"
      BY <1>11, <2>1 DEF DeliverAvatar, Held, Slot, Undelivered
    <3> QED
      BY <1>3, <3>1
  <2>2. CASE lane = "objects"
    <3>1. /\ h' = h /\ c' = c /\ (u' <=> u) /\ (netPc' = "done" => netPc = "done")
          /\ UNCHANGED <<sent, room, session, newest, seen, subSocket>>
      BY <1>11, <2>2 DEF DeliverAvatar, Held, Slot, Undelivered
    <3> QED
      BY <1>1, <3>1
  <2> QED
    BY <2>1, <2>2 DEF SubLanes
<1>12. CASE DeliverObject
  <2>1. CASE lane = "objects"
    <3>1. /\ UNCHANGED <<sent, room, session, newest, seen, subSocket>> /\ u /\ ~u'
          /\ h' = h /\ c' = (IF h = None THEN c ELSE h) /\ netPc' # "done"
      BY <1>12, <2>1 DEF DeliverObject, Held, Slot, Undelivered
    <3> QED
      BY <1>3, <3>1
  <2>2. CASE lane = "pose"
    <3>1. /\ h' = h /\ c' = c /\ (u' <=> u) /\ (netPc' = "done" => netPc = "done")
          /\ UNCHANGED <<sent, room, session, newest, seen, subSocket>>
      BY <1>12, <2>2 DEF DeliverObject, Held, Slot, Undelivered
    <3> QED
      BY <1>1, <3>1
  <2> QED
    BY <2>1, <2>2 DEF SubLanes
<1>13. "pose" \in SubLanes /\ "objects" \in SubLanes
  BY DEF SubLanes
<1> QED
  BY <1>2, <1>4, <1>5, <1>7, <1>8, <1>9, <1>10, <1>11, <1>12, <1>13 DEF Next, NetNext

-----------------------------------------------------------------------------
(* What poll() has handed on.                                              *)

\* Which record poll() puts where.
LEMMA PollRecords ==
    ASSUME Typed, Poll, NEW i \in 1..Len(seen')
    PROVE  \/ i \in 1..Len(seen) /\ seen'[i] = seen[i]
           \/ i = Len(seen) + 1 /\ roomPose # None /\ seen'[i] = Record("pose", roomPose)
           \/ \E x \in 1..Len(inbox) : /\ i = Len(seen) + Before(roomPose) + x
                                       /\ seen'[i] = Record("control", inbox[x])
           \/ /\ i > Len(seen) + Before(roomPose) + Len(inbox) /\ i = Len(seen')
              /\ roomObjects # None /\ seen'[i] = Record("objects", roomObjects)
<1> DEFINE N == Len(seen)
           p == Before(roomPose)
           k == Len(inbox)
           q == Before(roomObjects)
           N2 == Len(seen')
<1>1. /\ N2 = N + p + k + q
      /\ \A j \in 1..N : seen'[j] = seen[j]
      /\ roomPose # None => seen'[N + 1] = Record("pose", roomPose)
      /\ \A j \in 1..k : seen'[N + p + j] = Record("control", inbox[j])
      /\ roomObjects # None => seen'[N + p + k + 1] = Record("objects", roomObjects)
      /\ N \in Nat /\ k \in Nat /\ p \in {0, 1} /\ q \in {0, 1}
  BY PollSeen
<1>2. (p = 1 => roomPose # None) /\ (q = 1 => roomObjects # None)
  BY DEF Before
<1> HIDE DEF N, p, k, q, N2
<1>3. i \in 1..N2
  BY DEF N2
<1>4. \/ i \in 1..N
      \/ i = N + 1 /\ p = 1
      \/ i - (N + p) \in 1..k /\ i = N + p + (i - (N + p))
      \/ i = N + p + k + 1 /\ q = 1 /\ i > N + p + k /\ i = N2
  <2>1. /\ N2 = N + p + k + q
        /\ N \in Nat /\ k \in Nat /\ p \in {0, 1} /\ q \in {0, 1}
    BY <1>1
  <2> QED
    BY <1>3, <2>1
<1>5. CASE i \in 1..N
  BY <1>1, <1>5 DEF N
<1>6. CASE i = N + 1 /\ p = 1
  BY <1>1, <1>2, <1>6 DEF N
<1>7. CASE i - (N + p) \in 1..k /\ i = N + p + (i - (N + p))
  <2>1. PICK x \in 1..k : i = N + p + x
    BY <1>7
  <2>2. seen'[i] = Record("control", inbox[x])
    BY <1>1, <2>1
  <2> QED
    BY <2>1, <2>2 DEF N, p, k
<1>8. CASE i = N + p + k + 1 /\ q = 1 /\ i > N + p + k /\ i = N2
  BY <1>1, <1>2, <1>8 DEF N, p, k, N2
<1> QED
  BY <1>4, <1>5, <1>6, <1>7, <1>8

\* Everything handed on was sent, to its room and session, and in order.
LEMMA SeenStep ==
    ASSUME InboundInv, Typed', [Next]_vars
    PROVE  SeenSent' /\ SeenInRoomAndOrder'
<1> USE DEF netVars, socketVars, clientVars
<1>a. /\ Typed /\ seen \in Seq(Records) /\ DOMAIN seen = 1..Len(seen) /\ Len(seen) \in Nat
      /\ session \in Nat
      /\ sent \in Seq(Messages) /\ Len(sent) \in Nat
      /\ DOMAIN seen' = 1..Len(seen')
  BY DEF InboundInv, Typed
<1>b. \A i \in 1..Len(seen) : seen[i].n \in Nat /\ seen[i].session \in Nat
  BY <1>a, RecordType
<1>c. \A i \in 1..Len(seen) :
        /\ seen[i].n \in 1..Len(sent) /\ seen[i].session <= session
        /\ sent[seen[i].n].lane = seen[i].lane
        /\ sent[seen[i].n].session = seen[i].session
        /\ seen[i].session = session => sent[seen[i].n].room = room
        /\ \A j \in 1..(i - 1) : seen[j].lane = seen[i].lane => seen[j].n < seen[i].n
  BY <1>a DEF InboundInv, SeenSent, SeenInRoomAndOrder
<1> DEFINE Goal == SeenSent' /\ SeenInRoomAndOrder'
<1>d. ASSUME \A i \in 1..Len(seen') :
                /\ seen'[i].n \in 1..Len(sent') /\ seen'[i].session <= session'
                /\ sent'[seen'[i].n].lane = seen'[i].lane
                /\ sent'[seen'[i].n].session = seen'[i].session
                /\ seen'[i].session = session' => sent'[seen'[i].n].room = room'
                /\ \A j \in 1..(i - 1) :
                      seen'[j].lane = seen'[i].lane => seen'[j].n < seen'[i].n
      PROVE  Goal
  BY <1>d, <1>a DEF SeenSent, SeenInRoomAndOrder
<1> SUFFICES Goal
  OBVIOUS
<1> HIDE DEF Goal
<1>1. ASSUME UNCHANGED <<seen, sent, session, room>> PROVE Goal
  BY <1>1, <1>c, <1>d
<1>2. ASSUME NEW m \in Messages, sent' = Append(sent, m), UNCHANGED <<seen, session, room>>
      PROVE  Goal
  <2>1. \A n \in 1..Len(sent) : n \in 1..Len(sent') /\ sent'[n] = sent[n]
    BY <1>2, <1>a, SentGrows
  <2> QED
    BY <1>2, <1>c, <1>d, <2>1
<1>3. ASSUME NEW r \in Rooms, Rejoin(r) PROVE Goal
  <2>1. session' = session + 1 /\ UNCHANGED <<seen, sent>>
    BY <1>3 DEF Rejoin
  <2>2. \A i \in 1..Len(seen) : seen[i].session <= session' /\ seen[i].session # session'
    BY <1>a, <1>b, <1>c, <2>1
  <2> QED
    BY <1>c, <1>d, <2>1, <2>2
<1>4. CASE Poll
  <2>1. UNCHANGED <<sent, session, room>>
    BY <1>4 DEF Poll
  <2>2. /\ LaneOrder("pose") /\ LaneOrder("objects") /\ ControlOrder
    BY DEF InboundInv, LaneInv, SubLanes
  <2>3. /\ roomPose # None => SentTo("pose", roomPose, sent, room, session)
        /\ roomObjects # None => SentTo("objects", roomObjects, sent, room, session)
        /\ \A x \in 1..Len(inbox) : SentTo("control", inbox[x], sent, room, session)
    BY <2>2 DEF LaneOrder, ControlOrder, Genuine, Slot
  <2>4. \A j \in 1..Len(seen) :
          /\ seen[j].lane = "pose" /\ roomPose # None => seen[j].n < roomPose
          /\ seen[j].lane = "objects" /\ roomObjects # None => seen[j].n < roomObjects
          /\ seen[j].lane = "control" => \A x \in 1..Len(inbox) : seen[j].n < inbox[x]
    BY <2>2 DEF LaneOrder, ControlOrder, Slot
  <2>5. \A x, y \in 1..Len(inbox) : x < y => inbox[x] < inbox[y]
    BY <2>2 DEF ControlOrder
  <2>6. \A l, n : /\ Record(l, n).lane = l /\ Record(l, n).n = n
                  /\ Record(l, n).session = session
    BY DEF Record
  <2>7. /\ Len(inbox) \in Nat /\ Before(roomPose) \in {0, 1} /\ Len(seen') \in Nat
        /\ roomPose # None => Before(roomPose) = 1
    BY <1>a, <1>4, PollSeen DEF Before
  <2> HIDE DEF Record
  <2> DEFINE N == Len(seen)
             p == Before(roomPose)
             k == Len(inbox)
             Old(i) == i \in 1..N /\ seen'[i] = seen[i]
             Pose(i) == i = N + 1 /\ roomPose # None /\ seen'[i] = Record("pose", roomPose)
             Ctl(i) == \E x \in 1..k : i = N + p + x /\ seen'[i] = Record("control", inbox[x])
             Obj(i) == /\ i > N + p + k /\ i = Len(seen')
                       /\ roomObjects # None /\ seen'[i] = Record("objects", roomObjects)
  <2>8. \A i \in 1..Len(seen') : Old(i) \/ Pose(i) \/ Ctl(i) \/ Obj(i)
    BY <1>4, <1>a, PollRecords
  <2>9. ASSUME NEW i \in 1..Len(seen'), NEW j \in 1..(i - 1), seen'[j].lane = seen'[i].lane
        PROVE  seen'[j].n < seen'[i].n
    <3>1. j \in 1..Len(seen') /\ j < i /\ j \in Nat /\ i \in Nat
      BY <2>7
    <3>2. CASE Old(i)
      <4>1. j \in 1..N /\ j \in 1..(i - 1) /\ Old(j)
        <5>1. j \in 1..N
          BY <1>a, <3>1, <3>2
        <5> QED
          BY <1>4, <1>a, <5>1, PollSeen
      <4> QED
        BY <1>c, <2>9, <3>2, <4>1
    <3>3. CASE Pose(i)
      <4>1. ~Ctl(j) /\ ~Obj(j) /\ ~Pose(j)
        <5>1. j < N + 1 /\ N \in Nat /\ k \in Nat /\ p \in {0, 1}
          BY <1>a, <2>7, <3>1, <3>3
        <5> HIDE DEF N, p, k
        <5>2. ~(j = N + 1) /\ ~(j > N + p + k) /\ \A x \in 1..k : ~(j = N + p + x)
          BY <3>1, <5>1
        <5> QED
          BY <5>2
      <4>2. Old(j)
        BY <2>8, <3>1, <4>1
      <4> QED
        BY <2>4, <2>6, <2>9, <3>3, <4>2
    <3>4. CASE Ctl(i)
      <4>1. PICK x \in 1..k : i = N + p + x /\ seen'[i] = Record("control", inbox[x])
        BY <3>4
      <4>2. seen'[i].lane = "control" /\ seen'[i].n = inbox[x]
        BY <2>6, <4>1
      <4>3. CASE Old(j)
        BY <2>4, <2>9, <4>2, <4>3
      <4>4. CASE Pose(j) \/ Obj(j)
        <5>1. seen'[j].lane # "control"
          BY <2>6, <4>4
        <5> QED
          BY <2>9, <4>2, <5>1
      <4>5. CASE Ctl(j)
        <5>1. PICK y \in 1..k : j = N + p + y /\ seen'[j] = Record("control", inbox[y])
          BY <4>5
        <5>2. y < x
          BY <1>a, <2>7, <3>1, <4>1, <5>1
        <5>3. seen'[j].n = inbox[y]
          BY <2>6, <5>1
        <5> QED
          BY <2>5, <4>2, <5>2, <5>3
      <4> QED
        BY <2>8, <3>1, <4>3, <4>4, <4>5
    <3>5. CASE Obj(i)
      <4>1. seen'[i].lane = "objects" /\ seen'[i].n = roomObjects /\ roomObjects # None
        BY <2>6, <3>5
      <4>2. CASE Old(j)
        BY <2>4, <2>9, <4>1, <4>2
      <4>3. CASE Pose(j) \/ Ctl(j)
        <5>1. seen'[j].lane # "objects"
          BY <2>6, <4>3
        <5> QED
          BY <2>9, <4>1, <5>1
      <4>4. ~Obj(j)
        BY <3>1, <3>5
      <4> QED
        BY <2>8, <3>1, <4>2, <4>3, <4>4
    <3> QED
      BY <2>8, <3>2, <3>3, <3>4, <3>5
  <2>10. ASSUME NEW i \in 1..Len(seen')
         PROVE  /\ seen'[i].n \in 1..Len(sent) /\ seen'[i].session <= session
                /\ sent[seen'[i].n].lane = seen'[i].lane
                /\ sent[seen'[i].n].session = seen'[i].session
                /\ seen'[i].session = session => sent[seen'[i].n].room = room
    <3>1. CASE Old(i)
      BY <1>c, <3>1
    <3>2. CASE seen'[i].session = session
               /\ SentTo(seen'[i].lane, seen'[i].n, sent, room, session)
      BY <1>a, <3>2 DEF SentTo
    <3>3. CASE Pose(i)
      <4>1. /\ seen'[i].session = session
            /\ SentTo(seen'[i].lane, seen'[i].n, sent, room, session)
        BY <2>3, <2>6, <3>3
      <4> QED
        BY <3>2, <4>1
    <3>4. CASE Ctl(i)
      <4>1. /\ seen'[i].session = session
            /\ SentTo(seen'[i].lane, seen'[i].n, sent, room, session)
        BY <2>3, <2>6, <3>4
      <4> QED
        BY <3>2, <4>1
    <3>5. CASE Obj(i)
      <4>1. /\ seen'[i].session = session
            /\ SentTo(seen'[i].lane, seen'[i].n, sent, room, session)
        BY <2>3, <2>6, <3>5
      <4> QED
        BY <3>2, <4>1
    <3> QED
      BY <2>8, <3>1, <3>3, <3>4, <3>5
  <2> HIDE DEF Old, Pose, Ctl, Obj, N, p, k
  <2> QED
    BY <1>d, <2>1, <2>9, <2>10
<1>5. ASSUME NEW l \in SubLanes, NEW r \in Rooms, Publish(l, r) PROVE Goal
  <2>1. [lane |-> l, room |-> r, session |-> session] \in Messages
    BY <1>a DEF Messages, Lanes
  <2>2. /\ sent' = Append(sent, [lane |-> l, room |-> r, session |-> session])
        /\ UNCHANGED <<seen, session, room>>
    BY <1>5, PublishFacts
  <2> QED
    BY <1>2, <2>1, <2>2
<1>6. ASSUME NEW r \in Rooms, SendControl(r) PROVE Goal
  <2>1. [lane |-> "control", room |-> r, session |-> session] \in Messages
    BY <1>a DEF Messages, Lanes
  <2>2. /\ sent' = Append(sent, [lane |-> "control", room |-> r, session |-> session])
        /\ UNCHANGED <<seen, session, room>>
    BY <1>6 DEF SendControl
  <2> QED
    BY <1>2, <2>1, <2>2
<1>7. CASE LoopHead \/ ReceiveSub \/ SubDrained \/ DeliverAvatar \/ DeliverObject
           \/ ReceiveControl \/ ControlDrained \/ Stop \/ UNCHANGED vars
  <2>1. UNCHANGED <<seen, sent, session, room>>
    BY <1>7 DEF LoopHead, ReceiveSub, SubDrained, DeliverAvatar, DeliverObject,
                ReceiveControl, ControlDrained, Stop, vars
  <2> QED
    BY <1>1, <2>1
<1>8. "pose" \in SubLanes /\ "objects" \in SubLanes
  BY DEF SubLanes
<1> QED
  BY <1>3, <1>4, <1>5, <1>6, <1>7, <1>8 DEF Next, NetNext

-----------------------------------------------------------------------------
(* The control lane.                                                       *)

\* A full inbox gives up its front, and takes the message at its back.
LEMMA QueueFacts ==
    ASSUME Typed, NEW n \in Nat, QueueControl(n)
    PROVE  \E d \in {0, 1} :
             /\ Len(inbox') = Len(inbox) - d + 1 /\ Len(inbox) - d \in Nat
             /\ dropped' = dropped + d
             /\ \A i \in 1..(Len(inbox) - d) : i + d \in 1..Len(inbox) /\ inbox'[i] = inbox[i + d]
             /\ inbox'[Len(inbox) - d + 1] = n
<1>1. /\ inbox \in Seq(Nat) /\ Len(inbox) \in Nat /\ InboxMax \in Nat /\ InboxMax >= 1
      /\ dropped \in Nat
  BY LimitsAssumption DEF Typed
<1>2. CASE Len(inbox) >= InboxMax
  <2>1. inbox' = Append(Tail(inbox), n) /\ dropped' = dropped + 1
    BY <1>2 DEF QueueControl
  <2>2. inbox # <<>>
    BY <1>1, <1>2
  <2>3. /\ Tail(inbox) \in Seq(Nat) /\ Len(Tail(inbox)) = Len(inbox) - 1
        /\ \A i \in 1..(Len(inbox) - 1) : Tail(inbox)[i] = inbox[i + 1]
    BY <1>1, <2>2, HeadTailProperties
  <2>4. /\ Len(inbox') = Len(Tail(inbox)) + 1
        /\ \A i \in 1..Len(Tail(inbox)) : inbox'[i] = Tail(inbox)[i]
        /\ inbox'[Len(Tail(inbox)) + 1] = n
    BY <2>1, <2>3, AppendProperties
  <2> DEFINE k == Len(inbox) - 1
  <2>5. k \in Nat /\ \A i \in 1..k : i + 1 \in 1..Len(inbox)
    BY <1>1, <1>2
  <2>6. /\ Len(inbox') = k + 1
        /\ \A i \in 1..k : i + 1 \in 1..Len(inbox) /\ inbox'[i] = inbox[i + 1]
        /\ inbox'[k + 1] = n
    BY <2>3, <2>4, <2>5
  <2> QED
    BY <2>1, <2>5, <2>6
<1>3. CASE ~(Len(inbox) >= InboxMax)
  <2>1. inbox' = Append(inbox, n) /\ dropped' = dropped
    BY <1>3 DEF QueueControl
  <2>2. /\ Len(inbox') = Len(inbox) + 1
        /\ \A i \in 1..Len(inbox) : inbox'[i] = inbox[i]
        /\ inbox'[Len(inbox) + 1] = n
    BY <1>1, <2>1, AppendProperties
  <2>3. /\ Len(inbox) - 0 = Len(inbox) /\ dropped + 0 = dropped
        /\ \A i \in 1..Len(inbox) : i + 0 = i
    BY <1>1
  <2> QED
    BY <1>1, <2>1, <2>2, <2>3
<1> QED
  BY <1>2, <1>3

\* receive_control takes a message of this room, or nothing.
LEMMA ControlTaken ==
    ASSUME InboundInv, ReceiveControl
    PROVE  \/ UNCHANGED <<inbox, dropped, arrived>>
           \/ /\ Starts(ctlSocket, 1) /\ 1 \in 1..Len(ctlSocket)
              /\ SentTo("control", ctlSocket[1].n, sent, room, session)
              /\ QueueControl(ctlSocket[1].n)
              /\ arrived' = Append(arrived, ctlSocket[1].n)
<1>1. /\ ctlSocket # <<>> /\ ctlSocket \in Seq(Frames) /\ Framed(ctlSocket)
      /\ Stamped(ctlSocket, {"control"}, sent, session) /\ Typed /\ room \in Rooms
  BY DEF ReceiveControl, InboundInv, SocketInv, Typed
<1>2. /\ Taken(ctlSocket) = 2 => /\ Starts(ctlSocket, 1)
                                 /\ ctlSocket[2].n = ctlSocket[1].n
      /\ 1 \in 1..Len(ctlSocket) /\ Head(ctlSocket) = ctlSocket[1]
  BY <1>1, RestFacts
<1>3. CASE ~(Taken(ctlSocket) = 2 /\ Head(ctlSocket).data = room)
  BY <1>3 DEF ReceiveControl
<1>4. CASE Taken(ctlSocket) = 2 /\ Head(ctlSocket).data = room
  <2>1. QueueControl(ctlSocket[2].n) /\ arrived' = Append(arrived, ctlSocket[2].n)
    BY <1>4 DEF ReceiveControl
  <2>2. QueueControl(ctlSocket[1].n) /\ arrived' = Append(arrived, ctlSocket[1].n)
    BY <1>2, <1>4, <2>1
  <2> DEFINE n == ctlSocket[1].n
  <2>3. /\ n \in 1..Len(sent) /\ sent[n].lane = "control" /\ sent[n].session = session
        /\ ctlSocket[1].data = Topic(sent[n].lane, sent[n].room)
    BY <1>1, <1>2, <1>4 DEF Stamped
  <2>4. sent[n].room = room
    BY <1>2, <1>4, <2>3 DEF Topic
  <2> QED
    BY <1>2, <1>4, <2>2, <2>3, <2>4 DEF SentTo
<1> QED
  BY <1>3, <1>4

\* Every action keeps the control lane in order.
LEMMA ControlStep ==
    ASSUME InboundInv, Typed', [Next]_vars
    PROVE  ControlOrder'
<1> USE DEF netVars, socketVars, clientVars
<1> DEFINE s == ctlSocket
<1>a. /\ Typed /\ s \in Seq(Frames) /\ Framed(s) /\ Stamped(s, {"control"}, sent, session)
      /\ Len(s) \in Nat /\ Len(seen) \in Nat /\ Len(sent) \in Nat /\ Len(inbox) \in Nat
      /\ session \in Nat
  BY DEF InboundInv, Typed, SocketInv
<1>b. /\ \A i \in 1..Len(seen) : seen[i].n \in Nat
      /\ \A i \in 1..Len(s) : s[i].n \in Nat
      /\ \A i \in 1..Len(inbox) : inbox[i] \in Nat
  <2>1. seen \in Seq(Records) /\ inbox \in Seq(Nat)
    BY <1>a DEF Typed
  <2>2. \A i \in 1..Len(inbox) : inbox[i] \in Nat
    BY <2>1
  <2> QED
    BY <1>a, <2>1, <2>2, RecordType, FrameType
<1>c. ControlOrder
  BY DEF InboundInv
<1>d. /\ \A i \in 1..Len(inbox) : SentTo("control", inbox[i], sent, room, session)
      /\ \A i, j \in 1..Len(inbox) : i < j => inbox[i] < inbox[j]
  BY <1>c DEF ControlOrder, Genuine
<1>e. \A i \in 1..Len(inbox), j \in 1..Len(seen) :
          seen[j].lane = "control" => seen[j].n < inbox[i]
  BY <1>c DEF ControlOrder
<1>f. \A i \in 1..Len(s) : Starts(s, i) =>
          /\ \A j \in 1..Len(inbox) : inbox[j] < s[i].n
          /\ \A j \in 1..Len(seen) : seen[j].lane = "control" => seen[j].n < s[i].n
  BY <1>c DEF ControlOrder
<1>g. ASSUME \A i \in 1..Len(inbox') : SentTo("control", inbox'[i], sent', room', session'),
             \A i, j \in 1..Len(inbox') : i < j => inbox'[i] < inbox'[j],
             \A i \in 1..Len(inbox'), j \in 1..Len(seen') :
                seen'[j].lane = "control" => seen'[j].n < inbox'[i],
             \A i \in 1..Len(s') : Starts(s', i) =>
                /\ \A j \in 1..Len(inbox') : inbox'[j] < s'[i].n
                /\ \A j \in 1..Len(seen') : seen'[j].lane = "control" => seen'[j].n < s'[i].n
      PROVE  ControlOrder'
  BY <1>g DEF ControlOrder, Genuine
<1>h. \A i \in 1..Len(seen) : seen[i].n \in 1..Len(sent)
  BY DEF InboundInv, SeenSent
<1>1. ASSUME UNCHANGED <<sent, room, session, seen, inbox, ctlSocket>> PROVE ControlOrder'
  <2>1. s' = s
    BY <1>1
  <2> HIDE DEF s
  <2> QED
    BY <1>1, <1>d, <1>e, <1>f, <1>g, <2>1
<1>2. ASSUME NEW r \in Rooms, Rejoin(r) PROVE ControlOrder'
  <2>1. 1..Len(inbox') = {} /\ 1..Len(s') = {}
    BY <1>2 DEF Rejoin
  <2> HIDE DEF s
  <2> QED
    BY <1>g, <2>1
<1>3. CASE Poll
  <2>1. inbox' = <<>> /\ s' = s
    BY <1>3 DEF Poll
  <2>2. 1..Len(inbox') = {}
    BY <2>1
  <2>3. ASSUME NEW j \in 1..Len(seen'), seen'[j].lane = "control"
        PROVE  \/ j \in 1..Len(seen) /\ seen'[j] = seen[j]
               \/ \E x \in 1..Len(inbox) : seen'[j].n = inbox[x]
    <3>1. \A l, n : Record(l, n).lane = l /\ Record(l, n).n = n
      BY DEF Record
    <3>2. \/ j \in 1..Len(seen) /\ seen'[j] = seen[j]
          \/ seen'[j] = Record("pose", roomPose)
          \/ \E x \in 1..Len(inbox) : seen'[j] = Record("control", inbox[x])
          \/ seen'[j] = Record("objects", roomObjects)
      BY <1>3, <1>a, PollRecords
    <3> QED
      BY <2>3, <3>1, <3>2
  <2> HIDE DEF s
  <2>4. \A i \in 1..Len(s) : Starts(s, i) =>
          \A j \in 1..Len(seen') : seen'[j].lane = "control" => seen'[j].n < s[i].n
    BY <1>f, <2>3
  <2> QED
    BY <1>g, <2>1, <2>2, <2>4
<1>4. ASSUME NEW m \in Messages, sent' = Append(sent, m),
             UNCHANGED <<room, session, seen, inbox>>,
             \A i \in 1..Len(s') : Starts(s', i) =>
                \/ \E j \in 1..Len(s) : Starts(s, j) /\ s[j].n = s'[i].n
                \/ s'[i].n = Len(sent) + 1
      PROVE  ControlOrder'
  <2> DEFINE n == Len(sent) + 1
  <2>1. \A x \in 1..Len(sent) : x \in 1..Len(sent') /\ sent'[x] = sent[x]
    BY <1>4, <1>a, SentGrows
  <2>2. \A x \in 1..Len(sent) : x < n
    BY <1>a
  <2>3. \A x : SentTo("control", x, sent, room, session) =>
                  x \in 1..Len(sent) /\ SentTo("control", x, sent', room', session')
    BY <1>4, <2>1 DEF SentTo
  <2> HIDE DEF s, n
  <2>4. /\ \A j \in 1..Len(inbox) : inbox[j] < n
        /\ \A j \in 1..Len(seen) : seen[j].n < n
    BY <1>d, <1>h, <2>2, <2>3
  <2>5. \A i \in 1..Len(s') : Starts(s', i) =>
          /\ \A j \in 1..Len(inbox) : inbox[j] < s'[i].n
          /\ \A j \in 1..Len(seen) : seen[j].lane = "control" => seen[j].n < s'[i].n
    <3>1. \A i \in 1..Len(s') : Starts(s', i) =>
                \/ \E j \in 1..Len(s) : Starts(s, j) /\ s[j].n = s'[i].n
                \/ s'[i].n = n
      BY <1>4 DEF n
    <3> QED
      BY <1>f, <2>4, <3>1
  <2>6. \A i \in 1..Len(inbox) : SentTo("control", inbox[i], sent', room', session')
    BY <1>d, <2>3
  <2> QED
    BY <1>4, <1>d, <1>e, <1>g, <2>5, <2>6
<1>5. ASSUME NEW l \in SubLanes, NEW r \in Rooms, Publish(l, r) PROVE ControlOrder'
  <2>1. [lane |-> l, room |-> r, session |-> session] \in Messages
    BY <1>a DEF Messages, Lanes
  <2>2. /\ sent' = Append(sent, [lane |-> l, room |-> r, session |-> session])
        /\ UNCHANGED <<room, session, seen, inbox>> /\ s' = s
    BY <1>5, PublishFacts
  <2> HIDE DEF s
  <2> QED
    BY <1>4, <2>1, <2>2
<1>6. ASSUME NEW r \in Rooms, SendControl(r) PROVE ControlOrder'
  <2> DEFINE n == Len(sent) + 1
  <2>1. [lane |-> "control", room |-> r, session |-> session] \in Messages
    BY <1>a DEF Messages, Lanes
  <2>2. /\ sent' = Append(sent, [lane |-> "control", room |-> r, session |-> session])
        /\ UNCHANGED <<room, session, seen, inbox>>
    BY <1>6 DEF SendControl
  <2>3. PICK form \in Forms(Topic("control", r), n) : s' = s \o form
    BY <1>6 DEF SendControl, Topic
  <2>4. /\ n \in Nat /\ Topic("control", r) \in Texts /\ \A i \in 1..Len(s) : s[i].n < n
    <3>1. Topic("control", r) \in Texts
      BY TopicFacts DEF Lanes
    <3>2. Len(sent) \in Nat /\ \A i \in 1..Len(s) : s[i].n \in 1..Len(sent)
      BY <1>a DEF Stamped
    <3> HIDE DEF s
    <3> QED
      BY <3>1, <3>2, SMTT(40)
  <2>5. \A i \in 1..Len(s \o form) :
             \/ i \in 1..Len(s) /\ (s \o form)[i] = s[i]
                  /\ (Starts(s \o form, i) <=> Starts(s, i))
             \/ (s \o form)[i].n = n
                  /\ (Starts(s \o form, i) =>
                        (s \o form)[i].data = Topic("control", r) /\ Len(form) > 1)
    <3>1. PICK t \in Texts : t = Topic("control", r)
      BY <2>4
    <3>2. form \in Forms(t, n)
      BY <3>1
    <3> HIDE DEF s, n
    <3>3. \A i \in 1..Len(s \o form) :
             \/ i \in 1..Len(s) /\ (s \o form)[i] = s[i]
                  /\ (Starts(s \o form, i) <=> Starts(s, i))
             \/ (s \o form)[i].n = n
                  /\ (Starts(s \o form, i) => (s \o form)[i].data = t /\ Len(form) > 1)
      BY <1>a, <2>4, <3>2, FormFacts
    <3> QED
      BY <3>1, <3>3
  <2> HIDE DEF s
  <2>6. \A i \in 1..Len(s') : Starts(s', i) =>
                \/ \E j \in 1..Len(s) : Starts(s, j) /\ s[j].n = s'[i].n
                \/ s'[i].n = n
    BY <2>3, <2>5
  <2> QED
    BY <1>4, <2>1, <2>2, <2>6
<1>7. CASE ReceiveControl
  <2>1. s # <<>> /\ s' = Rest(s) /\ UNCHANGED <<sent, room, session, seen>>
    BY <1>7 DEF ReceiveControl
  <2>2. \A j \in 1..Len(Rest(s)) : Starts(Rest(s), j) =>
          \E i \in 1..Len(s) : Starts(s, i) /\ s[i] = Rest(s)[j] /\ s[1].n < s[i].n
    BY <1>a, <2>1, RestFacts
  <2> HIDE DEF s
  <2>3. \A i \in 1..Len(s') : Starts(s', i) =>
          /\ \A j \in 1..Len(inbox) : inbox[j] < s'[i].n
          /\ \A j \in 1..Len(seen) : seen[j].lane = "control" => seen[j].n < s'[i].n
          /\ s[1].n < s'[i].n
    BY <1>f, <2>1, <2>2
  <2>4. CASE UNCHANGED <<inbox, dropped, arrived>>
    BY <1>d, <1>e, <1>g, <2>1, <2>3, <2>4
  <2>5. CASE /\ Starts(s, 1) /\ 1 \in 1..Len(s)
             /\ SentTo("control", s[1].n, sent, room, session)
             /\ QueueControl(s[1].n)
    <3>1. PICK n \in Nat : n = s[1].n
      BY <1>b, <2>5
    <3>2. PICK d \in {0, 1} :
             /\ Len(inbox') = Len(inbox) - d + 1 /\ Len(inbox) - d \in Nat
             /\ \A i \in 1..(Len(inbox) - d) : i + d \in 1..Len(inbox) /\ inbox'[i] = inbox[i + d]
             /\ inbox'[Len(inbox) - d + 1] = n
      <4>1. QueueControl(n)
        BY <2>5, <3>1
      <4> QED
        BY <1>a, <4>1, QueueFacts
    <3> DEFINE q == Len(inbox) - d
    <3>3. \A i \in 1..Len(inbox') : i \in 1..q \/ i = q + 1
      BY <3>2
    <3>4. /\ \A j \in 1..Len(inbox) : inbox[j] < n
          /\ \A j \in 1..Len(seen) : seen[j].lane = "control" => seen[j].n < n
      BY <1>f, <2>5, <3>1
    <3>5. ASSUME NEW i \in 1..Len(inbox'), NEW j \in 1..Len(inbox'), i < j
          PROVE  inbox'[i] < inbox'[j]
      <4>1. i \in 1..q /\ i + d \in 1..Len(inbox) /\ inbox'[i] = inbox[i + d]
        BY <3>2, <3>3, <3>5
      <4>2. CASE j = q + 1
        BY <3>2, <3>4, <4>1, <4>2
      <4>3. CASE j \in 1..q
        <5>1. i + d < j + d
          BY <3>5
        <5> QED
          BY <1>d, <3>2, <4>1, <4>3, <5>1
      <4> QED
        BY <3>3, <4>2, <4>3
    <3> HIDE DEF q
    <3>6. \A i \in 1..Len(inbox') : (\E j \in 1..Len(inbox) : inbox'[i] = inbox[j]) \/ inbox'[i] = n
      BY <3>2, <3>3 DEF q
    <3>7. \A i \in 1..Len(inbox') : SentTo("control", inbox'[i], sent', room', session')
      BY <1>d, <2>1, <2>5, <3>1, <3>6
    <3>8. \A i \in 1..Len(inbox'), j \in 1..Len(seen') :
             seen'[j].lane = "control" => seen'[j].n < inbox'[i]
      BY <1>e, <2>1, <3>4, <3>6
    <3>9. \A i \in 1..Len(s') : Starts(s', i) =>
             /\ \A j \in 1..Len(inbox') : inbox'[j] < s'[i].n
             /\ \A j \in 1..Len(seen') : seen'[j].lane = "control" => seen'[j].n < s'[i].n
      BY <2>1, <2>3, <3>1, <3>6
    <3> QED
      BY <1>g, <3>5, <3>7, <3>8, <3>9
  <2> QED
    BY <1>7, <2>4, <2>5, ControlTaken DEF s
<1>8. CASE LoopHead \/ ReceiveSub \/ SubDrained \/ DeliverAvatar \/ DeliverObject
           \/ ControlDrained \/ Stop \/ UNCHANGED vars
  <2>1. UNCHANGED <<sent, room, session, seen, inbox, ctlSocket>>
    BY <1>8 DEF LoopHead, ReceiveSub, SubDrained, DeliverAvatar, DeliverObject,
                ControlDrained, Stop, vars
  <2> QED
    BY <1>1, <2>1
<1>9. "pose" \in SubLanes /\ "objects" \in SubLanes
  BY DEF SubLanes
<1> QED
  BY <1>2, <1>3, <1>5, <1>6, <1>7, <1>8, <1>9 DEF Next, NetNext

\* What ControlAccounted counts, and the message it never loses.
Handed == {i \in DOMAIN seen : seen[i].lane = "control" /\ seen[i].session = session}
Balanced == Len(arrived) = Cardinality(Handed) + Len(inbox) + dropped
LastKept ==
    arrived # <<>> =>
        \/ \E i \in DOMAIN seen : seen[i].lane = "control" /\ seen[i].n = arrived[Len(arrived)]
        \/ \E i \in DOMAIN inbox : inbox[i] = arrived[Len(arrived)]

\* The property, taken apart.
LEMMA ControlParts == ControlAccounted <=> Balanced /\ LastKept
  BY DEF ControlAccounted, Balanced, LastKept, Handed, HasSeen

\* Every action accounts for the control messages.
LEMMA AccountedStep ==
    ASSUME InboundInv, Typed', [Next]_vars
    PROVE  ControlAccounted'
<1> USE DEF netVars, socketVars, clientVars
<1>a. /\ Typed /\ seen \in Seq(Records) /\ DOMAIN seen = 1..Len(seen) /\ Len(seen) \in Nat
      /\ inbox \in Seq(Nat) /\ DOMAIN inbox = 1..Len(inbox) /\ Len(inbox) \in Nat
      /\ arrived \in Seq(Nat) /\ Len(arrived) \in Nat /\ dropped \in Nat /\ session \in Nat
      /\ DOMAIN seen' = 1..Len(seen') /\ DOMAIN inbox' = 1..Len(inbox')
  BY DEF InboundInv, Typed
<1>b. IsFiniteSet(Handed) /\ Cardinality(Handed) \in Nat
  <2>1. Handed \subseteq 1..Len(seen)
    BY <1>a DEF Handed
  <2>2. IsFiniteSet(1..Len(seen))
    BY <1>a, FS_Interval, 1 \in Int, Len(seen) \in Int
  <2>3. IsFiniteSet(Handed)
    BY <2>1, <2>2, FS_Subset
  <2> QED
    BY <2>3, FS_CardinalityType
<1>c. Balanced /\ LastKept
  BY ControlParts DEF InboundInv
<1>d. ControlAccounted' <=> Balanced' /\ LastKept'
  BY DEF ControlAccounted, Balanced, LastKept, Handed, HasSeen
<1> SUFFICES Balanced' /\ LastKept'
  BY <1>d
<1>1. ASSUME UNCHANGED <<seen, session, inbox, arrived, dropped>> PROVE Balanced' /\ LastKept'
  BY <1>1, <1>c DEF Balanced, LastKept, Handed
<1>2. ASSUME NEW r \in Rooms, Rejoin(r) PROVE Balanced' /\ LastKept'
  <2>1. /\ seen' = seen /\ session' = session + 1 /\ arrived' = <<>> /\ inbox' = <<>>
        /\ dropped' = 0 /\ Len(arrived') = 0 /\ Len(inbox') = 0
    BY <1>2 DEF Rejoin
  <2>2. \A i \in 1..Len(seen) : seen[i].session \in Nat /\ seen[i].session <= session
    BY <1>a, RecordType DEF InboundInv, SeenSent
  <2>3. Handed' = {}
    BY <1>a, <2>1, <2>2 DEF Handed
  <2>4. Cardinality(Handed') = 0
    BY <2>3, FS_EmptySet
  <2> QED
    BY <2>1, <2>4 DEF Balanced, LastKept
<1>3. CASE Poll
  <2>1. inbox' = <<>> /\ Len(inbox') = 0 /\ UNCHANGED <<session, arrived, dropped>>
    BY <1>3 DEF Poll
  <2> DEFINE N == Len(seen)
             p == Before(roomPose)
             k == Len(inbox)
             New == (N + p + 1)..(N + p + k)
  <2>2. /\ Len(seen') = N + p + k + Before(roomObjects)
        /\ \A i \in 1..N : seen'[i] = seen[i]
        /\ \A i \in 1..k : seen'[N + p + i] = Record("control", inbox[i])
        /\ p \in {0, 1} /\ Before(roomObjects) \in {0, 1}
    BY <1>3, <1>a, PollSeen
  <2>3. \A l, n : /\ Record(l, n).lane = l /\ Record(l, n).n = n
                  /\ Record(l, n).session = session
    BY DEF Record
  <2> HIDE DEF Record
  <2>4. ASSUME NEW i PROVE i \in Handed' <=> i \in Handed \/ i \in New
    <3>1. i \in Handed' <=> /\ i \in 1..Len(seen') /\ seen'[i].lane = "control"
                            /\ seen'[i].session = session
      BY <1>a, <2>1 DEF Handed
    <3>2. i \in Handed <=> /\ i \in 1..N /\ seen[i].lane = "control"
                           /\ seen[i].session = session
      BY <1>a DEF Handed
    <3>3. CASE i \in 1..N
      <4>1. i \notin New /\ i \in 1..Len(seen') /\ seen'[i] = seen[i]
        BY <1>a, <2>2, <3>3
      <4> QED
        BY <3>1, <3>2, <3>3, <4>1
    <3>4. CASE i \in New
      <4>1. PICK x \in 1..k : i = N + p + x
        <5>1. i - (N + p) \in 1..k /\ i = N + p + (i - (N + p))
          BY <1>a, <2>2, <3>4
        <5> QED
          BY <5>1
      <4>2. i \in 1..Len(seen')
        BY <1>a, <2>2, <4>1
      <4>3. seen'[i] = Record("control", inbox[x])
        BY <2>2, <4>1
      <4> QED
        BY <2>3, <3>1, <3>4, <4>2, <4>3
    <3>5. CASE i \notin 1..N /\ i \notin New
      <4>1. ASSUME i \in 1..Len(seen'), seen'[i].lane = "control" PROVE FALSE
        <5>1. \/ seen'[i] = Record("pose", roomPose)
              \/ \E x \in 1..k : i = N + p + x
              \/ seen'[i] = Record("objects", roomObjects)
          BY <1>3, <1>a, <3>5, <4>1, PollRecords
        <5>2. \A x \in 1..k : N + p + x \in New
          BY <1>a, <2>2
        <5> QED
          BY <2>3, <3>5, <4>1, <5>1, <5>2
      <4> QED
        BY <3>1, <3>2, <3>5, <4>1
    <3> QED
      BY <3>3, <3>4, <3>5
  <2>5. Handed' = Handed \cup New
    BY <2>4
  <2>6. IsFiniteSet(New) /\ Cardinality(New) = k
    <3>1. N + p + 1 \in Int /\ N + p + k \in Int
      BY <1>a, <2>2
    <3>2. IsFiniteSet(New) /\ Cardinality(New) =
             IF N + p + 1 > N + p + k THEN 0 ELSE (N + p + k) - (N + p + 1) + 1
      BY <3>1, FS_Interval
    <3>3. (IF N + p + 1 > N + p + k THEN 0 ELSE (N + p + k) - (N + p + 1) + 1) = k
      <4>1. N \in Nat /\ p \in Nat /\ k \in Nat
        BY <1>a, <2>2
      <4> QED
        BY <4>1
    <3> QED
      BY <3>2, <3>3
  <2>7. Handed \cap New = {}
    <3>1. \A i \in Handed : i \in 1..N
      BY <1>a DEF Handed
    <3> QED
      BY <1>a, <2>2, <3>1
  <2> HIDE DEF New, p
  <2>8. Cardinality(Handed') = Cardinality(Handed) + k
    <3>1. Cardinality(Handed \cap New) = 0
      BY <2>7, FS_EmptySet
    <3>2. Cardinality(Handed \cup New)
            = Cardinality(Handed) + Cardinality(New) - Cardinality(Handed \cap New)
      BY <1>b, <2>6, FS_Union
    <3> QED
      BY <1>a, <1>b, <2>5, <2>6, <3>1, <3>2
  <2>9. Balanced'
    BY <1>a, <1>b, <1>c, <2>1, <2>8 DEF Balanced
  <2>10. LastKept'
    <3>1. ASSUME NEW i \in DOMAIN seen
          PROVE  i \in DOMAIN seen' /\ seen'[i] = seen[i]
      BY <1>a, <2>2 DEF p
    <3>2. ASSUME NEW x \in DOMAIN inbox
          PROVE  N + p + x \in DOMAIN seen' /\ seen'[N + p + x] = Record("control", inbox[x])
      <4>1. x \in 1..k /\ k \in Nat /\ N \in Nat
        BY <1>a, <3>2
      <4>2. seen'[N + p + x] = Record("control", inbox[x])
        BY <2>2, <4>1
      <4>3. N + p + x \in 1..Len(seen')
        <5> HIDE DEF N, k, p
        <5> QED
          BY <2>2, <4>1
      <4> QED
        BY <1>a, <4>2, <4>3
    <3>3. Record("control", arrived[Len(arrived)]).lane = "control"
          /\ \A x \in DOMAIN inbox : Record("control", inbox[x]).n = inbox[x]
                                   /\ Record("control", inbox[x]).lane = "control"
      BY DEF Record
    <3> HIDE DEF N, k, p
    <3>4. SUFFICES ASSUME arrived # <<>>
                   PROVE  \E i \in DOMAIN seen' : seen'[i].lane = "control"
                                                 /\ seen'[i].n = arrived[Len(arrived)]
      BY <2>1 DEF LastKept
    <3>5. CASE \E i \in DOMAIN seen : seen[i].lane = "control" /\ seen[i].n = arrived[Len(arrived)]
      BY <3>1, <3>5
    <3>6. CASE \E x \in DOMAIN inbox : inbox[x] = arrived[Len(arrived)]
      <4>1. PICK x \in DOMAIN inbox : inbox[x] = arrived[Len(arrived)]
        BY <3>6
      <4> QED
        BY <3>2, <3>3, <4>1
    <3> QED
      BY <1>c, <3>4, <3>5, <3>6 DEF LastKept
  <2> QED
    BY <2>9, <2>10
<1>4. CASE ReceiveControl
  <2>1. UNCHANGED <<seen, session>>
    BY <1>4 DEF ReceiveControl
  <2>2. CASE UNCHANGED <<inbox, dropped, arrived>>
    BY <1>1, <2>1, <2>2
  <2>3. CASE /\ 1 \in 1..Len(ctlSocket) /\ QueueControl(ctlSocket[1].n)
             /\ arrived' = Append(arrived, ctlSocket[1].n)
    <3>1. PICK n \in Nat : n = ctlSocket[1].n
      BY <1>a, <2>3, FrameType DEF Typed
    <3>2. QueueControl(n) /\ arrived' = Append(arrived, n)
      BY <2>3, <3>1
    <3>3. PICK d \in {0, 1} :
             /\ Len(inbox') = Len(inbox) - d + 1 /\ Len(inbox) - d \in Nat
             /\ dropped' = dropped + d
             /\ inbox'[Len(inbox) - d + 1] = n
      BY <1>a, <3>2, QueueFacts
    <3>4. Len(arrived') = Len(arrived) + 1 /\ arrived'[Len(arrived) + 1] = n
      BY <1>a, <3>2, AppendProperties
    <3>5. Handed' = Handed
      BY <2>1 DEF Handed
    <3>6. Balanced'
      BY <1>a, <1>b, <1>c, <3>3, <3>4, <3>5, SMTT(40) DEF Balanced
    <3>7. LastKept'
      <4>1. Len(inbox') \in DOMAIN inbox' /\ inbox'[Len(inbox')] = n
        BY <1>a, <3>3
      <4> QED
        BY <3>4, <4>1 DEF LastKept
    <3> QED
      BY <3>6, <3>7
  <2> QED
    BY <1>4, <2>2, <2>3, ControlTaken
<1>5. ASSUME NEW l, NEW r \in Rooms, Publish(l, r) PROVE Balanced' /\ LastKept'
  <2>1. UNCHANGED <<seen, session, inbox, arrived, dropped>>
    BY <1>5, PublishFacts
  <2> QED
    BY <1>1, <2>1
<1>6. ASSUME NEW r \in Rooms, SendControl(r) PROVE Balanced' /\ LastKept'
  <2>1. UNCHANGED <<seen, session, inbox, arrived, dropped>>
    BY <1>6 DEF SendControl
  <2> QED
    BY <1>1, <2>1
<1>7. CASE LoopHead \/ ReceiveSub \/ SubDrained \/ DeliverAvatar \/ DeliverObject
           \/ ControlDrained \/ Stop \/ UNCHANGED vars
  <2>1. UNCHANGED <<seen, session, inbox, arrived, dropped>>
    BY <1>7 DEF LoopHead, ReceiveSub, SubDrained, DeliverAvatar, DeliverObject,
                ControlDrained, Stop, vars
  <2> QED
    BY <1>1, <2>1
<1> QED
  BY <1>2, <1>3, <1>4, <1>5, <1>6, <1>7 DEF Next, NetNext

-----------------------------------------------------------------------------
(* The theorems.                                                           *)

\* A client that has just connected has received nothing.
LEMMA InboundInit == Init => InboundInv
<1> SUFFICES ASSUME Init PROVE InboundInv
  OBVIOUS
<1>1. /\ room \in Rooms /\ session = 1 /\ stopping = FALSE /\ netPc = "head"
      /\ subSocket = <<>> /\ ctlSocket = <<>> /\ lastAvatar = None /\ lastObject = None
      /\ roomPose = None /\ roomObjects = None /\ inbox = <<>> /\ dropped = 0
      /\ sent = <<>> /\ newest = NoNews /\ arrived = <<>> /\ seen = <<>>
  BY DEF Init
<1>2. \A S : <<>> \in Seq(S)
  OBVIOUS
<1>3. None \in Numbers /\ Len(<<>>) = 0 /\ 1..Len(<<>>) = {} /\ DOMAIN <<>> = {}
      /\ 0 <= InboxMax
  BY LimitsAssumption DEF Numbers
<1>4. newest \in [pose : Numbers, objects : Numbers]
      /\ newest["pose"] = None /\ newest["objects"] = None
  BY <1>1, <1>3 DEF NoNews
<1>5. stopping \in BOOLEAN
  BY <1>1
<1>6. Typed
  BY <1>1, <1>2, <1>3, <1>4, <1>5 DEF Typed
<1>7. SocketInv
  BY <1>1, <1>3 DEF SocketInv, Framed, Stamped
<1>8. LaneInv
  BY <1>1, <1>3, <1>4 DEF LaneInv, LaneOrder, LaneNewest, Held, Slot, SubLanes
<1>9. ControlOrder /\ SeenSent /\ SeenInRoomAndOrder
  BY <1>1, <1>3 DEF ControlOrder, SeenSent, SeenInRoomAndOrder
<1>10. ControlAccounted
  <2>1. Handed = {}
    BY <1>1, <1>3 DEF Handed
  <2>2. Balanced
    BY <1>1, <1>3, <2>1, FS_EmptySet DEF Balanced
  <2>3. LastKept
    BY <1>1 DEF LastKept
  <2> QED
    BY <2>2, <2>3, ControlParts
<1> QED
  BY <1>6, <1>7, <1>8, <1>9, <1>10 DEF InboundInv

\* The inductive invariant holds in every reachable state.
THEOREM InboundInvariant == Spec => []InboundInv
<1>1. Init => InboundInv
  BY InboundInit
<1>2. InboundInv /\ [Next]_vars => InboundInv'
  <2> SUFFICES ASSUME InboundInv, [Next]_vars PROVE InboundInv'
    OBVIOUS
  <2>1. Typed'
    BY TypedStep
  <2>2. SocketInv'
    BY SocketStep
  <2>3. LaneInv'
    BY <2>1, LaneStep DEF LaneInv
  <2>4. ControlOrder' /\ ControlAccounted'
    BY <2>1, ControlStep, AccountedStep
  <2>5. SeenSent' /\ SeenInRoomAndOrder'
    BY <2>1, SeenStep
  <2> QED
    BY <2>1, <2>2, <2>3, <2>4, <2>5 DEF InboundInv
<1> QED
  BY <1>1, <1>2, PTL DEF Spec

\* poll() hands on only what was sent on that lane to the room and in the session
\* it is handed on in, in order and never twice: whatever the rooms are called, and
\* however reconnects, drops and frames of other rooms come between.
THEOREM SeenAlwaysInRoomAndOrder == Spec => []SeenInRoomAndOrder
<1>1. InboundInv => SeenInRoomAndOrder
  BY DEF InboundInv
<1> QED
  BY <1>1, InboundInvariant, PTL

\* The newest pose and the newest objects that reached the SUB socket are never
\* lost on their way through receive_sub, handle_payload and poll().
THEOREM NewestAlwaysDelivered == Spec => []NewestDelivered
<1>1. InboundInv => NewestDelivered
  <2> SUFFICES ASSUME InboundInv, netPc = "head", subSocket = <<>>
               PROVE  /\ newest.pose \in {None, roomPose} \/ HasSeen("pose", newest.pose)
                      /\ newest.objects \in {None, roomObjects}
                           \/ HasSeen("objects", newest.objects)
    BY DEF NewestDelivered
  <2>1. LaneNewest("pose") /\ LaneNewest("objects")
    BY DEF InboundInv, LaneInv, SubLanes
  <2>2. 1..Len(subSocket) = {} /\ ~Undelivered("pose") /\ ~Undelivered("objects")
    BY DEF Undelivered
  <2>3. newest["pose"] # None => \/ roomPose = newest["pose"]
                                 \/ HasSeen("pose", newest["pose"])
    BY <2>1, <2>2 DEF LaneNewest, Slot
  <2>4. newest["objects"] # None => \/ roomObjects = newest["objects"]
                                    \/ HasSeen("objects", newest["objects"])
    BY <2>1, <2>2 DEF LaneNewest, Slot
  <2> QED
    BY <2>3, <2>4
<1> QED
  BY <1>1, InboundInvariant, PTL

\* Every control message that arrived waits in control_inbox_, was handed on or is
\* counted by control_inbox_dropped_, and the newest is never the one dropped.
THEOREM ControlAlwaysAccounted == Spec => []ControlAccounted
<1>1. InboundInv => ControlAccounted
  BY DEF InboundInv
<1> QED
  BY <1>1, InboundInvariant, PTL
=============================================================================
