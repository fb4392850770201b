--------------------------------- MODULE Rpc ---------------------------------
(***************************************************************************)
(* RpcManager (src/src/core/rpc_manager.cpp): the rate limit, the queue of *)
(* the RPCs fired before the client is ready, their TTL and the flush      *)
(* budget of a poll().                                                     *)
(*                                                                         *)
(* An RPC is the number of its call in the session, and valid when every   *)
(* target fits the wire format.  Times are kept as ages, which stop        *)
(* counting just beyond the longest interval they are compared with, so    *)
(* the clock is not bounded.  The transport is external: it takes a        *)
(* payload or refuses it (module Transport).                               *)
(***************************************************************************)
EXTENDS Integers, Sequences, FiniteSets, FiniteSetsExt

CONSTANTS
    Limits,      \* the rate limits the host configures, 0 for none
    Windows,     \* the windows it configures, in clock ticks
    MaxPending,  \* kMaxPendingRpc
    TTL,         \* kRpcTtlSeconds, in clock ticks
    MaxFlush,    \* kMaxFlushPerTick
    Idle,        \* flush_pending is not running
    MaxRpc       \* bound: RPCs of a session

ASSUME LimitsAssumption == Limits \subseteq Nat /\ Limits # {}
ASSUME WindowsAssumption == Windows \subseteq Nat /\ IsFiniteSet(Windows) /\ Windows # {}
ASSUME QueueAssumption ==
    MaxPending \in Nat /\ TTL \in Nat /\ MaxFlush \in Nat \ {0} /\ MaxRpc \in Nat
ASSUME IdleAssumption == Idle \notin 0..MaxFlush

AgeMax == Max(Windows \cup {TTL}) + 1
Older(a) == IF a < AgeMax THEN a + 1 ELSE AgeMax

VARIABLES
    ready,     \* is_ready()
    limit,     \* rpc_limit_
    window,    \* window_seconds_
    hits,      \* rate_hits_, as ages
    pending,   \* pending_
    flush,     \* sent_this_tick in flush_pending, or Idle
    expired,   \* dropped_expired_, of this session
    overflow,  \* dropped_overflow_, of this session
    \* What an observer sees.
    made,      \* how many RPCs the host has fired in this session
    queued,    \* which of them were queued
    sent,      \* the RPCs the transport has taken, in order
    recent     \* the ages of the sends since the limit was last configured

sessionVars == <<ready, limit, window>>
vars == <<sessionVars, hits, pending, flush, expired, overflow,
          made, queued, sent, recent>>

Entries == [id : 1..MaxRpc, valid : BOOLEAN, age : 0..AgeMax]

Init ==
    /\ ready = FALSE
    /\ limit \in Limits /\ window \in Windows
    /\ hits = <<>> /\ pending = <<>> /\ flush = Idle
    /\ expired = 0 /\ overflow = 0
    /\ made = 0 /\ queued = {} /\ sent = <<>> /\ recent = <<>>

-----------------------------------------------------------------------------
(* try_send_now.                                                           *)

\* Ages without the leading ones beyond w: what popping the front leaves.
Overdue(ages, w) ==
    CHOOSE n \in 0..Len(ages) :
        /\ \A i \in 1..n : ages[i] > w
        /\ n < Len(ages) => ~(ages[n + 1] > w)
Within(ages, w) == SubSeq(ages, Overdue(ages, w) + 1, Len(ages))

\* Mutant: the window closes one tick early.
HitsNowShort == Within(hits, window - 1)

\* try_consume_quota forgets the hits that have left the window.
HitsNow == IF limit = 0 THEN hits ELSE Within(hits, window)

Limited == limit > 0 /\ Len(HitsNow) >= limit

\* Every attempt that passes the limit takes a place in the window, and takes
\* it before it is known whether the RPC can be sent.
Consume == hits' = IF limit = 0 THEN hits ELSE Append(HitsNow, 0)

\* The transport takes the RPC.
Sends(n, valid) ==
    /\ ~Limited /\ valid
    /\ Consume
    /\ sent' = Append(sent, n)
    /\ recent' = Append(recent, 0)

\* The limit, an invalid target or the transport is in the way.
Fails ==
    /\ \/ Limited /\ hits' = HitsNow
       \/ ~Limited /\ Consume
    /\ UNCHANGED <<sent, recent>>

-----------------------------------------------------------------------------
(* The host.                                                               *)

ConfigureRateLimit(l, w) ==
    /\ flush = Idle
    /\ limit' = l /\ window' = w
    /\ recent' = <<>>
    /\ UNCHANGED <<ready, hits, pending, flush, expired, overflow, made, queued, sent>>

\* A queue at its limit drops its oldest entry.
PushPending(e) ==
    IF Len(pending) < MaxPending
    THEN pending' = Append(pending, e) /\ overflow' = overflow
    ELSE pending' = Tail(Append(pending, e)) /\ overflow' = overflow + 1

\* send() before the client is ready.
SendQueued(valid) ==
    /\ flush = Idle /\ made < MaxRpc /\ ~ready
    /\ made' = made + 1
    /\ queued' = queued \cup {made'}
    /\ PushPending([id |-> made', valid |-> valid, age |-> 0])
    /\ UNCHANGED <<sessionVars, hits, flush, expired, sent, recent>>

\* send() by a ready client; what is not sent is gone.
SendNow(valid) ==
    /\ flush = Idle /\ made < MaxRpc /\ ready
    /\ made' = made + 1
    /\ Sends(made', valid) \/ Fails
    /\ UNCHANGED <<sessionVars, pending, flush, expired, overflow, queued>>

\* The session becomes ready, or fails.
ReadyChanges ==
    /\ flush = Idle
    /\ ready' = ~ready
    /\ UNCHANGED <<limit, window, hits, pending, flush, expired, overflow,
                   made, queued, sent, recent>>

\* connect(): clear_pending also empties the window.
ClearPending ==
    /\ flush = Idle
    /\ ready' = FALSE
    /\ hits' = <<>> /\ pending' = <<>>
    /\ expired' = 0 /\ overflow' = 0
    /\ made' = 0 /\ queued' = {} /\ sent' = <<>> /\ recent' = <<>>
    /\ UNCHANGED <<limit, window, flush>>

\* The host's clock advances between two calls: one call sees one time.
Time ==
    /\ flush = Idle
    /\ hits' = [i \in DOMAIN hits |-> Older(hits[i])]
    /\ pending' = [i \in DOMAIN pending |->
                     [pending[i] EXCEPT !.age = Older(@)]]
    /\ recent' = Within([i \in DOMAIN recent |-> Older(recent[i])], AgeMax - 1)
    /\ UNCHANGED <<sessionVars, flush, expired, overflow, made, queued, sent>>

-----------------------------------------------------------------------------
(* flush_pending, which poll() calls: one step for each turn of its loop.  *)

FlushBegin ==
    /\ flush = Idle /\ ready
    /\ pending # <<>>
    /\ flush' = 0
    /\ UNCHANGED <<sessionVars, hits, pending, expired, overflow, made, queued,
                   sent, recent>>

FlushTurn == flush # Idle /\ flush < MaxFlush /\ pending # <<>>

\* Mutant: the TTL is not looked at.
HeadOverdueNever == FALSE

HeadOverdue == Head(pending).age > TTL

FlushExpire ==
    /\ FlushTurn /\ HeadOverdue
    /\ pending' = Tail(pending)
    /\ expired' = expired + 1
    /\ UNCHANGED <<sessionVars, hits, flush, overflow, made, queued, sent, recent>>

FlushSend ==
    /\ FlushTurn /\ ~HeadOverdue
    /\ Sends(Head(pending).id, Head(pending).valid)
    /\ pending' = Tail(pending)
    /\ flush' = flush + 1
    /\ UNCHANGED <<sessionVars, expired, overflow, made, queued>>

\* Mutant: the entry that cannot be sent is dropped.
FlushHoldDrops ==
    /\ FlushTurn /\ ~HeadOverdue
    /\ Fails
    /\ pending' = Tail(pending)
    /\ flush' = Idle
    /\ UNCHANGED <<sessionVars, expired, overflow, made, queued>>

\* The entry is kept, and with it all behind it, until the next poll().
FlushHold ==
    /\ FlushTurn /\ ~HeadOverdue
    /\ Fails
    /\ flush' = Idle
    /\ UNCHANGED <<sessionVars, pending, expired, overflow, made, queued>>

FlushEnd ==
    /\ flush # Idle /\ ~FlushTurn
    /\ flush' = Idle
    /\ UNCHANGED <<sessionVars, hits, pending, expired, overflow, made, queued,
                   sent, recent>>

FlushPending == FlushBegin \/ FlushExpire \/ FlushSend \/ FlushHold \/ FlushEnd

-----------------------------------------------------------------------------

Next ==
    \/ \E l \in Limits, w \in Windows : ConfigureRateLimit(l, w)
    \/ \E valid \in BOOLEAN : SendQueued(valid) \/ SendNow(valid)
    \/ ReadyChanges
    \/ ClearPending
    \/ Time
    \/ FlushBegin \/ FlushExpire \/ FlushSend \/ FlushHold \/ FlushEnd

Spec == Init /\ [][Next]_vars

\* The host polls in every frame, and its clock runs: time passes between two
\* calls, so a flush that keeps coming back does not stop it.
Fairness == WF_vars(FlushPending) /\ SF_vars(Time)

FairSpec == Spec /\ Fairness

-----------------------------------------------------------------------------
(* Properties.                                                             *)

\* Every variable keeps its type, and the queue its limit.
TypeOK ==
    /\ ready \in BOOLEAN
    /\ limit \in Limits /\ window \in Windows
    /\ hits \in Seq(0..AgeMax)
    /\ pending \in Seq(Entries) /\ Len(pending) <= MaxPending
    /\ flush \in {Idle} \cup 0..MaxFlush
    /\ expired \in Nat /\ overflow \in Nat
    /\ made \in 0..MaxRpc
    /\ queued \subseteq 1..made
    /\ sent \in Seq(1..MaxRpc)
    /\ recent \in Seq(0..AgeMax)

\* However direct sends, flushes, refused attempts and lazily forgotten hits
\* alternate, no send leaves more than rpc_limit_ of them in one window (counted
\* from the last change of the limit, and within a session).
RateLimited ==
    limit > 0 => Cardinality({i \in DOMAIN recent : ~(recent[i] > window)}) <= limit

\* The RPCs fired before the client was ready leave in the order in which they
\* were fired, none twice and none ahead of one that still waits, although every
\* poll resumes the queue; and each is sent, waiting, or counted by a drop counter
\* (flush_pending, pending_dropped).
QueuedAccounted ==
    LET flushed == {i \in DOMAIN sent : sent[i] \in queued} IN
    /\ \A i, j \in flushed : i < j => sent[i] < sent[j]
    /\ \A i \in flushed, j \in DOMAIN pending : sent[i] < pending[j].id
    /\ \A i, j \in DOMAIN pending : i < j => pending[i].id < pending[j].id
    /\ Cardinality(queued) = Cardinality(flushed) + Len(pending) + expired + overflow

Waits(n) == \E i \in DOMAIN pending : pending[i].id = n

\* While the client is ready no RPC waits for ever, even behind an entry whose
\* target can never be encoded, under the rate limit, or with a transport that
\* refuses everything: it is sent or expires.
PendingLeaves ==
    \A n \in 1..MaxRpc : (ready /\ Waits(n)) ~> (~ready \/ ~Waits(n))
=============================================================================
