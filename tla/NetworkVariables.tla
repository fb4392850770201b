-------------------------- MODULE NetworkVariables --------------------------
(***************************************************************************)
(* NetworkVariableManager (src/src/core/network_variable_manager.cpp) with *)
(* the server and the two control channels it talks through.               *)
(*                                                                         *)
(* A key is a global variable or a (client, name) pair; Scope tells which  *)
(* snapshot it travels in.  The manager's maps are functions on the keys,  *)
(* None where a map has no entry.  The code only ever compares the two time *)
(* stamps of a key with the clock, so the model keeps what is left of each: *)
(* nextAllowed and due count down to 0.  Name and value validation is left *)
(* out: it refuses a call without touching any state.                      *)
(*                                                                         *)
(* External: the server applies the sets in the order in which they arrive, *)
(* other clients write there too, and it sends snapshots at any time.      *)
(***************************************************************************)
EXTENDS Integers, Sequences, FiniteSets

CONSTANTS
    Keys,        \* the variables
    Scope,       \* the snapshot a key belongs to
    Global,      \* the scope of the global variables
    Mine,        \* the scope of this client's own variables
    Values,      \* the values the host and other clients use
    None,        \* no value
    MaxVars,     \* kMaxGlobalVars, kMaxClientVars
    Debounce,    \* kDebounceInterval, in clock ticks
    MaxUp,       \* bound: sets queued towards the server
    MaxDown      \* bound: snapshots queued towards the client

ASSUME ScopeAssumption == Scope \in [Keys -> {Scope[k] : k \in Keys}]
ASSUME ScopesDiffer == Global # Mine
ASSUME NoneAssumption == None \notin Values /\ None \notin Nat
ASSUME LimitsAssumption == MaxVars \in Nat /\ Debounce \in Nat /\ Debounce > 0
ASSUME BoundsAssumption == MaxUp \in Nat /\ MaxDown \in Nat

VARIABLES
    cache,       \* globals_ and client_variables_
    lastSent,    \* last_sent_global_, last_sent_client_
    nextAllowed, \* next_allowed_global_, next_allowed_client_: time to go
    pending,     \* pending_global_, pending_client_
    due,         \* due_global_, due_client_: time to go
    up,          \* control packets on their way to the server
    down,        \* snapshots on their way to the manager
    server,      \* the server's values
    \* What an observer sees; no program keeps it.
    intent,      \* the value the host asked for last in this session
    foreign,     \* someone else wrote the server's value last
    lost,        \* the last packet to leave the queue was dropped by its TTL
    dirty        \* the server's value changed after its last snapshot

clientVars == <<cache, lastSent, nextAllowed, pending, due>>
serverVars == <<server, foreign, lost, dirty>>
vars == <<clientVars, up, down, intent, serverVars>>

MaybeValues == Values \cup {None}
InScope(s) == {k \in Keys : Scope[k] = s}
Scopes == {Scope[k] : k \in Keys}

Nothing == [k \in Keys |-> None]
Nowhere == [k \in Keys |-> FALSE]

\* A packet to the server: set a key, or clear this client's own variables.
SetPacket(k, v) == [op |-> "set", key |-> k, value |-> v]
ClearPacket == [op |-> "clear"]
Packets == {SetPacket(k, v) : k \in Keys, v \in Values} \cup {ClearPacket}

About(p, k) ==
    \/ p.op = "set" /\ p.key = k
    \/ p.op = "clear" /\ Scope[k] = Mine
InUp(k) == \E i \in DOMAIN up : About(up[i], k)

Init ==
    /\ cache = Nothing
    /\ lastSent = Nothing
    /\ nextAllowed = [k \in Keys |-> 0]
    /\ pending = Nothing
    /\ due = Nothing
    /\ up = <<>>
    /\ down = <<>>
    /\ server = Nothing
    /\ intent = Nothing
    /\ foreign = Nowhere
    /\ lost = Nowhere
    /\ dirty = Nowhere

-----------------------------------------------------------------------------
(* Sending.                                                                *)

\* try_send_*_now when send_ accepts the packet.
Accept(k, v) ==
    /\ Len(up) < MaxUp
    /\ up' = Append(up, SetPacket(k, v))
    /\ lastSent' = [lastSent EXCEPT ![k] = v]
    /\ nextAllowed' = [nextAllowed EXCEPT ![k] = Debounce]

\* send_ returns false: the outbox is full or the transport is not usable.
Refuse == UNCHANGED <<up, lastSent, nextAllowed>>

Deadline(k, t) == IF due[k] = None THEN t ELSE due[k]

AtLimit(k) ==
    /\ Cardinality({j \in InScope(Scope[k]) : cache[j] # None}) >= MaxVars
    /\ cache[k] = None

\* Mutant: an already sent value leaves an older pending one in place.
DedupeKeepsPending(k, v) ==
    /\ lastSent[k] = v
    /\ UNCHANGED <<lastSent, nextAllowed, pending, due, up>>

\* The value is the last one sent: nothing to do, and an older pending value
\* is cancelled.
Dedupe(k, v) ==
    /\ lastSent[k] = v
    /\ pending' = [pending EXCEPT ![k] = None]
    /\ due' = [due EXCEPT ![k] = None]
    /\ UNCHANGED <<lastSent, nextAllowed, up>>

\* Outside the cooldown: send at once, and keep the value pending as well.
SendNow(k, v) ==
    /\ lastSent[k] # v
    /\ nextAllowed[k] = 0
    /\ Accept(k, v) \/ Refuse
    /\ pending' = [pending EXCEPT ![k] = v]
    /\ due' = [due EXCEPT ![k] = Deadline(k, Debounce)]

\* Inside it: the pending value is replaced, its deadline kept.
Defer(k, v) ==
    /\ lastSent[k] # v
    /\ nextAllowed[k] > 0
    /\ pending' = [pending EXCEPT ![k] = v]
    /\ due' = [due EXCEPT ![k] = Deadline(k, nextAllowed[k])]
    /\ Refuse

SetVariable(k, v) ==
    /\ ~AtLimit(k)
    /\ Dedupe(k, v) \/ SendNow(k, v) \/ Defer(k, v)
    /\ intent' = [intent EXCEPT ![k] = v]
    /\ UNCHANGED <<cache, down, serverVars>>

SetGlobal(k, v) == Scope[k] = Global /\ SetVariable(k, v)
SetClient(k, v) == Scope[k] # Global /\ SetVariable(k, v)

\* What flush_pending_* does with one due entry.
Flush(k) ==
    /\ due[k] = 0 /\ pending[k] # None
    /\ \/ /\ lastSent[k] = pending[k] /\ Refuse
          /\ pending' = [pending EXCEPT ![k] = None]
          /\ due' = [due EXCEPT ![k] = None]
       \/ /\ lastSent[k] # pending[k] /\ Accept(k, pending[k])
          /\ pending' = [pending EXCEPT ![k] = None]
          /\ due' = [due EXCEPT ![k] = None]
       \/ /\ lastSent[k] # pending[k] /\ Refuse
          /\ UNCHANGED <<pending, due>>

\* tick(): the due entries are independent of each other, and one step of this
\* action handles one of them.
Tick(k) ==
    /\ Flush(k)
    /\ UNCHANGED <<cache, down, intent, serverVars>>

\* One tick of the host's clock.
Time ==
    /\ nextAllowed' = [k \in Keys |-> IF nextAllowed[k] = 0 THEN 0
                                      ELSE nextAllowed[k] - 1]
    /\ due' = [k \in Keys |-> IF due[k] \in {None, 0} THEN due[k] ELSE due[k] - 1]
    /\ UNCHANGED <<cache, lastSent, pending, up, down, intent, serverVars>>

-----------------------------------------------------------------------------
(* Clearing.                                                               *)

\* f with the entries of the keys in K removed.
Without(f, K, none) == [k \in Keys |-> IF k \in K THEN none ELSE f[k]]

\* clear_my_client_variables and clear_pending_for_client.
ClearMyClientVariables ==
    /\ Len(up) < MaxUp
    /\ up' = Append(up, ClearPacket)
    /\ LET mine == InScope(Mine) IN
       /\ cache' = Without(cache, mine, None)
       /\ pending' = Without(pending, mine, None)
       /\ due' = Without(due, mine, None)
       /\ lastSent' = Without(lastSent, mine, None)
       /\ nextAllowed' = Without(nextAllowed, mine, 0)
       /\ intent' = Without(intent, mine, None)
    /\ UNCHANGED <<down, serverVars>>

\* clear_all, with the transport and the inbox emptied: the end of a session.
ClearAll ==
    /\ cache' = Nothing
    /\ lastSent' = Nothing
    /\ nextAllowed' = [k \in Keys |-> 0]
    /\ pending' = Nothing
    /\ due' = Nothing
    /\ up' = <<>>
    /\ down' = <<>>
    /\ intent' = Nothing
    /\ dirty' = [k \in Keys |-> TRUE]
    /\ UNCHANGED <<server, foreign, lost>>

-----------------------------------------------------------------------------
(* Receiving.                                                              *)

\* The trailing copy of our own last send is dropped.
Redundant(k) ==
    lastSent[k] # None /\ pending[k] # None /\ pending[k] = lastSent[k]

\* Mutant: the dedupe cache survives a value that someone else has set.
ReconcileGlobalKeeps(m) ==
    LET told == {k \in InScope(Global) : m[k] # None} IN
    /\ LET done == {k \in told : Redundant(k)} IN
       /\ pending' = Without(pending, done, None)
       /\ due' = Without(due, done, None)
    /\ UNCHANGED lastSent

\* handle_global_sync: the send side.  The entries of m are the globals that
\* it names.
ReconcileGlobal(m) ==
    LET told == {k \in InScope(Global) : m[k] # None} IN
    /\ LET done == {k \in told : Redundant(k)} IN
       /\ pending' = Without(pending, done, None)
       /\ due' = Without(due, done, None)
    /\ lastSent' =
         Without(lastSent, {k \in told : lastSent[k] # m[k]}, None)

HandleGlobalSync ==
    /\ down # <<>>
    /\ Head(down).scope = Global
    /\ LET m == Head(down).values IN
       /\ ReconcileGlobal(m)
       /\ cache' = [k \in Keys |->
                      IF Scope[k] = Global /\ m[k] # None THEN m[k] ELSE cache[k]]
    /\ down' = Tail(down)
    /\ UNCHANGED <<nextAllowed, up, intent, serverVars>>

\* handle_client_sync: the block of a client replaces all its variables, and
\* the server's values are taken for the last ones sent.
HandleClientSync ==
    /\ down # <<>>
    /\ Head(down).scope # Global
    /\ LET m == Head(down).values
           block == InScope(Head(down).scope)
           removed == {k \in block : cache[k] # None /\ m[k] = None}
           told == {k \in block : m[k] # None}
           done == {k \in removed : Redundant(k)}
                     \cup {k \in told : pending[k] = m[k]}
       IN  /\ pending' = Without(pending, done, None)
           /\ due' = Without(due, done, None)
           /\ lastSent' = [k \in Keys |-> IF k \in told THEN m[k]
                                         ELSE IF k \in removed THEN None
                                         ELSE lastSent[k]]
           /\ cache' = [k \in Keys |-> IF k \in block THEN m[k] ELSE cache[k]]
    /\ down' = Tail(down)
    /\ UNCHANGED <<nextAllowed, up, intent, serverVars>>

-----------------------------------------------------------------------------
(* The server and the channel, external.                                   *)

\* The oldest packet reaches the server.
ServerApplies ==
    /\ up # <<>>
    /\ LET p == Head(up)
           K == {k \in Keys : About(p, k)}
       IN  /\ server' = [k \in Keys |->
                IF k \notin K THEN server[k]
                ELSE IF p.op = "set" THEN p.value ELSE None]
           /\ foreign' = Without(foreign, K, FALSE)
           /\ lost' = Without(lost, K, FALSE)
           /\ dirty' = Without(dirty, K, TRUE)
    /\ up' = Tail(up)
    /\ UNCHANGED <<clientVars, down, intent>>

\* The oldest packet expires in the transport's outbox (kControlTtlSeconds).
PacketExpires ==
    /\ up # <<>>
    /\ lost' = Without(lost, {k \in Keys : About(Head(up), k)}, TRUE)
    /\ up' = Tail(up)
    /\ UNCHANGED <<clientVars, down, intent, server, foreign, dirty>>

OtherClientSets(k, v) ==
    /\ server[k] # v
    /\ server' = [server EXCEPT ![k] = v]
    /\ foreign' = [foreign EXCEPT ![k] = TRUE]
    /\ dirty' = [dirty EXCEPT ![k] = TRUE]
    /\ UNCHANGED <<clientVars, up, down, intent, lost>>

ServerSyncs(s) ==
    /\ Len(down) < MaxDown
    /\ down' = Append(down, [scope |-> s, values |->
                  [k \in Keys |-> IF Scope[k] = s THEN server[k] ELSE None]])
    /\ dirty' = Without(dirty, InScope(s), FALSE)
    /\ UNCHANGED <<clientVars, up, intent, server, foreign, lost>>

-----------------------------------------------------------------------------

Next ==
    \/ \E k \in Keys, v \in Values : SetGlobal(k, v)
    \/ \E k \in Keys, v \in Values : SetClient(k, v)
    \/ \E k \in Keys : Tick(k)
    \/ Time
    \/ ClearMyClientVariables
    \/ ClearAll
    \/ HandleGlobalSync
    \/ HandleClientSync
    \/ ServerApplies
    \/ PacketExpires
    \/ \E k \in Keys, v \in Values : OtherClientSets(k, v)
    \/ \E s \in Scopes : ServerSyncs(s)

Spec == Init /\ [][Next]_vars

-----------------------------------------------------------------------------
(* Properties.                                                             *)

Snapshots == [scope : Scopes, values : [Keys -> MaybeValues]]

\* Every variable keeps its type, and no variable is blocked for longer than
\* one cooldown (next_allowed_global_, next_allowed_client_).
TypeOK ==
    /\ cache \in [Keys -> MaybeValues]
    /\ lastSent \in [Keys -> MaybeValues]
    /\ nextAllowed \in [Keys -> 0..Debounce]
    /\ pending \in [Keys -> MaybeValues]
    /\ due \in [Keys -> Nat \cup {None}]
    /\ up \in Seq(Packets)
    /\ down \in Seq(Snapshots)
    /\ server \in [Keys -> MaybeValues]
    /\ intent \in [Keys -> MaybeValues]
    /\ foreign \in [Keys -> BOOLEAN]
    /\ lost \in [Keys -> BOOLEAN]
    /\ dirty \in [Keys -> BOOLEAN]

\* Nothing of ours is queued, and ours is the last word on the server.
\* A pending value is safe only with a deadline at most one cooldown away: tick()
\* goes by the deadlines.
Scheduled(k) == pending[k] # None /\ due[k] # None /\ due[k] <= Debounce
Quiet(k) == ~Scheduled(k) /\ ~InUp(k) /\ ~foreign[k] /\ ~lost[k]

IntentKept(k) == intent[k] # None /\ Quiet(k) => server[k] = intent[k]

\* However sets, cooldowns, refused sends and snapshots (stale ones included)
\* interleave, the value a global variable ends up with is the one the host
\* asked for last: set_global's dedupe, handle_global_sync's reconciliation and
\* flush_pending_global lose no intent and revive no older one.
GlobalIntentKept == \A k \in InScope(Global) : IntentKept(k)

\* The same of client variables (set_client, handle_client_sync).
ClientIntentKept == \A k \in Keys : Scope[k] # Global => IntentKept(k)

\* All channels of k are empty and the client has the newest snapshot.
Settled(k) ==
    /\ ~InUp(k) /\ ~lost[k] /\ ~dirty[k]
    /\ \A i \in DOMAIN down : down[i].scope # Scope[k]

\* Once everything is delivered, the dedupe cache can only swallow a set that
\* asks for the value the server has: nothing else the host sets is taken for
\* already sent, whoever wrote the server's value.
DedupeCoherent ==
    \A k \in Keys : Settled(k) =>
        cache[k] = server[k] /\ lastSent[k] \in {None, server[k]}

\* Values of one variable leave at least one cooldown apart ("leading-edge send
\* with a 100 ms cooldown", network_variable_manager.hpp).
CooldownRespected ==
    [][\A k \in Keys, v \in Values :
        up' = Append(up, SetPacket(k, v)) => nextAllowed[k] = 0]_vars
=============================================================================
