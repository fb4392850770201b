------------------------------ MODULE Discovery ------------------------------
(***************************************************************************)
(* ServerDiscovery (src/src/transport/server_discovery.cpp): the discovery *)
(* thread, its probes and broadcast rounds, and the host's start and stop. *)
(*                                                                         *)
(* A reply is a sequence of fields, as split() cuts it at '|': a run of    *)
(* digits or a text, the text with the blanks that may follow it.  UDP     *)
(* loses, delays, duplicates and reorders replies, and a socket's buffer   *)
(* holds at most MailMax of them; TCP may hand over a reply cut anywhere.  *)
(***************************************************************************)
EXTENDS Integers, Sequences, FiniteSets

CONSTANTS
    Servers,     \* the servers of the network: ip, version, ports and name
    Localhost,   \* the server on this machine, None when there is none
    Entries,     \* the sequence getifaddrs() returns
    Hears,       \* for an interface: the servers its broadcast reaches
    HasCache,    \* set_cache() was called; nothing in the program calls it
    MailMax,     \* replies a UDP socket's buffer holds
    None,
    MaxStarts    \* bound: calls of start()

Loopback == "127.0.0.1"
Fallback == "0.0.0.0"
Current == "STYLY-NETSYNC3"

ServersAssumption ==
    /\ \A s \in Servers : s.ip \notin {Loopback, None}
    /\ \A s \in Servers \cup ({Localhost} \ {None}) :
         s.version \in STRING /\ s.ports \in [1..4 -> Nat] /\ s.name \in Seq(STRING)
EntriesAssumption ==
    Entries \in Seq([address : STRING, ipv4 : BOOLEAN, up : BOOLEAN,
                     loopback : BOOLEAN])
LimitsAssumption == MailMax \in Nat \ {0} /\ MaxStarts \in Nat

VARIABLES
    call,        \* the host is "idle" or in stop(), "joining"
    discovering, \* discovering_
    shouldStop,  \* should_stop_
    pc,          \* where the thread is; "off" when not joinable
    sockets,     \* discovery_loop: the interfaces of its sockets, in order
    next,        \* broadcast_round: the socket it reads next
    mail,        \* what each socket's buffer holds: sender and message
    found,       \* what report() was called with, None before
    cache,       \* what cache_reader_() returns
    \* What the host sees; the code keeps none of it.
    starts,      \* calls of start()
    callbacks    \* on_found_ calls of this start

thread == <<pc, sockets, next, found>>
history == <<starts, callbacks>>
vars == <<call, discovering, shouldStop, thread, mail, cache, history>>

Interfaces == {Entries[i].address : i \in DOMAIN Entries} \cup {Fallback}
Empty == [i \in Interfaces |-> <<>>]

Init ==
    /\ call = "idle"
    /\ discovering = FALSE
    /\ shouldStop = FALSE
    /\ pc = "off"
    /\ sockets = <<>>
    /\ next = 1
    /\ mail = Empty
    /\ found = None
    /\ cache \in IF HasCache THEN {s.ip : s \in Servers} \cup {None} ELSE {None}
    /\ starts = 0
    /\ callbacks = <<>>

-----------------------------------------------------------------------------
(* Replies.                                                                *)

Digits(n) == [digits |-> n]
Text(t) == [text |-> t, blanks |-> FALSE]
IsDigits(f) == "digits" \in DOMAIN f

\* External: a server's reply; over TCP a newline follows the name.
Reply(s, newline) ==
    <<Text(s.version)>> \o [i \in 1..4 |-> Digits(s.ports[i])]
        \o [i \in 1..Len(s.name) |->
                [Text(s.name[i]) EXCEPT !.blanks = newline /\ i = Len(s.name)]]

\* What one recv() of a TCP stream may return: the reply up to any byte.  The
\* empty text stands for a text cut anywhere, and for a field cut before its
\* first byte.
CutField(f) ==
    {f, Text("")} \cup (IF IsDigits(f) THEN {Digits(f.digits \div 10)} ELSE {})
Cuts(m) ==
    UNION {{SubSeq(m, 1, k - 1) \o <<f>> : f \in CutField(m[k])} :
           k \in DOMAIN m}

parse_port(f) == IsDigits(f) /\ f.digits <= 65535

rstrip(m) ==
    [i \in DOMAIN m |-> IF IsDigits(m[i]) \/ i < Len(m) THEN m[i]
                        ELSE [m[i] EXCEPT !.blanks = FALSE]]

\* Mutant: one field too few is accepted.
ParseFiveFields(m, ip) ==
    LET parts == rstrip(m) IN
    IF /\ Len(parts) >= 5
       /\ parts[1] = Text(Current)
       /\ \A i \in 2..5 : parse_port(parts[i])
    THEN [ip |-> ip, ports |-> [i \in 1..4 |-> parts[i + 1].digits],
          name |-> SubSeq(parts, 6, Len(parts))]
    ELSE None

\* parse_discovery_response: None when it returns false.
parse_discovery_response(m, ip) ==
    LET parts == rstrip(m) IN
    IF /\ Len(parts) >= 6
       /\ parts[1] = Text(Current)
       /\ \A i \in 2..5 : parse_port(parts[i])
    THEN [ip |-> ip, ports |-> [i \in 1..4 |-> parts[i + 1].digits],
          name |-> SubSeq(parts, 6, Len(parts))]
    ELSE None

\* enumerate_local_interfaces: IPv4, up and not loopback, by their place in the
\* system's order.
enumerate_local_interfaces ==
    {i \in DOMAIN Entries : Entries[i].ipv4 /\ Entries[i].up /\ ~Entries[i].loopback}

-----------------------------------------------------------------------------
(* The host.                                                               *)

\* start() refuses while the thread runs, or has ended and is not joined.
Start ==
    /\ call = "idle"
    /\ ~discovering
    /\ pc = "off"
    /\ starts < MaxStarts
    /\ starts' = starts + 1
    /\ shouldStop' = FALSE
    /\ discovering' = TRUE
    /\ pc' = "local"
    /\ callbacks' = <<>>
    /\ found' = None
    /\ UNCHANGED <<call, sockets, next, mail, cache>>

\* stop() raises its flags; the join waits unless there is no thread.
Stop ==
    /\ call = "idle"
    /\ shouldStop' = TRUE
    /\ discovering' = FALSE
    /\ call' = IF pc = "off" THEN "idle" ELSE "joining"
    /\ UNCHANGED <<thread, mail, cache, history>>

\* The join returns.
StopJoin ==
    /\ call = "joining"
    /\ pc = "done"
    /\ pc' = "off"
    /\ call' = "idle"
    /\ UNCHANGED <<discovering, shouldStop, sockets, next, found, mail, cache,
                   history>>

-----------------------------------------------------------------------------
(* The thread.                                                             *)

\* probe_tcp reads a server's reply, whole or cut; None for a failed probe.
Probed(s) == {parse_discovery_response(m, s.ip) : m \in Cuts(Reply(s, TRUE))}
ProbeOf(ip) ==
    {None} \cup UNION {Probed(s) : s \in {t \in Servers : t.ip = ip}}

\* After a failed probe the thread looks at should_stop_.
GoOn(where) == pc' = IF shouldStop THEN "done" ELSE where

\* The probe of 127.0.0.1.
ProbeLocal ==
    /\ pc = "local"
    /\ \/ found' = None
       \/ Localhost # None /\ found' \in Probed(Localhost)
    /\ IF found' # None THEN pc' = "announce" ELSE GoOn("cached")
    /\ UNCHANGED <<call, discovering, shouldStop, sockets, next, mail, cache,
                   history>>

\* The probe of the last known server, if there is one.
ProbeCached ==
    /\ pc = "cached"
    /\ found' \in IF cache = None THEN {None} ELSE ProbeOf(cache)
    /\ IF found' # None THEN pc' = "remember" ELSE GoOn("open")
    /\ UNCHANGED <<call, discovering, shouldStop, sockets, next, mail, cache,
                   history>>

InOrder(places) ==
    {f \in [1..Cardinality(places) -> places] :
        \A i, j \in DOMAIN f : i < j => f[i] < f[j]}

\* A socket for every interface it can be opened and bound on, in the system's
\* order; if there is none, one unbound socket, which may fail too.
OpenSockets ==
    /\ pc = "open"
    /\ \E ok \in SUBSET Interfaces :
         LET bound == {i \in enumerate_local_interfaces : Entries[i].address \in ok}
         IN \/ /\ bound # {}
               /\ \E order \in InOrder(bound) :
                    sockets' = [i \in 1..Cardinality(bound) |->
                                  Entries[order[i]].address]
            \/ /\ bound = {}
               /\ sockets' = IF Fallback \in ok THEN <<Fallback>> ELSE <<>>
    /\ mail' = Empty
    /\ pc' = "round"
    /\ UNCHANGED <<call, discovering, shouldStop, next, found, cache, history>>

\* The head of the loop, and the sends that open a round.
Broadcast ==
    /\ pc = "round"
    /\ pc' = IF shouldStop \/ ~discovering THEN "done" ELSE "recv"
    /\ next' = 1
    /\ UNCHANGED <<call, discovering, shouldStop, sockets, found, mail, cache,
                   history>>

\* External: a reply of a server that heard a broadcast reaches a socket.
ReplyArrives(i, s) ==
    /\ pc = "recv"
    /\ i \in {sockets[j] : j \in DOMAIN sockets}
    /\ s \in Hears[i]
    /\ Len(mail[i]) < MailMax
    /\ mail' = [mail EXCEPT ![i] =
                  Append(@, [ip |-> s.ip, message |-> Reply(s, FALSE)])]
    /\ UNCHANGED <<call, discovering, shouldStop, thread, cache, history>>

\* should_stop_ is raised between two sockets: the round returns.
RecvStopped ==
    /\ pc = "recv"
    /\ next <= Len(sockets)
    /\ shouldStop
    /\ pc' = "done"
    /\ UNCHANGED <<call, discovering, shouldStop, sockets, next, found, mail,
                   cache, history>>

\* recvfrom times out.
RecvNothing ==
    /\ pc = "recv"
    /\ next <= Len(sockets)
    /\ ~shouldStop
    /\ mail[sockets[next]] = <<>>
    /\ next' = next + 1
    /\ UNCHANGED <<call, discovering, shouldStop, pc, sockets, found, mail,
                   cache, history>>

\* Mutant: a reply that does not parse ends the round as if it did.
RecvReplyGivesUp ==
    /\ pc = "recv"
    /\ next <= Len(sockets)
    /\ ~shouldStop
    /\ mail[sockets[next]] # <<>>
    /\ LET m == Head(mail[sockets[next]])
       IN found' = parse_discovery_response(m.message, m.ip)
    /\ mail' = [mail EXCEPT ![sockets[next]] = Tail(@)]
    /\ pc' = IF found' # None THEN "remember" ELSE "done"
    /\ UNCHANGED <<call, discovering, shouldStop, sockets, next, cache, history>>

\* One datagram is read from a socket: reported, or ignored.
RecvReply ==
    /\ pc = "recv"
    /\ next <= Len(sockets)
    /\ ~shouldStop
    /\ mail[sockets[next]] # <<>>
    /\ LET m == Head(mail[sockets[next]])
       IN found' = parse_discovery_response(m.message, m.ip)
    /\ mail' = [mail EXCEPT ![sockets[next]] = Tail(@)]
    /\ IF found' # None THEN pc' = "remember" /\ UNCHANGED next
                        ELSE next' = next + 1 /\ UNCHANGED pc
    /\ UNCHANGED <<call, discovering, shouldStop, sockets, cache, history>>

\* All sockets have been read; the thread sleeps for broadcast_interval.
Sleep ==
    /\ pc = "recv"
    /\ next > Len(sockets)
    /\ pc' = "round"
    /\ UNCHANGED <<call, discovering, shouldStop, sockets, next, found, mail,
                   cache, history>>

\* report() of a server on the network: its ip goes to the cache first, if there
\* is one.
ReportCache ==
    /\ pc = "remember"
    /\ cache' = IF HasCache THEN found.ip ELSE cache
    /\ pc' = "announce"
    /\ UNCHANGED <<call, discovering, shouldStop, sockets, next, found, mail,
                   history>>

\* report(): discovering_ falls, on_found_ runs, and the thread ends.
ReportFound ==
    /\ pc = "announce"
    /\ discovering' = FALSE
    /\ callbacks' = Append(callbacks, found)
    /\ pc' = "done"
    /\ UNCHANGED <<call, shouldStop, sockets, next, found, mail, cache, starts>>

ThreadNext ==
    /\ pc # "off"
    /\ \/ ProbeLocal \/ ProbeCached \/ OpenSockets
       \/ Broadcast \/ RecvStopped \/ RecvNothing \/ RecvReply \/ Sleep
       \/ ReportCache \/ ReportFound

Next ==
    \/ Start \/ Stop \/ StopJoin
    \/ ThreadNext
    \/ \E i \in Interfaces, s \in Servers : ReplyArrives(i, s)

Spec == Init /\ [][Next]_vars

\* A server whose reply this client accepts.
Compatible(s) == s.version = Current /\ \A i \in 1..4 : s.ports[i] <= 65535

GoodReply ==
    /\ pc = "recv"
    /\ \E i \in Interfaces : \E s \in Hears[i] :
         Compatible(s) /\ ReplyArrives(i, s)

\* The scheduler runs the thread, and a join whose thread has ended returns.
\* External: when current servers are asked again and again, an answer of one
\* gets through now and then, whatever the other servers send.
Fairness ==
    /\ WF_vars(ThreadNext)
    /\ WF_vars(StopJoin)
    /\ SF_vars(GoodReply)

FairSpec == Spec /\ Fairness

-----------------------------------------------------------------------------
(* Properties.                                                             *)

Found == {callbacks[i] : i \in DOMAIN callbacks}

\* on_found_ runs at most once for a start(), however late the answer came
\* ("once, and discovery then stops", server_discovery.hpp), and what it is
\* given is what a current server advertises at that address: a reply of an
\* older server, and a TCP reply that was cut anywhere, give nothing or the
\* right ports.  Only the name may be cut (parse_discovery_response, probe_tcp).
FoundIsGenuine ==
    /\ Len(callbacks) <= 1
    /\ \A f \in Found : \E s \in Servers \cup ({Localhost} \ {None}) :
        /\ Compatible(s)
        /\ f.ip = s.ip
        /\ f.ports = s.ports
        /\ \E n \in 1..Len(s.name) : \E last \in {s.name[n], ""} :
             f.name = [i \in 1..n |-> Text(IF i < n THEN s.name[i] ELSE last)]

\* Not so, because no code of the client calls set_cache: "On success the
\* responder's IP is cached" (docs/PROTOCOL_V8.md, section 7), except that of
\* this machine, so that the next search probes it first.
ResponderCached == \A f \in Found : f.ip \in {Loopback, cache}

Reachable ==
    \E i \in DOMAIN sockets : \E s \in Hears[sockets[i]] : Compatible(s)

\* Discovery ends.  A current server that a socket can reach is found, however
\* many replies of other servers come first; and stop() returns, wherever the
\* thread was when it was called (broadcast_round, discovery_loop).
SearchEnds ==
    call = "joining" \/ (pc = "round" /\ Reachable)
        ~> call = "idle" /\ (pc = "off" \/ callbacks # <<>>)
=============================================================================
