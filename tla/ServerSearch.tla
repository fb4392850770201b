---------------------------- MODULE ServerSearch ----------------------------
(***************************************************************************)
(* Module Discovery beside modules that have a call and a None of their    *)
(* own: its state, what is assumed of its constants and what it promises,  *)
(* for the run that checks it and the proofs about it.                     *)
(***************************************************************************)
EXTENDS Integers, Sequences, FiniteSets

CONSTANTS Servers, Localhost, Entries, Hears, HasCache, MailMax, NoServer,
          MaxStarts

VARIABLES hostCall, searching, shouldStop, pc, sockets, next, mail, found,
          cache, starts, callbacks

searchVars == <<hostCall, searching, shouldStop, pc, sockets, next, mail,
                found, cache, starts, callbacks>>

Search == INSTANCE Discovery
    WITH call <- hostCall, discovering <- searching, None <- NoServer

ASSUME SearchAssumption ==
    Search!ServersAssumption /\ Search!EntriesAssumption /\ Search!LimitsAssumption

\* Module Discovery: on_found_ runs at most once for a start(), and with what a
\* current server advertises, however replies are cut or delayed (probe_tcp,
\* parse_discovery_response, report).
FoundIsGenuine == Search!FoundIsGenuine

\* Module Discovery: the address of a server found on the network is cached, as
\* the protocol document says; the client installs no cache (set_cache).
ResponderCached == Search!ResponderCached

\* Module Discovery: a current server that a socket can reach is found, and
\* stop() returns wherever the thread was (broadcast_round, discovery_loop).
SearchEnds == Search!SearchEnds
=============================================================================
