------------------------------ MODULE MCSession ------------------------------
(***************************************************************************)
(* The session, module Session, and the search for a server that it starts *)
(* and of which it sees only the outcome, module Discovery.  A behaviour   *)
(* moves one and leaves the other where it starts; nothing that fairness   *)
(* speaks of is enabled there.  The network has an old, a current and a    *)
(* faulty server, the current one behind the second interface only.        *)
(***************************************************************************)
EXTENDS Session, ServerSearch

Server(ip, version, rest, name) ==
    [ip |-> ip, version |-> version, ports |-> <<5555, 5557, 5556, rest>>,
     name |-> name]

OldServer == Server("old", "STYLY-NETSYNC2", 80, <<"lab">>)
NewServer == Server("new", "STYLY-NETSYNC3", 65535, <<"lab", "2">>)
BadServer == Server("bad", "STYLY-NETSYNC3", 65536, <<"lab">>)

AllServers == {OldServer, NewServer, BadServer}
OnThisMachine == Server("127.0.0.1", "STYLY-NETSYNC3", 80, <<"local">>)

Entry(address, ipv4, up, loopback) ==
    [address |-> address, ipv4 |-> ipv4, up |-> up, loopback |-> loopback]

AllEntries ==
    <<Entry("127.0.0.1", TRUE, TRUE, TRUE), Entry("eth", TRUE, TRUE, FALSE),
      Entry("ppp", TRUE, FALSE, FALSE), Entry("ip6", FALSE, TRUE, FALSE),
      Entry("wifi", TRUE, TRUE, FALSE)>>

HearsAll ==
    [i \in {"127.0.0.1", "eth", "ppp", "ip6", "wifi", "0.0.0.0"} |->
        CASE i = "eth" -> {OldServer, BadServer}
          [] i = "wifi" -> {OldServer, NewServer}
          [] i = "0.0.0.0" -> {NewServer}
          [] OTHER -> {}]

SearchAtRest == starts = 0 /\ ~shouldStop /\ cache = NoServer
SessionAtRest == call = Idle /\ state = "disconnected" /\ epoch = 0 /\ ~discStop

ConnectInit == Init /\ Search!Init

SessionMoves(step) == SearchAtRest /\ step /\ UNCHANGED searchVars
SearchMoves(step) == SessionAtRest /\ step /\ UNCHANGED vars

SessionNext ==
    \/ \E way \in Ways : SessionMoves(Connect(way))
    \/ SessionMoves(Disconnect) \/ SessionMoves(JoinDiscovery)
    \/ SessionMoves(StopTransport) \/ SessionMoves(JoinTransport)
    \/ SessionMoves(ConnectByAddress) \/ SessionMoves(ConnectByDiscovery)
    \/ SessionMoves(ConnectNowhere) \/ SessionMoves(FinishDisconnect)
    \/ SessionMoves(PollBegin) \/ SessionMoves(PollNote)
    \/ SessionMoves(PollNotesDone) \/ SessionMoves(PollHello)
    \/ SessionMoves(PollPayload) \/ SessionMoves(PollPayloadsDone)
    \/ SessionMoves(PollReady) \/ SessionMoves(HostSends) \/ SessionMoves(Time)
    \/ SessionMoves(DiscFound) \/ SessionMoves(DiscMiss)
    \/ SessionMoves(NetOpen) \/ SessionMoves(NetFail) \/ SessionMoves(NetReport)
    \/ SessionMoves(NetSend) \/ SessionMoves(NetExpire)
    \/ SessionMoves(NetReceive) \/ SessionMoves(NetStopped)
    \/ SessionMoves(ServerAnswers) \/ SessionMoves(ServerSends)

SearchNext ==
    \/ SearchMoves(Search!Start) \/ SearchMoves(Search!Stop)
    \/ SearchMoves(Search!StopJoin) \/ SearchMoves(Search!ProbeLocal)
    \/ SearchMoves(Search!ProbeCached) \/ SearchMoves(Search!OpenSockets)
    \/ SearchMoves(Search!Broadcast) \/ SearchMoves(Search!RecvStopped)
    \/ SearchMoves(Search!RecvNothing) \/ SearchMoves(Search!RecvReply)
    \/ SearchMoves(Search!Sleep) \/ SearchMoves(Search!ReportCache)
    \/ SearchMoves(Search!ReportFound)
    \/ \E i \in Search!Interfaces, s \in Servers :
          SearchMoves(Search!ReplyArrives(i, s))

ConnectNext == SessionNext \/ SearchNext

ConnectSpec == ConnectInit /\ [][ConnectNext]_<<vars, searchVars>>

FairConnectSpec == ConnectSpec /\ Fairness /\ Search!Fairness
=============================================================================
