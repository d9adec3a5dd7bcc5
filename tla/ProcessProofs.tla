---------------------------- MODULE ProcessProofs ---------------------------
(***************************************************************************)
(* Proofs about Process, for every configuration, every list of interfaces *)
(* and every order of packets, failures and steps of the worker.           *)
(***************************************************************************)
EXTENDS Process, FiniteSetTheorems, SequenceTheorems, TLAPS

\* The table-index trigger has connected to no address that LocalPort::query lists.
SessionsAreOthers == \A p \in sessions : ~ExistIp(p)

\* Once the manager is stopped the loop is told to break and stays told, except while
\* exit() is between the two; then its packet is still the first of the batch.  Only
\* a stopped manager is deleted.
StopInv ==
    /\ stopFlg => loopbreak \/ pc \in {"notify", "dead"}
    /\ pc = "notify" => stopFlg /\ batch # <<>>
    /\ tm = "freed" => stopFlg
-----------------------------------------------------------------------------
\* The interfaces stay as they are.
LEMMA InterfacesStay ==
    ASSUME [Next]_vars
    PROVE  ifs' = ifs
BY DEF Next, vars, mainVars, Startup, LoadConfig, InitFramework, QueryPorts, QueryIps, AddConn, Wire,
       AddUdpServer, AddTcpServer, Udp, DiscoveryTick, DiscoveryTickFaults, PeerAnswers, RecvUdp,
       RecvUdpFaults, Tcp, TcpAccept, TcpAcceptFaults, ReadCb, Callback,
         RecvTcp, RecvNoSocket, RecvIgnored, NotInitialised, RecvGet, RecvReply, RecvExit, ExitGoesOn, ManagerFreed,
         Ending, LoopStarts, LoopEnds, Return, Worker, WorkerLoop, WorkerCrashes, TaskCopies, TaskSends

\* A session is opened to the sender of a HELLO_ACK only, and not if its address
\* is listed.
LEMMA NewSession ==
    ASSUME [Next]_vars
    PROVE  \A p \in sessions' : p \in sessions \/ ~ExistIp(p)
<1>1. ASSUME NEW m \in inbox, RecvUdp(m)
      PROVE  \A p \in sessions' : p \in sessions \/ ~ExistIp(p)
  BY <1>1 DEF RecvUdp, HandleHelloAck, ReqTbIdxAdd
<1>2. CASE UNCHANGED sessions
  BY <1>2
<1>3. \/ UNCHANGED sessions
      \/ \E m \in inbox : RecvUdp(m)
  BY DEF Next, vars, loopVars, Startup, LoadConfig, InitFramework, QueryPorts, QueryIps, AddConn, Wire,
         AddUdpServer, AddTcpServer, Udp, DiscoveryTick, DiscoveryTickFaults, PeerAnswers,
         RecvUdpFaults, Tcp, TcpAccept, TcpAcceptFaults, ReadCb, Callback,
         RecvTcp, RecvNoSocket, RecvIgnored, NotInitialised, RecvGet, RecvReply, RecvExit, ExitGoesOn, ManagerFreed,
         Ending, LoopStarts, LoopEnds, Return, Worker, WorkerLoop, WorkerCrashes, TaskCopies, TaskSends
<1> QED
  BY <1>1, <1>2, <1>3

\* The node connects to no address of its own, as long as LocalPort::query lists
\* all its interfaces: recv_udp drops what comes from a listed address, also the
\* answers to the HELLOs that the node hears itself.
THEOREM NoOwnSession == Spec => []NoSessionWithItself
<1>1. Init => SessionsAreOthers
  BY DEF Init, SessionsAreOthers
<1>2. SessionsAreOthers /\ [Next]_vars => SessionsAreOthers'
  BY InterfacesStay, NewSession DEF SessionsAreOthers, ExistIp, LocalPorts
<1>3. SessionsAreOthers => NoSessionWithItself
  BY DEF SessionsAreOthers, NoSessionWithItself, ExistIp, OwnIp
<1> QED
  BY <1>1, <1>2, <1>3, PTL DEF Spec
-----------------------------------------------------------------------------
\* A stopped manager stays stopped, and exit() goes on to break the loop.
LEMMA StopInvStep ==
    ASSUME StopInv, [Next]_vars
    PROVE  StopInv'
<1>1. CASE /\ UNCHANGED <<tm, stopFlg, loopbreak>>
           /\ UNCHANGED <<pc, batch>> \/ (pc \notin {"notify", "dead"} /\ pc' # "notify") \/ pc' = "dead"
  <2>1. stopFlg' => loopbreak' \/ pc' \in {"notify", "dead"}
    BY <1>1 DEF StopInv
  <2> QED
    BY <1>1, <2>1 DEF StopInv
<1>2. CASE LoopStarts
  BY <1>2 DEF StopInv, LoopStarts, taskVars
<1>3. CASE RecvExit
  BY <1>3 DEF StopInv, RecvExit, RecvTcp, AtPacket, StopFlag, loopVars
<1>4. CASE ManagerFreed
  BY <1>4 DEF StopInv, ManagerFreed, RecvTcp, AtPacket, UsesFreed, WorkerExits, Shutdown, Cleanup, taskVars
<1>5. CASE RecvReply
  BY <1>5 DEF StopInv, RecvReply, RecvTcp, AtPacket, AddTask
<1>6. CASE WorkerLoop
  BY <1>6 DEF StopInv, WorkerLoop, WorkerGoesOn, WorkerSleeps, WorkerTakes, WorkerExits, loopVars
<1>7. CASE AddUdpServer \/ AddTcpServer
  BY <1>7 DEF StopInv, AddUdpServer, AddTcpServer, ServerFails, Shutdown, Cleanup, taskVars
<1>8. CASE ExitGoesOn
  BY <1>8 DEF StopInv, ExitGoesOn, NotifyAll, UsesFreed, Shutdown, Cleanup, taskVars
<1>9. CASE Startup
  <2>1. CASE LoadConfig \/ InitFramework \/ QueryPorts \/ QueryIps \/ Wire
    BY <1>1, <2>1 DEF LoadConfig, InitFramework, QueryPorts, QueryIps, Wire, loopVars, taskVars
  <2>2. CASE AddConn
    <3>1. pc \in {"add_ports", "add_ips"} /\ pc' \in {pc, "dead"} /\ UNCHANGED <<tm, stopFlg, loopbreak>>
      BY <2>2 DEF AddConn, ConnectWithUdp, ConnectWithUdpFails, UsesFreed, loopVars, taskVars
    <3> QED
      BY <1>1, <3>1
  <2> QED
    BY <1>7, <1>9, <2>1, <2>2 DEF Startup
<1>10. CASE Udp \/ Tcp
  <2>1. UNCHANGED <<tm, stopFlg, loopbreak>> /\ pc = "dispatch" /\ pc' \in {"dispatch", "dead"}
    BY <1>10 DEF Udp, DiscoveryTick, DiscoveryTickFaults, PeerAnswers, RecvUdp, RecvUdpFaults, Tcp, TcpAccept,
                 TcpAcceptFaults, ReadCb, InLoop, NoSocket, Dies, UsesFreed, loopVars, taskVars
  <2> QED
    BY <1>1, <2>1
<1>11. CASE RecvNoSocket \/ RecvIgnored \/ NotInitialised \/ RecvGet
  <2>1. UNCHANGED <<tm, stopFlg, loopbreak>> /\ pc = "dispatch" /\ pc' \in {"dispatch", "dead"}
    BY <1>11 DEF RecvNoSocket, RecvIgnored, NotInitialised, RecvGet, RecvTcp, AtPacket, NoSocket, Dies,
                 loopVars, taskVars
  <2> QED
    BY <1>1, <2>1
<1>12. CASE LoopEnds \/ Return
  BY <1>1, <1>12 DEF LoopEnds, Return, FreeTriggers, loopVars, taskVars
<1>13. CASE WorkerCrashes \/ TaskCopies \/ TaskSends
  BY <1>1, <1>13 DEF WorkerCrashes, TaskCopies, TaskSends, Dies, loopVars, taskVars
<1>14. CASE UNCHANGED vars
  BY <1>1, <1>14 DEF vars, loopVars, taskVars
<1> QED
  BY <1>2, <1>3, <1>4, <1>5, <1>6, <1>8, <1>9, <1>10, <1>11, <1>12, <1>13, <1>14
  DEF Next, Callback, Ending, Worker

\* The steps that may record a fault.
LEMMA FaultySteps ==
    ASSUME [Next]_vars
    PROVE  \/ UNCHANGED faults
           \/ AddConn \/ DiscoveryTickFaults \/ RecvUdpFaults \/ TcpAcceptFaults \/ RecvNoSocket
           \/ NotInitialised \/ ExitGoesOn \/ ManagerFreed \/ Return \/ WorkerCrashes \/ TaskSends
BY DEF Next, vars, Startup, LoadConfig, InitFramework, QueryPorts, QueryIps, Wire, AddUdpServer,
       AddTcpServer, Udp, DiscoveryTick, PeerAnswers, RecvUdp, Tcp, TcpAccept, ReadCb, Callback, RecvIgnored,
       RecvGet, RecvReply, RecvExit, Ending, LoopStarts, LoopEnds, Worker, WorkerLoop, TaskCopies

\* No other step reaches for the deleted manager.
LEMMA OtherFaults ==
    ASSUME [Next]_vars, ~ManagerFreed, ~ExitGoesOn
    PROVE  "manager" \in faults' => "manager" \in faults
<1>1. ASSUME NEW f \in {"no_descriptor", "container", "null_client", "not_initialised", "empty_vector",
                        "null_session", "event_of_a_freed_base"},
             faults' = faults \cup {f}
      PROVE  "manager" \in faults' => "manager" \in faults
  BY <1>1
<1>2. CASE UNCHANGED faults
  BY <1>2
<1>3. CASE AddConn
  BY <1>1, <1>2, <1>3 DEF AddConn, ConnectWithUdp, ConnectWithUdpFails, UsesFreed
<1>4. CASE DiscoveryTickFaults \/ RecvUdpFaults \/ TcpAcceptFaults \/ RecvNoSocket \/ NotInitialised
  BY <1>1, <1>4 DEF DiscoveryTickFaults, RecvUdpFaults, TcpAcceptFaults, RecvNoSocket, NotInitialised, NoSocket,
                    Dies, UsesFreed
<1>5. CASE Return
  BY <1>1, <1>5 DEF Return, FreeTriggers
<1>6. CASE WorkerCrashes \/ TaskSends
  BY <1>1, <1>2, <1>6 DEF WorkerCrashes, TaskSends, Dies
<1>7. \/ UNCHANGED faults
      \/ AddConn \/ DiscoveryTickFaults \/ RecvUdpFaults \/ TcpAcceptFaults \/ RecvNoSocket \/ NotInitialised
      \/ Return \/ WorkerCrashes \/ TaskSends
  BY FaultySteps
<1> QED
  BY <1>2, <1>3, <1>4, <1>5, <1>6, <1>7

\* SyncService::exit stops the manager and breaks the loop in one callback, so the
\* manager that the worker deletes once it sees the flag is reached for within that
\* callback only, by stop() itself or by the packets behind the EXIT, whatever order
\* the two threads run in.
THEOREM FreedManagerExit == Spec => FreedManagerNeedsExit
<1>1. Init => StopInv
  BY DEF Init, TaskInit, StopInv
<1>2. StopInv /\ [Next]_vars => StopInv'
  BY StopInvStep
<1>3. StopInv /\ [Next]_vars =>
          [("manager" \in faults' \ faults)
              => (stopFlg /\ batch # <<>> /\ (pc = "notify" \/ loopbreak))]_vars
  <2> SUFFICES ASSUME StopInv, [Next]_vars, "manager" \in faults' \ faults
               PROVE  stopFlg /\ batch # <<>> /\ (pc = "notify" \/ loopbreak)
    OBVIOUS
  <2>1. CASE ManagerFreed
    BY <2>1 DEF ManagerFreed, RecvTcp, AtPacket, WorkerExits, StopInv
  <2>2. CASE ExitGoesOn
    BY <2>2 DEF ExitGoesOn, StopInv
  <2> QED
    BY <2>1, <2>2, OtherFaults
<1> QED
  BY <1>1, <1>2, <1>3, PTL DEF Spec, FreedManagerNeedsExit
-----------------------------------------------------------------------------
\* The clients of the discovery trigger.

DiscoverAddrs(p) ==
    {DiscoverAddr(p, QueryList(p, KEY_DISCOVER_IPS)[k]) : k \in 1 .. Len(QueryList(p, KEY_DISCOVER_IPS))}

Broadcasts == {[ip |-> ifs[k].broad, port |-> DiscoverPort(properties)] : k \in LocalPorts}

\* The colon is the second of three tokens.
LEMMA FindColon ==
    ASSUME NEW a, NEW p
    PROVE  Find(<<Ip(a), Colon, Num(p)>>, Colon) = 2
<1>1. PICK s : s = <<Ip(a), Colon, Num(p)>>
  OBVIOUS
<1>2. Len(s) = 3 /\ s[1] = Ip(a) /\ s[2] = Colon /\ s[3] = Num(p)
  BY <1>1
<1>3. Ip(a) # Colon /\ Num(p) # Colon
  BY DEF Ip, Num, Colon
<1>4. {j \in 1 .. Len(s) : s[j] = Colon} = {2}
  BY <1>2, <1>3
<1>5. Min({2}) = 2
  BY DEF Min
<1> QED
  BY <1>1, <1>4, <1>5 DEF Find, SelectInSeq

LEMMA SubSeqOne ==
    ASSUME NEW S, NEW s \in Seq(S), NEW k \in 1 .. Len(s)
    PROVE  SubSeq(s, k, k) = <<s[k]>>
<1>1. PICK r : r = SubSeq(s, k, k)
  OBVIOUS
<1>2. r \in Seq(S) /\ Len(r) = 1 /\ r[1] = s[k]
  <2>1. k \in Nat /\ Len(s) \in Nat /\ k <= Len(s)
    OBVIOUS
  <2>2. r \in Seq(S)
    BY <1>1, <2>1, SubSeqProperties
  <2>3. Len(r) = 1
    BY <1>1, <2>1, SubSeqProperties
  <2>4. r[1] = s[k]
    BY <1>1, <2>1, SubSeqProperties
  <2> QED
    BY <2>2, <2>3, <2>4
<1>3. r = [j \in 1 .. 1 |-> s[k]]
  <2>1. DOMAIN r = 1 .. Len(r) /\ r = [j \in DOMAIN r |-> r[j]]
    BY <1>2
  <2> QED
    BY <1>2, <2>1
<1>4. <<s[k]>> = [j \in 1 .. 1 |-> s[k]]
  OBVIOUS
<1> QED
  BY <1>1, <1>3, <1>4

\* atoi reads a number.
LEMMA NumberRead ==
    ASSUME NEW n
    PROVE  AToI(<<Num(n)>>) = n
<1>1. PICK r : r = <<Num(n)>>
  OBVIOUS
<1>2. Len(r) = 1 /\ r[1] = Num(n) /\ Num(n) # Space
  BY <1>1 DEF Num, Space
<1>3. {j \in 1 .. Len(r) : r[j] # Space} = {1}
  BY <1>2
<1>4. Min({1}) = 1
  BY DEF Min
<1>5. SubSeq(r, 1, 1) = <<r[1]>>
  <2>1. r \in Seq({Num(n)}) /\ 1 \in 1 .. Len(r)
    BY <1>1
  <2> QED
    BY <2>1, SubSeqOne
<1>6. SubSeq(r, 1, Len(r)) = r
  BY <1>1, <1>2, <1>5
<1>7. SkipSpaces(r) = r
  <2>1. FindNonSpace(r) = 1
    BY <1>3, <1>4 DEF FindNonSpace, SelectInSeq
  <2> QED
    BY <1>6, <2>1 DEF SkipSpaces
<1>8. r[1][1] = "number" /\ r[1][2] = n /\ r # <<>>
  BY <1>1 DEF Num
<1> QED
  BY <1>1, <1>7, <1>8 DEF AToI

\* An address with its port is read as it was written.
LEMMA PortRead ==
    ASSUME NEW a, NEW n \in 0 .. PortMod - 1
    PROVE  NewNetAddr(<<Ip(a), Colon, Num(n)>>) = [ip |-> a, port |-> n]
<1>1. PICK s : s = <<Ip(a), Colon, Num(n)>>
  OBVIOUS
<1>2. Len(s) = 3 /\ s[1] = Ip(a) /\ s[3] = Num(n) /\ Find(s, Colon) = 2
  BY <1>1, FindColon
<1>3. s \in Seq({Ip(a), Colon, Num(n)})
  BY <1>1
<1>4. SubSeq(s, 1, 2 - 1) = <<Ip(a)>> /\ SubSeq(s, 2 + 1, Len(s)) = <<Num(n)>>
  <2>1. SubSeq(s, 1, 1) = <<s[1]>> /\ SubSeq(s, 3, 3) = <<s[3]>>
    BY <1>2, <1>3, SubSeqOne
  <2>2. 2 - 1 = 1 /\ 2 + 1 = 3
    OBVIOUS
  <2> QED
    BY <1>2, <2>1, <2>2
<1>5. InetAton(<<Ip(a)>>) = a
  BY DEF InetAton, Ip
<1>6. AToI(<<Num(n)>>) = n
  BY NumberRead
<1>7. NewNetAddr(s) = SetPort([ip |-> a, port |-> 0], n)
  <2>1. Find(s, Colon) # 0 /\ Find(s, Colon) # 1
    BY <1>2
  <2>2. SubSeq(s, 1, Find(s, Colon) - 1) = <<Ip(a)>> /\ SubSeq(s, Find(s, Colon) + 1, Len(s)) = <<Num(n)>>
    BY <1>2, <1>4
  <2> QED
    BY <1>5, <1>6, <2>1, <2>2, Zenon DEF NewNetAddr
<1>8. n % PortMod = n
  BY PortModAssumption
<1>9. SetPort([ip |-> a, port |-> 0], n) = [ip |-> a, port |-> n]
  BY <1>8 DEF SetPort
<1> QED
  BY <1>1, <1>7, <1>9

\* An address without a port is read with port 0.
LEMMA IpRead ==
    ASSUME NEW a
    PROVE  NewNetAddr(<<Ip(a)>>) = [ip |-> a, port |-> 0]
<1>1. PICK s : s = <<Ip(a)>>
  OBVIOUS
<1>2. Len(s) = 1 /\ s[1] = Ip(a) /\ Ip(a) # Colon
  BY <1>1 DEF Ip, Colon
<1>3. {j \in 1 .. Len(s) : s[j] = Colon} = {}
  BY <1>2
<1>4. Find(s, Colon) = 0
  BY <1>3 DEF Find, SelectInSeq
<1>5. InetAton(s) = a
  BY <1>1 DEF InetAton, Ip
<1>6. AToI(<<>>) = 0
  <2>1. PICK e : e = <<>>
    OBVIOUS
  <2>2. Len(e) = 0 /\ {j \in 1 .. Len(e) : e[j] # Space} = {}
    BY <2>1
  <2>3. FindNonSpace(e) = 0
    BY <2>2 DEF FindNonSpace, SelectInSeq
  <2>4. SkipSpaces(e) = <<>>
    BY <2>3 DEF SkipSpaces
  <2> QED
    BY <2>1, <2>4 DEF AToI
<1>7. NewNetAddr(s) = SetPort([ip |-> a, port |-> 0], 0)
  <2>1. Find(s, Colon) # 1
    BY <1>4
  <2> QED
    BY <1>4, <1>5, <1>6, <2>1, Zenon DEF NewNetAddr
<1>8. 0 % PortMod = 0
  BY PortModAssumption
<1> QED
  BY <1>1, <1>7, <1>8 DEF SetPort

\* An address survives the way through its text.
LEMMA TextRoundTrip ==
    ASSUME NEW a
    PROVE  FromBe([ip |-> a, port |-> 0]) = [ip |-> a, port |-> 0]
<1>1. 0 \in 0 .. PortMod - 1
  BY PortModAssumption
<1> QED
  BY <1>1, PortRead DEF FromBe, Str

\* main() reads a piece of the list as the address it stands for: the default port
\* is filled in where none is written, and only there.
LEMMA PieceRead ==
    ASSUME NEW p, DiscoverPort(p) \in 0 .. PortMod - 1,
           NEW S, NEW a \in [ip : S, port : 0 .. PortMod - 1],
           NEW piece, WrittenAs(piece, a, DiscoverPort(p))
    PROVE  DiscoverAddr(p, piece) = a
<1>1. a = [ip |-> a.ip, port |-> a.port] /\ a.port \in 0 .. PortMod - 1
  OBVIOUS
<1>2. CASE piece = <<Ip(a.ip), Colon, Num(a.port)>> /\ a.port # 0
  <2>1. NewNetAddr(piece) = a
    BY <1>1, <1>2, PortRead
  <2> QED
    BY <1>2, <2>1 DEF DiscoverAddr
<1>3. CASE piece = <<Ip(a.ip)>> /\ a.port = DiscoverPort(p)
  <2>1. NewNetAddr(piece) = [ip |-> a.ip, port |-> 0]
    BY <1>3, IpRead
  <2>2. a.port % PortMod = a.port
    BY <1>1, PortModAssumption
  <2>3. SetPort([ip |-> a.ip, port |-> 0], DiscoverPort(p)) = a
    BY <1>1, <1>3, <2>2 DEF SetPort
  <2> QED
    BY <2>1, <2>3 DEF DiscoverAddr
<1> QED
  BY <1>2, <1>3 DEF WrittenAs

\* The addresses main() makes of a good file are the wanted ones.
LEMMA ListRead ==
    ASSUME NEW c, SaysWhatIsWanted(c),
           NEW p, p = PropertiesParse(c.lines)
    PROVE  DiscoverAddrs(p) = c.wanted
<1> DEFINE list == QueryList(p, KEY_DISCOVER_IPS)
           S == {a.ip : a \in c.wanted} \ {INADDR_ANY}
<1>1. /\ DiscoverPort(p) \in 0 .. PortMod - 1
      /\ c.wanted \subseteq [ip : S, port : 0 .. PortMod - 1]
      /\ \A k \in 1 .. Len(list) : \E a \in c.wanted : WrittenAs(list[k], a, DiscoverPort(p))
      /\ \A a \in c.wanted : \E k \in 1 .. Len(list) : WrittenAs(list[k], a, DiscoverPort(p))
  BY DEF SaysWhatIsWanted
<1>2. DiscoverAddrs(p) = {DiscoverAddr(p, list[k]) : k \in 1 .. Len(list)}
  BY DEF DiscoverAddrs
<1> HIDE DEF list, S
<1>3. ASSUME NEW k \in 1 .. Len(list), NEW a \in c.wanted, WrittenAs(list[k], a, DiscoverPort(p))
      PROVE  DiscoverAddr(p, list[k]) = a
  <2>1. a \in [ip : S, port : 0 .. PortMod - 1]
    BY <1>1
  <2> QED
    BY <1>1, <1>3, <2>1, PieceRead
<1> QED
  BY <1>1, <1>2, <1>3

AllAddrs == Broadcasts \cup cfg.wanted

\* What main() has made of the configuration, and what is left to do, in each of
\* its stages.
ClientsInv ==
    /\ pc \notin {"load", "dead"} => rsm /\ properties = PropertiesParse(cfg.lines)
    /\ \A a \in DOMAIN conns : conns[a] # "null"
    /\ todo \in Seq(AllAddrs)
    /\ pc \in {"load", "init", "ports"} => DOMAIN conns = {} /\ todo = <<>>
    /\ pc = "add_ports" => DOMAIN conns \cup Range(todo) = Broadcasts
    /\ pc = "add_ips" => DOMAIN conns \cup Range(todo) = AllAddrs
    /\ pc \notin {"load", "init", "ports", "add_ports", "add_ips", "dead"} => DOMAIN conns = AllAddrs

\* The node is one of the inputs; a container was freed by a failure only; the
\* loop ends when the manager was stopped.
NodeInv ==
    /\ \E n \in Nodes : cfg = n.cfg /\ ifs = n.ifs
    /\ failures \in Nat
    /\ \A a \in DOMAIN conns : conns[a] = "freed" => failures > 0
    /\ pc \in {"loop_ended", "returned"} => stopFlg

ProcessInv == NodeInv /\ StopInv /\ (cfg.good => ClientsInv)

LEMMA GoodFile ==
    ASSUME GoodFiles, NodeInv, cfg.good, properties = PropertiesParse(cfg.lines)
    PROVE  /\ cfg.found /\ Query(properties, KEY_RESOURCE_HOME) # <<>>
           /\ Len(QueryList(properties, KEY_DISCOVER_IPS)) \in Nat
           /\ DiscoverAddrs(properties) = cfg.wanted
           /\ \A a \in AllAddrs : a.ip # INADDR_ANY
           /\ DiscoverPort(properties) \in 0 .. PortMod - 1
<1>1. SaysWhatIsWanted(cfg)
  BY DEF GoodFiles, NodeInv
<1>2. \A a \in Broadcasts : a.ip # INADDR_ANY
  BY DEF Broadcasts, LocalPorts, INADDR_ANY
<1>3. \A a \in cfg.wanted : a.ip # INADDR_ANY
  BY <1>1 DEF SaysWhatIsWanted
<1>4. DiscoverAddrs(properties) = cfg.wanted
  BY <1>1, ListRead
<1> QED
  BY <1>1, <1>2, <1>3, <1>4 DEF SaysWhatIsWanted, AllAddrs

\* The interfaces, in their order, give every broadcast address once.
LEMMA PortsListed ==
    ASSUME NodeInv, DiscoverPort(properties) \in 0 .. PortMod - 1,
           NEW ports \in [1 .. Cardinality(LocalPorts) -> LocalPorts],
           \A j, k \in DOMAIN ports : j < k => ports[j] < ports[k],
           NEW s, s = [k \in DOMAIN ports |->
                          SetPort(FromBe([ip |-> ifs[ports[k]].broad, port |-> 0]), DiscoverPort(properties))]
    PROVE  s \in Seq(Broadcasts) /\ Range(s) = Broadcasts
<1>1. ifs \in Seq(Range(ifs))
  BY NodesAssumption DEF NodeInv
<1>2. IsFiniteSet(LocalPorts) /\ Cardinality(LocalPorts) \in Nat /\ LocalPorts \subseteq Nat
  <2>1. Len(ifs) \in Nat
    BY <1>1
  <2>2. IsFiniteSet(1 .. Len(ifs)) /\ LocalPorts \subseteq 1 .. Len(ifs)
    BY <2>1, FS_Interval DEF LocalPorts
  <2>3. IsFiniteSet(LocalPorts)
    BY <2>2, FS_Subset
  <2>4. Cardinality(LocalPorts) \in Nat
    BY <2>3, FS_CardinalityType
  <2> QED
    BY <2>1, <2>2, <2>3, <2>4
<1>3. PICK n \in Nat : n = Cardinality(LocalPorts)
  BY <1>2
<1>4. ports \in Injection(1 .. n, LocalPorts)
  <2>1. ASSUME NEW j \in 1 .. n, NEW k \in 1 .. n, ports[j] = ports[k] PROVE j = k
    <3>1. ports[j] \in Nat /\ ports[k] \in Nat
      BY <1>2, <1>3
    <3>2. ~(j < k) /\ ~(k < j)
      BY <1>3, <2>1, <3>1
    <3> QED
      BY <3>2
  <2> QED
    BY <1>3, <2>1 DEF Injection, IsInjective
<1>5. Cardinality(1 .. n) = n
  BY FS_Interval
<1>6. ports \in Surjection(1 .. n, LocalPorts)
  BY <1>2, <1>3, <1>4, <1>5, FS_Injection
<1>7. ASSUME NEW k \in LocalPorts
      PROVE  SetPort(FromBe([ip |-> ifs[k].broad, port |-> 0]), DiscoverPort(properties)) =
                 [ip |-> ifs[k].broad, port |-> DiscoverPort(properties)]
  <2>1. PICK b : b = ifs[k].broad
    OBVIOUS
  <2>2. FromBe([ip |-> b, port |-> 0]) = [ip |-> b, port |-> 0]
    BY TextRoundTrip
  <2>3. DiscoverPort(properties) % PortMod = DiscoverPort(properties)
    BY PortModAssumption
  <2> QED
    BY <2>1, <2>2, <2>3 DEF SetPort
<1>8. \A k \in 1 .. n : s[k] = [ip |-> ifs[ports[k]].broad, port |-> DiscoverPort(properties)]
  BY <1>3, <1>7
<1>9. DOMAIN s = 1 .. n /\ \A k \in 1 .. n : ports[k] \in LocalPorts
  BY <1>3
<1>10. s \in [1 .. n -> Broadcasts]
  <2>1. \A k \in 1 .. n : s[k] \in Broadcasts
    BY <1>8, <1>9 DEF Broadcasts
  <2>2. s = [k \in 1 .. n |-> s[k]]
    BY <1>9
  <2> QED
    BY <2>1, <2>2
<1>11. Broadcasts \subseteq Range(s)
  <2> SUFFICES ASSUME NEW k \in LocalPorts
               PROVE  [ip |-> ifs[k].broad, port |-> DiscoverPort(properties)] \in Range(s)
    BY DEF Broadcasts
  <2>1. PICK j \in 1 .. n : ports[j] = k
    BY <1>6 DEF Surjection
  <2> QED
    BY <1>8, <1>9, <2>1 DEF Range
<1>12. Range(s) \subseteq Broadcasts
  BY <1>10 DEF Range
<1> QED
  BY <1>10, <1>11, <1>12, SeqDef

\* The steps of main() up to the servers.
LEMMA LoadClients ==
    ASSUME GoodFiles, ProcessInv, cfg.good, LoadConfig \/ InitFramework
    PROVE  ClientsInv'
<1>1. pc \in {"load", "init"} /\ pc' \in {"init", "ports"} /\ UNCHANGED <<cfg, ifs, todo, conns>>
  BY DEF LoadConfig, InitFramework
<1>2. DOMAIN conns' = {} /\ todo' = <<>>
  BY <1>1 DEF ProcessInv, ClientsInv
<1>3. rsm' /\ properties' = PropertiesParse(cfg.lines)
  <2>1. CASE LoadConfig
    <3>1. SaysWhatIsWanted(cfg)
      BY DEF GoodFiles, ProcessInv, NodeInv
    <3>2. properties' = PropertiesParse(cfg.lines)
      BY <2>1, <3>1 DEF LoadConfig, SaysWhatIsWanted
    <3>3. Query(properties', KEY_RESOURCE_HOME) # <<>>
      BY <3>1, <3>2 DEF SaysWhatIsWanted
    <3> QED
      BY <2>1, <3>2, <3>3 DEF LoadConfig, ResourceInit
  <2>2. CASE InitFramework
    BY <2>2 DEF InitFramework, ProcessInv, ClientsInv
  <2> QED
    BY <2>1, <2>2
<1>4. todo' \in Seq(AllAddrs')
  BY <1>2
<1> QED
  BY <1>1, <1>2, <1>3, <1>4 DEF ClientsInv

LEMMA SeqWider ==
    ASSUME NEW S, NEW T, S \subseteq T, NEW s \in Seq(S)
    PROVE  s \in Seq(T)
OBVIOUS

LEMMA PortsClients ==
    ASSUME GoodFiles, ProcessInv, cfg.good, QueryPorts
    PROVE  ClientsInv'
<1>1. pc = "ports" /\ pc' = "add_ports" /\ UNCHANGED <<cfg, ifs, properties, rsm, conns>>
  BY DEF QueryPorts
<1>2. rsm /\ properties = PropertiesParse(cfg.lines) /\ DOMAIN conns = {} /\ NodeInv
  BY <1>1 DEF ProcessInv, ClientsInv
<1>3. DiscoverPort(properties) \in 0 .. PortMod - 1
  BY <1>2, GoodFile
<1>4. todo' \in Seq(Broadcasts) /\ Range(todo') = Broadcasts
  BY <1>2, <1>3, PortsListed DEF QueryPorts
<1>5. Broadcasts' = Broadcasts /\ AllAddrs' = AllAddrs /\ Broadcasts \subseteq AllAddrs
  BY <1>1 DEF Broadcasts, AllAddrs, LocalPorts
<1>6. todo' \in Seq(AllAddrs)
  BY <1>4, <1>5, SeqWider
<1> QED
  BY <1>1, <1>2, <1>4, <1>5, <1>6 DEF ClientsInv

LEMMA IpsClients ==
    ASSUME GoodFiles, ProcessInv, cfg.good, QueryIps
    PROVE  ClientsInv'
<1>1. /\ pc = "add_ports" /\ pc' = "add_ips" /\ todo = <<>>
      /\ UNCHANGED <<cfg, ifs, properties, rsm, conns>>
  BY DEF QueryIps
<1>2. rsm /\ properties = PropertiesParse(cfg.lines) /\ NodeInv
  BY <1>1 DEF ProcessInv, ClientsInv
<1>3. DOMAIN conns = Broadcasts
  <2>1. Range(todo) = {}
    BY <1>1 DEF Range
  <2> QED
    BY <1>1, <2>1 DEF ProcessInv, ClientsInv
<1>4. PICK list : list = QueryList(properties, KEY_DISCOVER_IPS)
  OBVIOUS
<1>5. todo' = [k \in 1 .. Len(list) |-> DiscoverAddr(properties, list[k])]
  BY <1>4 DEF QueryIps
<1>6. cfg.wanted = {DiscoverAddr(properties, list[k]) : k \in 1 .. Len(list)}
  BY <1>2, <1>4, GoodFile DEF DiscoverAddrs
<1>7. Range(todo') = cfg.wanted /\ todo' \in [1 .. Len(list) -> cfg.wanted]
  BY <1>5, <1>6 DEF Range
<1>8. Broadcasts' = Broadcasts /\ AllAddrs' = AllAddrs
  BY <1>1 DEF Broadcasts, AllAddrs, LocalPorts
<1>9. todo' \in Seq(AllAddrs)
  <2>1. Len(list) \in Nat
    BY <1>2, <1>4, GoodFile
  <2>2. todo' \in Seq(cfg.wanted)
    BY <1>7, <2>1, SeqDef
  <2> QED
    BY <2>2, SeqWider DEF AllAddrs
<1> QED
  BY <1>1, <1>2, <1>3, <1>7, <1>8, <1>9 DEF ClientsInv, AllAddrs, ProcessInv

\* addConn takes the first address off the list and has a client for it.
LEMMA AddClients ==
    ASSUME GoodFiles, ProcessInv, cfg.good, AddConn
    PROVE  ClientsInv'
<1>1. /\ pc \in {"add_ports", "add_ips"} /\ pc' \in {pc, "dead"} /\ todo # <<>> /\ todo' = Tail(todo)
      /\ UNCHANGED <<cfg, ifs, properties, rsm>>
  BY DEF AddConn, ConnectWithUdp, ConnectWithUdpFails, UsesFreed
<1>2. rsm /\ properties = PropertiesParse(cfg.lines) /\ NodeInv /\ todo \in Seq(AllAddrs)
  BY <1>1 DEF ProcessInv, ClientsInv
<1>3. PICK addr : addr = Head(todo)
  OBVIOUS
<1>4. addr \in AllAddrs /\ addr.ip # INADDR_ANY /\ Tail(todo) \in Seq(AllAddrs)
  BY <1>1, <1>2, <1>3, GoodFile
<1>5. Range(todo) = {addr} \cup Range(Tail(todo))
  <2>1. ASSUME NEW x \in Range(todo) PROVE x = addr \/ x \in Range(Tail(todo))
    <3>1. PICK k \in 1 .. Len(todo) : x = todo[k]
      BY <1>2, <2>1 DEF Range
    <3>2. CASE k = 1
      BY <1>1, <1>2, <1>3, <3>1, <3>2
    <3>3. CASE k # 1
      <4>1. Len(Tail(todo)) = Len(todo) - 1
        BY <1>1, <1>2
      <4>2. k - 1 \in 1 .. Len(Tail(todo))
        BY <1>2, <3>1, <3>3, <4>1
      <4>3. Tail(todo)[k - 1] = todo[k]
        BY <1>1, <1>2, <3>1, <3>3, <4>1, <4>2, HeadTailProperties
      <4>4. k - 1 \in DOMAIN Tail(todo)
        BY <1>4, <4>2
      <4> QED
        BY <3>1, <4>3, <4>4 DEF Range
    <3> QED
      BY <3>2, <3>3
  <2>2. addr \in Range(todo)
    <3>1. 1 \in DOMAIN todo /\ addr = todo[1]
      BY <1>1, <1>2, <1>3
    <3> QED
      BY <3>1 DEF Range
  <2>3. ASSUME NEW x \in Range(Tail(todo)) PROVE x \in Range(todo)
    <3>1. PICK k \in 1 .. Len(Tail(todo)) : x = Tail(todo)[k]
      BY <1>4, <2>3 DEF Range
    <3>2. k + 1 \in DOMAIN todo /\ todo[k + 1] = Tail(todo)[k]
      BY <1>1, <1>2, <3>1
    <3> QED
      BY <3>1, <3>2 DEF Range
  <2> QED
    BY <2>1, <2>2, <2>3
<1>6. DOMAIN conns' = DOMAIN conns \cup {addr} /\ \A a \in DOMAIN conns' : conns'[a] # "null"
  <2>1. \A a \in DOMAIN conns : conns[a] # "null"
    BY DEF ProcessInv, ClientsInv
  <2>2. CASE HasClient(addr) /\ UNCHANGED conns
    BY <2>1, <2>2 DEF HasClient
  <2>3. ASSUME NEW c \in {"client", "freed"}, conns' = SetConn(addr, c)
        PROVE  DOMAIN conns' = DOMAIN conns \cup {addr} /\ \A a \in DOMAIN conns' : conns'[a] # "null"
    BY <2>1, <2>3 DEF SetConn
  <2>4. \/ HasClient(addr) /\ UNCHANGED conns
        \/ conns' = SetConn(addr, "client")
        \/ conns' = SetConn(addr, "freed")
    BY <1>3, <1>4 DEF AddConn, ConnectWithUdp, ConnectWithUdpFails
  <2> QED
    BY <2>2, <2>3, <2>4
<1>7. Broadcasts' = Broadcasts /\ AllAddrs' = AllAddrs
  BY <1>1 DEF Broadcasts, AllAddrs, LocalPorts
<1>8. DOMAIN conns' \cup Range(todo') = DOMAIN conns \cup Range(todo)
  BY <1>1, <1>5, <1>6
<1> QED
  BY <1>1, <1>2, <1>4, <1>6, <1>7, <1>8 DEF ClientsInv, ProcessInv

LEMMA WireClients ==
    ASSUME ProcessInv, cfg.good, Wire \/ AddUdpServer \/ AddTcpServer
    PROVE  ClientsInv'
<1>1. /\ (pc = "add_ips" /\ todo = <<>>) \/ pc \in {"udp_server", "tcp_server"}
      /\ pc' \in {"udp_server", "tcp_server", "dispatch"}
      /\ UNCHANGED <<cfg, ifs, properties, rsm, todo, conns>>
  BY DEF Wire, AddUdpServer, AddTcpServer
<1>2. DOMAIN conns = AllAddrs
  <2>1. pc = "add_ips" => Range(todo) = {}
    BY <1>1 DEF Range
  <2> QED
    BY <1>1, <2>1 DEF ProcessInv, ClientsInv
<1>3. Broadcasts' = Broadcasts /\ AllAddrs' = AllAddrs
  BY <1>1 DEF Broadcasts, AllAddrs, LocalPorts
<1> QED
  BY <1>1, <1>2, <1>3 DEF ProcessInv, ClientsInv

\* Nothing else changes the clients.
LEMMA OtherClients ==
    ASSUME [Next]_vars, ~Startup
    PROVE  /\ UNCHANGED <<cfg, ifs, properties, rsm, todo, conns, failures>>
           /\ \/ pc' \in {pc, "dead"}
              \/ (pc = "dispatch" /\ pc' = "notify") \/ (pc = "notify" /\ pc' = "dispatch")
              \/ pc = "dispatch" /\ pc' = "loop_ended" /\ stopFlg
              \/ pc = "loop_ended" /\ pc' = "returned"
<1>1. UNCHANGED <<cfg, ifs, properties, rsm, todo, conns, failures>>
  BY DEF Next, vars, mainVars, Udp, DiscoveryTick, DiscoveryTickFaults, PeerAnswers, RecvUdp,
         RecvUdpFaults, Tcp, TcpAccept, TcpAcceptFaults, ReadCb, Callback,
         RecvTcp, RecvNoSocket, RecvIgnored, NotInitialised, RecvGet, RecvReply, RecvExit, ExitGoesOn, ManagerFreed,
         Ending, LoopStarts, LoopEnds, Return, Worker, WorkerLoop, WorkerCrashes, TaskCopies, TaskSends
<1>2. \/ pc' \in {pc, "dead"}
      \/ (pc = "dispatch" /\ pc' = "notify") \/ (pc = "notify" /\ pc' = "dispatch")
      \/ pc = "dispatch" /\ pc' = "loop_ended" /\ stopFlg
      \/ pc = "loop_ended" /\ pc' = "returned"
  <2>1. CASE Udp
    BY <2>1 DEF Udp, DiscoveryTick, DiscoveryTickFaults, PeerAnswers, RecvUdp, RecvUdpFaults, NoSocket,
                Dies, UsesFreed
  <2>2. CASE Tcp \/ Callback
    BY <2>2 DEF Tcp, TcpAccept, TcpAcceptFaults, ReadCb, Callback, RecvNoSocket, RecvIgnored, NotInitialised, RecvGet,
                RecvReply, RecvExit, ExitGoesOn, ManagerFreed, RecvTcp, AtPacket, NoSocket, Dies, UsesFreed
  <2>3. CASE Ending
    BY <2>3 DEF Ending, LoopStarts, LoopEnds, Return, FreeTriggers
  <2>4. CASE Worker
    BY <2>4 DEF Worker, WorkerLoop, WorkerCrashes, TaskCopies, TaskSends, Dies
  <2> QED
    BY <2>1, <2>2, <2>3, <2>4 DEF Next, vars
<1> QED
  BY <1>1, <1>2

\* The configuration stays, and what has failed or was stopped stays so.
LEMMA Monotone ==
    ASSUME ProcessInv, [Next]_vars
    PROVE  /\ UNCHANGED <<cfg, ifs>>
           /\ stopFlg => stopFlg'
           /\ failures \in Nat /\ failures' \in Nat /\ failures <= failures'
<1>1. UNCHANGED <<cfg, ifs>>
  BY InterfacesStay, OtherClients DEF Startup, LoadConfig, InitFramework, QueryPorts, QueryIps, AddConn,
     Wire, AddUdpServer, AddTcpServer
<1>2. stopFlg => stopFlg'
  BY DEF Next, vars, taskVars, Startup, LoadConfig, InitFramework, QueryPorts, QueryIps, AddConn, Wire,
         AddUdpServer, AddTcpServer, Udp, DiscoveryTick, DiscoveryTickFaults, PeerAnswers, RecvUdp,
         RecvUdpFaults, Tcp, TcpAccept, TcpAcceptFaults, ReadCb, Callback,
         RecvTcp, RecvNoSocket, RecvIgnored, NotInitialised, RecvGet, RecvReply, RecvExit, ExitGoesOn, ManagerFreed,
         Ending, LoopStarts, LoopEnds, Return, Worker, WorkerLoop, WorkerCrashes, TaskCopies, TaskSends,
         AddTask, StopFlag, NotifyAll, WorkerGoesOn, WorkerSleeps, WorkerTakes, WorkerExits
<1>3. CASE ~Startup
  BY <1>1, <1>2, <1>3, OtherClients DEF ProcessInv, NodeInv
<1>4. CASE Startup
  <2>1. failures \in Nat
    BY DEF ProcessInv, NodeInv
  <2>2. failures' = failures \/ failures' = failures + 1
    BY <1>4 DEF Startup, LoadConfig, InitFramework, QueryPorts, QueryIps, AddConn, Wire, AddUdpServer,
                AddTcpServer, ServerFails, ConnectWithUdp, ConnectWithUdpFails
  <2> QED
    BY <1>1, <1>2, <2>1, <2>2
<1> QED
  BY <1>3, <1>4

LEMMA NodeStep ==
    ASSUME ProcessInv, [Next]_vars
    PROVE  NodeInv'
<1>1. UNCHANGED <<cfg, ifs>> /\ (stopFlg => stopFlg')
  BY Monotone
<1>2. \E n \in Nodes : cfg' = n.cfg /\ ifs' = n.ifs
  BY <1>1 DEF ProcessInv, NodeInv
<1>3. CASE ~Startup
  BY <1>1, <1>2, <1>3, OtherClients DEF ProcessInv, NodeInv
<1>4. CASE Startup
  <2>1. pc' \notin {"loop_ended", "returned"}
    BY <1>4 DEF Startup, LoadConfig, InitFramework, QueryPorts, QueryIps, AddConn, Wire, AddUdpServer,
                AddTcpServer, ConnectWithUdp, ConnectWithUdpFails, UsesFreed
  <2>2. failures \in Nat /\ failures' \in Nat /\ failures <= failures'
    BY Monotone
  <2>3. ASSUME NEW a \in DOMAIN conns', conns'[a] = "freed" PROVE failures' > 0
    <3>1. ASSUME a \in DOMAIN conns, conns[a] = "freed" PROVE failures' > 0
      BY <2>2, <3>1 DEF ProcessInv, NodeInv
    <3>2. CASE UNCHANGED conns
      BY <2>3, <3>1, <3>2
    <3>3. CASE AddConn
      <4>1. CASE UNCHANGED conns
        BY <2>3, <3>1, <4>1
      <4>2. ASSUME NEW addr, NEW c \in {"client", "null"}, conns' = SetConn(addr, c) PROVE failures' > 0
        BY <2>3, <3>1, <4>2 DEF SetConn
      <4>3. CASE failures' = failures + 1
        BY <2>2, <4>3
      <4> QED
        BY <3>3, <4>1, <4>2, <4>3 DEF AddConn, ConnectWithUdp, ConnectWithUdpFails
    <3> QED
      BY <1>4, <3>2, <3>3 DEF Startup, LoadConfig, InitFramework, QueryPorts, QueryIps, Wire,
                              AddUdpServer, AddTcpServer
  <2> QED
    BY <1>2, <2>1, <2>2, <2>3 DEF NodeInv
<1> QED
  BY <1>3, <1>4

LEMMA ProcessStep ==
    ASSUME GoodFiles, ProcessInv, [Next]_vars
    PROVE  ProcessInv'
<1>1. NodeInv' /\ StopInv'
  BY NodeStep, StopInvStep DEF ProcessInv
<1>2. cfg' = cfg
  BY Monotone
<1>3. ASSUME cfg.good PROVE ClientsInv'
  <2>1. CASE Startup
    BY <1>3, <2>1, LoadClients, PortsClients, IpsClients, AddClients, WireClients DEF Startup
  <2>2. CASE ~Startup
    <3>1. UNCHANGED <<cfg, ifs, properties, rsm, todo, conns>>
      BY <2>2, OtherClients
    <3>2. Broadcasts' = Broadcasts /\ AllAddrs' = AllAddrs
      BY <3>1 DEF Broadcasts, AllAddrs, LocalPorts
    <3>3. \/ pc' \in {pc, "dead"}
          \/ (pc = "dispatch" /\ pc' = "notify") \/ (pc = "notify" /\ pc' = "dispatch")
          \/ pc = "dispatch" /\ pc' = "loop_ended"
          \/ pc = "loop_ended" /\ pc' = "returned"
      BY <2>2, OtherClients
    <3> QED
      BY <1>3, <3>1, <3>2, <3>3 DEF ProcessInv, ClientsInv
  <2> QED
    BY <2>1, <2>2
<1> QED
  BY <1>1, <1>2, <1>3 DEF ProcessInv

LEMMA ProcessAlways ==
    ASSUME GoodFiles
    PROVE  Spec => []ProcessInv
<1>1. Init => ProcessInv
  <2> SUFFICES ASSUME Init PROVE ProcessInv
    OBVIOUS
  <2>1. NodeInv
    BY DEF Init, NodeInv
  <2>2. StopInv
    BY DEF Init, TaskInit, StopInv
  <2>3. ClientsInv
    BY DEF Init, ClientsInv
  <2> QED
    BY <2>1, <2>2, <2>3 DEF ProcessInv
<1>2. ProcessInv /\ [Next]_vars => ProcessInv'
  BY ProcessStep
<1> QED
  BY <1>1, <1>2, PTL DEF Spec

\* When the loop runs, the discovery trigger has exactly the clients that a good
\* configuration and the interfaces ask for: no order or repetition of addresses
\* makes addConn lose one.
THEOREM DiscoverSet ==
    ASSUME GoodFiles
    PROVE  Spec => []DiscoverSetExact
<1>1. ProcessInv => DiscoverSetExact
  BY DEF ProcessInv, ClientsInv, DiscoverSetExact, AllAddrs, Broadcasts
<1> QED
  BY <1>1, ProcessAlways, PTL

\* Without a failing system call, a null or freed client of the discovery trigger and
\* a ResourceManager that is not initialised are met by no node with a good
\* configuration, whatever packets come and whatever the worker does.
THEOREM GoodNodeNoFault ==
    ASSUME GoodFiles
    PROVE  Spec => []GoodConfigNoFault
<1> DEFINE ofConfig == {"null_client", "container", "not_initialised"}
<1>1. Init => GoodConfigNoFault
  BY DEF Init, GoodConfigNoFault
<1>2. ProcessInv /\ GoodConfigNoFault /\ [Next]_vars => GoodConfigNoFault'
  <2> SUFFICES ASSUME ProcessInv, GoodConfigNoFault, [Next]_vars, cfg'.good, failures' = 0
               PROVE  faults' \cap ofConfig = {}
    BY DEF GoodConfigNoFault
  <2>1. cfg' = cfg /\ failures = 0
    BY Monotone
  <2>2. faults \cap ofConfig = {} /\ ClientsInv /\ NodeInv
    BY <2>1 DEF GoodConfigNoFault, ProcessInv
  <2>3. CASE UNCHANGED faults
    BY <2>2, <2>3
  <2>4. ASSUME NEW f \in {"no_descriptor", "manager", "event_of_a_freed_base", "empty_vector", "null_session"},
               faults' = faults \cup {f}
        PROVE  faults' \cap ofConfig = {}
    BY <2>2, <2>4
  <2>5. CASE AddConn
    <3>1. failures' # failures + 1
      BY <2>1
    <3> QED
      BY <2>3, <2>5, <3>1 DEF AddConn, ConnectWithUdp, ConnectWithUdpFails
  <2>6. ~DiscoveryTickFaults
    BY <2>1, <2>2 DEF DiscoveryTickFaults, ClientsInv, NodeInv
  <2>7. ~NotInitialised
    BY <2>2 DEF NotInitialised, RecvTcp, AtPacket, ClientsInv
  <2>8. CASE RecvUdpFaults \/ TcpAcceptFaults \/ RecvNoSocket
    BY <2>4, <2>8 DEF RecvUdpFaults, TcpAcceptFaults, RecvNoSocket, NoSocket, Dies
  <2>9. CASE ExitGoesOn \/ ManagerFreed
    BY <2>3, <2>4, <2>9 DEF ExitGoesOn, ManagerFreed, UsesFreed
  <2>10. CASE Return \/ WorkerCrashes \/ TaskSends
    BY <2>3, <2>4, <2>10 DEF Return, FreeTriggers, WorkerCrashes, TaskSends, Dies
  <2> QED
    BY <2>3, <2>5, <2>6, <2>7, <2>8, <2>9, <2>10, FaultySteps
<1> QED
  BY <1>1, <1>2, ProcessAlways, PTL DEF Spec
=============================================================================
