------------------------------- MODULE Process ------------------------------
(***************************************************************************)
(* The life of the process: main() reads the configuration, makes the UDP  *)
(* clients of the discovery trigger, opens its servers and runs the event  *)
(* loop until an EXIT packet; the task worker runs beside it.              *)
(*                                                                         *)
(* Sessions do not break here and connect() succeeds (module Connections   *)
(* has the rest), and a task is reduced to its use of the registry of      *)
(* sessions (module SyncEngine has the rest).  exit(-1), an assertion, a   *)
(* null pointer and a use of a freed object that does not go well end the  *)
(* process in pc = "dead".                                                 *)
(***************************************************************************)
EXTENDS ConfigManager, TaskManager

CONSTANTS Nodes,        \* inputs, each a configuration file (its lines, the addresses its author
                        \* wanted, whether it is written as the examples are) and the interfaces
          MaxIfreqs,    \* interfaces that LocalPort::query can list (10)
          MaxSockets,   \* descriptors left for LocalPort::query and accept()
          PeerIp,       \* the IPs of other nodes
          Uri,          \* the resources there may be tasks for
          MaxBatch,     \* bound: packets of one read callback
          MaxFailures   \* bound: system calls that fail

ASSUME NodesAssumption == \A n \in Nodes : n.ifs \in Seq(Range(n.ifs))

KEY_DISCOVER_IPS == <<Word(1)>>
KEY_UDP_PORT == <<Word(2)>>
KEY_RESOURCE_HOME == <<Word(3)>>
KEY_TCP_PORT == <<Word(4)>>

VARIABLES pc,
          cfg, ifs,     \* the configuration file and the interfaces
          properties,   \* what ConfigManager holds
          rsm,          \* ResourceManager is initialised
          todo,         \* the addresses main() has still to pass to addConn
          conns,        \* NetTrigger::conns of the discovery trigger
          mods,         \* SyncModConnMediator::mods
          listening,    \* the servers that are open
          sockets,      \* the descriptors that LocalPort::query and accept() have opened
          loopbreak,    \* event_base_loopbreak was called
          inbox,        \* UDP packets under way to this node
          sessions,     \* the peers the table-index trigger has connected to
          accepted,     \* the addresses that have connected to the TCP server
          tcp_ctx,      \* the sessions in the registry
          held,         \* the sessions the worker has copied
          batch,        \* the packets the read callback has still to handle
          faults, failures

mainVars == <<cfg, ifs, properties, rsm, todo, conns, mods, listening>>
loopVars == <<loopbreak, inbox, sessions, accepted, tcp_ctx, batch>>
vars == <<pc, mainVars, sockets, loopVars, held, faults, failures, taskVars>>

Init ==
    /\ pc = "load"
    /\ \E n \in Nodes : cfg = n.cfg /\ ifs = n.ifs
    /\ properties = << >> /\ rsm = FALSE /\ todo = <<>> /\ conns = << >>
    /\ mods = {} /\ listening = {} /\ loopbreak = FALSE
    /\ inbox = {} /\ sessions = {} /\ accepted = {} /\ tcp_ctx = {} /\ held = {} /\ batch = <<>>
    /\ faults = {} /\ failures = 0 /\ sockets = 0
    /\ TaskInit

Dies(fault) == pc' = "dead" /\ faults' = faults \cup {fault}

\* A use of freed memory ends the process, or reads what was there and goes on.
UsesFreed(fault, next) == faults' = faults \cup {fault} /\ pc' \in {next, "dead"}

Running == pc \notin {"returned", "dead"}
-----------------------------------------------------------------------------
\* LocalPort.

\* query lists the interfaces that fit its array and have a broadcast address.
LocalPorts == {k \in 1 .. Len(ifs) : k <= MaxIfreqs /\ ifs[k].broad # 0}

\* Mutant: the first port is not compared.
ExistIpButFirst(ip) == \E k \in LocalPorts \ {1} : ifs[k].ip = ip

ExistIp(ip) == \E k \in LocalPorts : ifs[k].ip = ip

\* query opens a socket, asserts that it got one, and never closes it.
OpenSocket == sockets < MaxSockets /\ sockets' = sockets + 1
NoSocket == sockets = MaxSockets /\ Dies("no_descriptor")
-----------------------------------------------------------------------------
\* main() up to the event loop.

\* The mediator keeps the first module of a name.
MediatorAdd(ms, name) == ms \cup {name}

\* Both triggers register the logic they run; SyncCliSyncLogic has no name.
NewDiscoveryTrigger(ms) == MediatorAdd(ms, "mod_discovery_logic")
NewSyncReqTbIdxTrigger(ms) == MediatorAdd(ms, "")

ResourceInit(home) == home # <<>>

DiscoverPort(p) == AToI(Query(p, KEY_UDP_PORT))

\* load_config; a file that cannot be read leaves every value empty, and an
\* empty resource.home leaves the ResourceManager without its tables.
LoadConfig ==
    /\ pc = "load"
    /\ properties' = IF cfg.found THEN PropertiesParse(cfg.lines) ELSE << >>
    /\ rsm' = ResourceInit(Query(properties', KEY_RESOURCE_HOME))
    /\ pc' = "init"
    /\ UNCHANGED <<cfg, ifs, todo, conns, mods, listening, loopVars, held, faults, failures, taskVars, sockets>>

\* The framework, the timer and the discovery trigger.
InitFramework ==
    /\ pc = "init"
    /\ mods' = NewDiscoveryTrigger(mods)
    /\ pc' = "ports"
    /\ UNCHANGED <<cfg, ifs, properties, rsm, todo, conns, listening, loopVars, held, faults, failures,
                   taskVars, sockets>>

\* The clients for the broadcast addresses, in the order of the interfaces.
QueryPorts ==
    /\ pc = "ports" /\ OpenSocket
    /\ \E ports \in [1 .. Cardinality(LocalPorts) -> LocalPorts] :
          /\ \A j, k \in DOMAIN ports : j < k => ports[j] < ports[k]
          /\ todo' = [k \in DOMAIN ports |->
                        SetPort(FromBe([ip |-> ifs[ports[k]].broad, port |-> 0]), DiscoverPort(properties))]
    /\ pc' = "add_ports"
    /\ UNCHANGED <<cfg, ifs, properties, rsm, conns, mods, listening, loopVars, held, faults,
                   failures, taskVars>>

\* Mutant of DiscoverAddr: the default port is not filled in.
DiscoverAddrAsWritten(p, piece) == NewNetAddr(piece)

DiscoverAddr(p, piece) ==
    LET addr == NewNetAddr(piece)
    IN IF addr.port = 0 THEN SetPort(addr, DiscoverPort(p)) ELSE addr

QueryIps ==
    /\ pc = "add_ports" /\ todo = <<>>
    /\ LET list == QueryList(properties, KEY_DISCOVER_IPS)
       IN todo' = [k \in 1 .. Len(list) |-> DiscoverAddr(properties, list[k])]
    /\ pc' = "add_ips"
    /\ UNCHANGED <<cfg, ifs, properties, rsm, conns, mods, listening, loopVars, held, faults,
                   failures, taskVars, sockets>>

HasClient(addr) == addr \in DOMAIN conns /\ conns[addr] # "null"

SetConn(addr, c) == [a \in DOMAIN conns \cup {addr} |-> IF a = addr THEN c ELSE conns[a]]

ConnectWithUdp(addr) ==
    /\ conns' = SetConn(addr, "client")
    /\ UNCHANGED <<pc, faults, failures>>

\* connectWithUdp gets no socket and deletes the container, which setupConn
\* then writes to and returns.
ConnectWithUdpFails(addr) ==
    /\ failures < MaxFailures
    /\ conns' = SetConn(addr, "freed")
    /\ failures' = failures + 1
    /\ UsesFreed("container", pc)

\* addConn looks the address up with conns[...], which inserts a null pointer,
\* before it refuses the address 0.  (Two addresses have one text only if they
\* are equal.)
AddConn ==
    /\ pc \in {"add_ports", "add_ips"} /\ todo # <<>>
    /\ todo' = Tail(todo)
    /\ LET addr == Head(todo)
       IN \/ HasClient(addr) /\ UNCHANGED <<pc, conns, faults, failures>>
          \/ /\ ~HasClient(addr) /\ addr.ip = INADDR_ANY
             /\ conns' = SetConn(addr, "null")
             /\ UNCHANGED <<pc, faults, failures>>
          \/ /\ ~HasClient(addr) /\ addr.ip # INADDR_ANY
             /\ ConnectWithUdp(addr) \/ ConnectWithUdpFails(addr)
    /\ UNCHANGED <<cfg, ifs, properties, rsm, mods, listening, loopVars, held, taskVars, sockets>>

\* The address of a server, from the colon and the port that StringBuilder joins.
ListenAddr(key) == NewNetAddr(FirstWord(<<Colon>> \o Query(properties, key)))

\* The second trigger and the mediator.
Wire ==
    /\ pc = "add_ips" /\ todo = <<>>
    /\ mods' = FoldLeft(MediatorAdd, NewSyncReqTbIdxTrigger(mods),
                        <<"mod_syn_service", "mod_discovery", "mod_req_table_idx">>)
    /\ pc' = "udp_server"
    /\ UNCHANGED <<cfg, ifs, properties, rsm, todo, conns, listening, loopVars, held, faults,
                   failures, taskVars, sockets>>

\* cleanup empties the registries and frees no session; nothing is ever in events.
Cleanup == tcp_ctx' = {}

\* Mutant of Shutdown: the event loop is not told.
ShutdownWithoutBreak == Cleanup /\ UNCHANGED loopbreak

Shutdown == Cleanup /\ loopbreak' = TRUE

\* No socket, or the port is taken: the shutdown comes before the loop, which
\* forgets it, and main() goes on without this server.
ServerFails ==
    /\ failures < MaxFailures
    /\ Shutdown
    /\ failures' = failures + 1
    /\ UNCHANGED listening

AddUdpServer ==
    /\ pc = "udp_server"
    /\ \/ ServerFails
       \/ listening' = listening \cup {"udp"} /\ UNCHANGED <<tcp_ctx, loopbreak, failures>>
    /\ pc' = "tcp_server"
    /\ UNCHANGED <<cfg, ifs, properties, rsm, todo, conns, mods, inbox, sessions, accepted, batch, held, faults,
                   taskVars, sockets>>

AddTcpServer ==
    /\ pc = "tcp_server"
    /\ \/ ServerFails
       \/ listening' = listening \cup {"tcp"} /\ UNCHANGED <<tcp_ctx, loopbreak, failures>>
    /\ pc' = "dispatch"
    /\ UNCHANGED <<cfg, ifs, properties, rsm, todo, conns, mods, inbox, sessions, accepted, batch, held, faults,
                   taskVars, sockets>>
-----------------------------------------------------------------------------
\* The event loop.

InLoop == pc = "dispatch" /\ batch = <<>> /\ ~loopbreak

\* event_base_dispatch clears the flag of an earlier loopbreak.
LoopStarts ==
    /\ pc = "dispatch" /\ loopbreak /\ ~stopFlg
    /\ loopbreak' = FALSE
    /\ UNCHANGED <<pc, mainVars, inbox, sessions, accepted, tcp_ctx, batch, held, faults, failures, taskVars, sockets>>

OwnIp == {ifs[k].ip : k \in 1 .. Len(ifs)}

\* The own addresses from which a HELLO to addr comes back to this node.
Echoes(addr) == {ifs[k].ip : k \in {j \in 1 .. Len(ifs) : addr.ip \in {ifs[j].ip, ifs[j].broad}}}

Hello(ip) == [type |-> "HELLO", from |-> ip]

\* handleHello: the answer names the TCP port, as it is written in the configuration.
HelloAck(ip, tcpport) == [type |-> "HELLO_ACK", from |-> ip, tcpport |-> tcpport]

\* The discovery trigger: a HELLO over every client.  Our own UDP server hears
\* the ones to a broadcast or own address.
DiscoveryTick ==
    /\ InLoop /\ \A a \in DOMAIN conns : conns[a] = "client"
    /\ inbox' = inbox \cup
          {Hello(ip) : ip \in UNION {Echoes(a) : a \in
              {b \in DOMAIN conns : "udp" \in listening /\ b.port = ListenAddr(KEY_UDP_PORT).port}}}
    /\ UNCHANGED <<pc, mainVars, loopbreak, sessions, accepted, tcp_ctx, batch, held, faults, failures, taskVars, sockets>>

\* A null pointer in conns, or a container that is not there.
DiscoveryTickFaults ==
    /\ InLoop
    /\ \/ "null" \in {conns[a] : a \in DOMAIN conns} /\ Dies("null_client")
       \/ "freed" \in {conns[a] : a \in DOMAIN conns} /\ UsesFreed("container", pc)
    /\ UNCHANGED <<mainVars, loopVars, held, failures, taskVars, sockets>>

PeerTcpPort == <<Num(9)>>       \* what the other nodes have configured

PeerAnswers(ip) ==
    /\ InLoop
    /\ \E a \in DOMAIN conns : conns[a] = "client"
          /\ a.ip \in {ip} \cup {ifs[k].broad : k \in 1 .. Len(ifs)}
    /\ inbox' = inbox \cup {HelloAck(ip, PeerTcpPort)}
    /\ UNCHANGED <<pc, mainVars, loopbreak, sessions, accepted, tcp_ctx, batch, held, faults, failures, taskVars, sockets>>

\* mod_tel delivers between registered modules only.
ModTel(from, to) == from \in mods /\ to \in mods

\* SyncReqTbIdxTrigger::mod_conn_recv with the uri to add: a new address gets a session.
ReqTbIdxAdd(ip) == sessions' = sessions \cup {ip} /\ tcp_ctx' = tcp_ctx \cup ({ip} \ sessions)

\* handleHelloAck: without a port in the answer nothing is done.
HandleHelloAck(m) ==
    IF m.tcpport # <<>> /\ ModTel("mod_syn_service", "mod_req_table_idx")
    THEN ReqTbIdxAdd(m.from) ELSE UNCHANGED <<sessions, tcp_ctx>>

\* recv_udp, as it is built with RELEASE: what comes from an own address is ignored;
\* a HELLO is answered with a HELLO_ACK, a HELLO_ACK makes the table-index trigger
\* connect.
RecvUdp(m) ==
    /\ InLoop /\ m \in inbox /\ OpenSocket
    /\ inbox' = (inbox \ {m}) \cup
          IF m.type = "HELLO" /\ ~ExistIp(m.from) /\ m.from \in OwnIp
          THEN {HelloAck(m.from, Query(properties, KEY_TCP_PORT))} ELSE {}
    /\ IF m.type = "HELLO_ACK" /\ ~ExistIp(m.from)
       THEN HandleHelloAck(m) ELSE UNCHANGED <<sessions, tcp_ctx>>
    /\ UNCHANGED <<pc, mainVars, loopbreak, accepted, batch, held, faults, failures, taskVars>>

\* The same call when query gets no socket.
RecvUdpFaults ==
    /\ InLoop /\ inbox # {} /\ NoSocket
    /\ UNCHANGED <<mainVars, sockets, loopVars, held, failures, taskVars>>

\* tcp_accept: one more descriptor and a session in the registry, ...
TcpAccept(ip) ==
    /\ InLoop /\ "tcp" \in listening /\ ip \notin accepted /\ OpenSocket
    /\ accepted' = accepted \cup {ip} /\ tcp_ctx' = tcp_ctx \cup {ip}
    /\ UNCHANGED <<pc, mainVars, loopbreak, inbox, sessions, batch, held, faults, failures, taskVars>>

\* ... or the assertion that there was one.
TcpAcceptFaults ==
    /\ InLoop /\ "tcp" \in listening /\ NoSocket
    /\ UNCHANGED <<mainVars, sockets, loopVars, held, failures, taskVars>>

\* A packet has a type and the address of its session; a uri stands for a reply
\* that leads to a task.
PacketType == {"GET", "EXIT"} \cup Uri
Packet(ip) == [type : PacketType, from : {ip}]

\* read_cb is called for a session; a reply of a table or of a block comes from
\* a peer we have connected to.
ReadCb(ip) ==
    /\ InLoop /\ ip \in sessions \cup accepted
    /\ \E n \in 1 .. MaxBatch : \E b \in [1 .. n -> Packet(ip)] :
          /\ ip \notin sessions => \A k \in 1 .. n : b[k].type \notin Uri
          /\ batch' = b
    /\ UNCHANGED <<pc, mainVars, loopbreak, inbox, sessions, accepted, tcp_ctx, held, faults, failures, taskVars,
                   sockets>>

\* The callback is about to hand a packet to recv_tcp, ...
AtPacket == pc = "dispatch" /\ batch # <<>>

\* ... which asks LocalPort::query first, ...
RecvNoSocket ==
    /\ AtPacket /\ NoSocket
    /\ UNCHANGED <<mainVars, sockets, loopVars, held, failures, taskVars>>

\* ... drops what comes from an address of this node ...
RecvIgnored ==
    /\ AtPacket /\ OpenSocket /\ ExistIp(Head(batch).from)
    /\ batch' = Tail(batch)
    /\ UNCHANGED <<pc, mainVars, loopbreak, inbox, sessions, accepted, tcp_ctx, held, faults, failures, taskVars>>

\* ... and calls the handler of the type.
RecvTcp(types) ==
    /\ AtPacket /\ OpenSocket /\ ~ExistIp(Head(batch).from)
    /\ Head(batch).type \in types

\* Every handler but exit asks the ResourceManager, which calls exit(-1) when it
\* is not initialised.
NotInitialised ==
    /\ RecvTcp(PacketType \ {"EXIT"}) /\ ~rsm
    /\ Dies("not_initialised")
    /\ UNCHANGED <<mainVars, loopVars, held, failures, taskVars>>

RecvGet ==
    /\ RecvTcp({"GET"}) /\ rsm
    /\ batch' = Tail(batch)
    /\ UNCHANGED <<pc, mainVars, loopbreak, inbox, sessions, accepted, tcp_ctx, held, faults, failures, taskVars>>

RecvReply ==
    /\ RecvTcp(Uri) /\ rsm
    /\ batch' = Tail(batch)
    /\ AddTask(Head(batch).type)
    /\ UNCHANGED <<pc, mainVars, loopbreak, inbox, sessions, accepted, tcp_ctx, held, faults, failures>>

\* SyncService::exit up to the flag.
RecvExit ==
    /\ RecvTcp({"EXIT"})
    /\ StopFlag
    /\ pc' = "notify"
    /\ UNCHANGED <<mainVars, loopVars, held, faults, failures>>

\* The rest of it, with a manager that the worker may have deleted meanwhile.  The
\* callback goes on with the packets behind the EXIT.
ExitGoesOn ==
    /\ pc = "notify"
    /\ \/ NotifyAll /\ pc' = "dispatch" /\ UNCHANGED faults
       \/ tm = "freed" /\ UsesFreed("manager", "dispatch") /\ UNCHANGED taskVars
    /\ Shutdown
    /\ batch' = Tail(batch)
    /\ UNCHANGED <<mainVars, inbox, sessions, accepted, held, failures, sockets>>

\* The worker has deleted the manager that tm points to, or deletes it while addTask
\* is in it.
ManagerFreed ==
    /\ RecvTcp({"EXIT"} \cup Uri) /\ (Head(batch).type \in Uri => rsm)
    /\ \/ tm = "freed" /\ UNCHANGED taskVars
       \/ Head(batch).type \in Uri /\ WorkerExits
    /\ batch' = Tail(batch)
    /\ UsesFreed("manager", pc)
    /\ IF Head(batch).type = "EXIT" THEN Shutdown ELSE UNCHANGED <<tcp_ctx, loopbreak>>
    /\ UNCHANGED <<mainVars, inbox, sessions, accepted, held, failures>>

\* dispatch returns when the callback that broke the loop has ended.
LoopEnds ==
    /\ pc = "dispatch" /\ loopbreak /\ stopFlg /\ batch = <<>>
    /\ pc' = "loop_ended"
    /\ UNCHANGED <<mainVars, loopVars, held, faults, failures, taskVars, sockets>>

\* The destructors of the triggers on main()'s stack free events that belong to
\* the base that is gone.
FreeTriggers ==
    /\ faults' = faults \cup {"event_of_a_freed_base"}
    /\ pc' \in {"returned", "dead"}

\* The base is freed, then the registries, then the triggers.
Return ==
    /\ pc = "loop_ended"
    /\ Cleanup
    /\ FreeTriggers
    /\ UNCHANGED <<mainVars, loopbreak, inbox, sessions, accepted, batch, held, failures, taskVars, sockets>>
-----------------------------------------------------------------------------
\* The worker.

WorkerLoop ==
    /\ Running
    /\ WorkerGoesOn \/ WorkerSleeps \/ WorkerTakes \/ WorkerExits
    /\ UNCHANGED <<pc, mainVars, loopVars, held, faults, failures, sockets>>

WorkerCrashes ==
    /\ Running /\ WorkerExitFaults
    /\ Dies("empty_vector")
    /\ UNCHANGED <<mainVars, loopVars, held, failures, taskVars, sockets>>

\* ReqRsTask::run copies the registry ...
TaskCopies ==
    /\ Running /\ worker = "run"
    /\ held' = tcp_ctx
    /\ worker' = "send"
    /\ UNCHANGED <<pc, mainVars, loopVars, faults, failures, tm, stopFlg, tasks, grown, sockets>>

\* ... and sends to an owner, which was connected when it announced the file.
TaskSends ==
    /\ Running /\ worker = "send"
    /\ \E p \in sessions : IF p \in held THEN UNCHANGED <<pc, faults>> ELSE Dies("null_session")
    /\ worker' = "check" /\ held' = {}
    /\ UNCHANGED <<mainVars, loopVars, failures, tm, stopFlg, tasks, grown, sockets>>

Startup ==
    LoadConfig \/ InitFramework \/ QueryPorts \/ QueryIps \/ AddConn \/ Wire
        \/ AddUdpServer \/ AddTcpServer
Udp ==
    \/ DiscoveryTick \/ DiscoveryTickFaults
    \/ \E ip \in PeerIp : PeerAnswers(ip)
    \/ \E m \in inbox : RecvUdp(m)
    \/ RecvUdpFaults
Tcp ==
    \/ \E ip \in PeerIp \cup OwnIp : TcpAccept(ip)
    \/ TcpAcceptFaults
    \/ \E ip \in sessions \cup accepted : ReadCb(ip)
Callback ==
    RecvNoSocket \/ RecvIgnored \/ NotInitialised \/ RecvGet \/ RecvReply \/ RecvExit \/ ExitGoesOn
        \/ ManagerFreed
Ending == LoopStarts \/ LoopEnds \/ Return
Worker == WorkerLoop \/ WorkerCrashes \/ TaskCopies \/ TaskSends

Next == Startup \/ Udp \/ Tcp \/ Callback \/ Ending \/ Worker

\* A thread that can go on does; packets come or do not come.
Fairness == WF_vars(Startup) /\ WF_vars(Callback \/ Ending) /\ WF_vars(Worker)

Spec == Init /\ [][Next]_vars /\ Fairness
-----------------------------------------------------------------------------
\* Once the loop runs, a configuration written as the examples are has a client
\* for each address it names, with the default port where it names none, one for
\* each broadcast address, and nothing else: splitting, trimming and the numbers
\* in the text lose or invent no address.
DiscoverSetExact ==
    (pc = "dispatch" /\ cfg.good) =>
        DOMAIN conns = cfg.wanted \cup
            {[ip |-> ifs[k].broad, port |-> DiscoverPort(properties)] : k \in LocalPorts}

\* A node with such a configuration, whose system calls succeed, is never ended by it:
\* the discovery timer meets no null or freed client, and no handler a ResourceManager
\* without its tables.  (Descriptors that run out, sessions that are not there or break
\* and the race of EXIT with the worker end it otherwise.)
GoodConfigNoFault ==
    (cfg.good /\ failures = 0) => faults \cap {"null_client", "container", "not_initialised"} = {}

\* A node that hears its own HELLOs never opens a session to itself, as long as
\* LocalPort::query lists all its interfaces.
NoSessionWithItself ==
    LocalPorts = 1 .. Len(ifs) => sessions \cap OwnIp = {}

\* A task that was queued is taken by the worker, unless the manager is stopped
\* or the process ends first: no notification is lost between addTask and the
\* condition the worker waits for.
EveryTaskRuns ==
    \A u \in Uri : (u \in ToSet(tasks)) ~> (u \notin ToSet(tasks) \/ stopFlg \/ ~Running)

\* The deleted manager is touched only within the read callback that handles an EXIT,
\* by stop() itself, between whose flag and notification the worker may delete it, or
\* by the packets behind the EXIT: no later callback meets it.
FreedManagerNeedsExit ==
    [][("manager" \in faults' \ faults)
           => (stopFlg /\ batch # <<>> /\ (pc = "notify" \/ loopbreak))]_vars

\* EXIT ends the process, whatever the worker is doing.
ExitEnds == stopFlg ~> ~Running
-----------------------------------------------------------------------------
\* A piece of the list that stands for the address a: its IP with its port, or
\* its IP alone where its port is the default.
WrittenAs(piece, a, default) ==
    \/ piece = <<Ip(a.ip), Colon, Num(a.port)>> /\ a.port # 0
    \/ piece = <<Ip(a.ip)>> /\ a.port = default

\* The file c says what its author wanted: there is a home for the resources, the
\* ports are ports, and the list has a piece for each wanted address, none of which
\* is 0, and no other piece.
SaysWhatIsWanted(c) ==
    LET p == PropertiesParse(c.lines)
        list == QueryList(p, KEY_DISCOVER_IPS)
        default == DiscoverPort(p)
    IN /\ c.found /\ Query(p, KEY_RESOURCE_HOME) # <<>>
       /\ default \in 0 .. PortMod - 1
       /\ c.wanted \subseteq [ip : {a.ip : a \in c.wanted} \ {INADDR_ANY}, port : 0 .. PortMod - 1]
       /\ Len(list) \in Nat
       /\ \A k \in 1 .. Len(list) : \E a \in c.wanted : WrittenAs(list[k], a, default)
       /\ \A a \in c.wanted : \E k \in 1 .. Len(list) : WrittenAs(list[k], a, default)

\* What the proofs ask of the files that count as good.
GoodFiles == \A n \in Nodes : n.cfg.good => SaysWhatIsWanted(n.cfg)
=============================================================================
