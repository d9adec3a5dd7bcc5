----------------------------- MODULE Connections ----------------------------
(***************************************************************************)
(* How a node finds its peers and keeps sessions with them.  The discovery *)
(* trigger sends HELLO on a timer; a HELLO_ACK makes the table-index       *)
(* trigger open a TCP session to the sender's server; on its own timer     *)
(* that trigger requests the table index over each of its sessions and     *)
(* drops the ones that broke.  Peers open sessions to this node's server.  *)
(* The task worker uses the sessions of both kinds.                        *)
(*                                                                         *)
(* A connection is a NetCliLogicContainer and the NetworkConnCtxWithEvent  *)
(* it owns, both on the heap; they share a number here.  A use of memory   *)
(* that is not there (a null pointer, a freed object, a second delete) is  *)
(* recorded in faults.  A null pointer ends the process; a freed object    *)
(* ends it or, where the allocator leaves the bytes alone, still reads as  *)
(* it was.  Memory that is handed out again in between is not modelled.    *)
(***************************************************************************)
EXTENDS Integers, FiniteSets, SequencesExt

CONSTANTS Peer,          \* the other nodes
          Listed,        \* those whose address is in ip.discovery
          Broadcast,     \* the broadcast address of the network
          Conn,          \* numbers of the connections that are ever made
          Absent, Null,  \* no key in the map; a key with a null pointer
          MaxEvents      \* bound: sessions that break, connect() calls that fail and
                         \* sessions that peers open, together

ASSUME ListedAssumption == Listed \subseteq Peer /\ Broadcast \notin Peer
ASSUME ConnAssumption == Conn = 1 .. Len(SetToSeq(Conn))
ASSUME PointerAssumption == Absent \notin Conn /\ Null \notin Conn /\ Absent # Null

VARIABLES alive,
          target,    \* where each UDP client of the discovery trigger sends its HELLOs
          acks,      \* HELLO_ACKs under way: to which client, from which peer
          conns,     \* NetTrigger::conns of SyncReqTbIdxTrigger
          ctx,       \* the contexts: "none", "active", "inactive" or "freed"
          peerOf,    \* the peer at the other end of a connection
          accepted,  \* the connections that the peer has opened
          tcp_ctx,   \* NetFrameworkImplWithEvent::tcp_ctx
          breaking,  \* the context event_cb has marked and not yet taken off tcp_ctx, or Absent
          visit,     \* the keys trigger() has still to visit
          held,      \* the sessions the worker has copied, while a task runs
          faults, breaks, refusals

vars == <<alive, target, acks, conns, ctx, peerOf, accepted, tcp_ctx, breaking, visit, held, faults,
          breaks, refusals>>

NoTask == <<>>

\* The clients main.cpp makes: one for the broadcast address, one per listed peer.
Client == Listed \cup {Broadcast}

Init ==
    /\ alive = TRUE /\ acks = {}
    /\ target = [k \in Client |-> k]
    /\ conns = [p \in Peer |-> Absent]
    /\ ctx = [c \in Conn |-> "none"] /\ peerOf = [c \in Conn |-> Absent]
    /\ accepted = {} /\ tcp_ctx = <<>> /\ breaking = Absent
    /\ visit = {} /\ held = NoTask
    /\ faults = {} /\ breaks = 0 /\ refusals = 0

\* A fault of this kind; the process may or may not outlive it.
Fault(kind) == faults' = faults \cup {kind}
Survives == alive' = TRUE
Dies == alive' = FALSE

InEventLoop == alive /\ visit = {} /\ breaking = Absent

MoreEvents == breaks + refusals + Cardinality(accepted) < MaxEvents
-----------------------------------------------------------------------------
\* Discovery.

\* Client k sends HELLO to its target and p's handleHello answers it; UDP may lose
\* either, and a later HELLO_ACK of p makes no difference to one under way.
HelloAnswered(k, p) ==
    /\ alive /\ target[k] \in {Broadcast, p}
    /\ acks' = acks \cup {<<k, p>>} /\ acks' # acks
    /\ UNCHANGED <<alive, target, conns, ctx, peerOf, accepted, tcp_ctx, breaking, visit, held,
                   faults, breaks, refusals>>

\* udp_read_cb stores the sender in the context of the client, which write() uses
\* as its target: a broadcast client that was answered sends to that peer alone.
UdpReadCb(k, p) ==
    /\ <<k, p>> \in acks
    /\ acks' = acks \ {<<k, p>>}
    /\ target' = [target EXCEPT ![k] = p]

IsActive(c) == ctx[c] = "active"

\* The constructor of a context: it knows its peer and is active.
NewCtx(p, c) ==
    /\ ctx' = [ctx EXCEPT ![c] = "active"]
    /\ peerOf' = [peerOf EXCEPT ![c] = p]

\* Mutant: the new connection is not stored in conns.
AddConnForgotten(p, c) ==
    /\ conns' = [conns EXCEPT ![p] = Null]
    /\ NewCtx(p, c)
    /\ tcp_ctx' = Append(tcp_ctx, c)

\* addConn, setupConn and connectWithTcp succeed.
AddConnected(p, c) ==
    /\ conns' = [conns EXCEPT ![p] = c]
    /\ NewCtx(p, c)
    /\ tcp_ctx' = Append(tcp_ctx, c)

\* No connection has this number yet, and all below it are taken.
Fresh(c) == ctx[c] = "none" /\ \A d \in Conn : d < c => ctx[d] # "none"

\* addConn looks the peer up with conns[addr], which inserts a null pointer.
HasConn(p) == conns[p] \notin {Absent, Null}

\* handleHelloAck tells the trigger through the mediator to add the peer.
HandleHelloAck(k, p) ==
    /\ InEventLoop /\ UdpReadCb(k, p)
    /\ \/ HasConn(p) /\ UNCHANGED <<conns, ctx, peerOf, tcp_ctx>>
       \/ ~HasConn(p) /\ \E c \in Conn :
             /\ Fresh(c)
             /\ AddConnected(p, c)
    /\ UNCHANGED <<alive, accepted, breaking, visit, held, faults, breaks, refusals>>

\* connect() fails: the container is deleted, and its destructor deletes the
\* context pointer that nobody has set; the null pointer stays in conns.
HelloAckRefused(k, p) ==
    /\ InEventLoop /\ UdpReadCb(k, p) /\ ~HasConn(p) /\ MoreEvents
    /\ conns' = [conns EXCEPT ![p] = Null]
    /\ refusals' = refusals + 1
    /\ \/ Survives /\ UNCHANGED faults
       \/ Dies /\ Fault("freed")
    /\ UNCHANGED <<ctx, peerOf, accepted, tcp_ctx, breaking, visit, held, breaks>>

\* tcp_accept: the session gets the same callbacks and a place in tcp_ctx; no
\* trigger knows of it.
TcpAccept(p) ==
    /\ InEventLoop /\ MoreEvents
    /\ \E c \in Conn :
          /\ Fresh(c)
          /\ NewCtx(p, c)
          /\ tcp_ctx' = Append(tcp_ctx, c)
          /\ accepted' = accepted \cup {c}
    /\ UNCHANGED <<alive, target, acks, conns, breaking, visit, held, faults, breaks, refusals>>
-----------------------------------------------------------------------------
\* Sessions that break.

\* Mutant: the broken session stays in tcp_ctx.
RegistryKept(c) == tcp_ctx

\* The loop over tcp_ctx erases the context where it finds it and stops.
RegistryWithout(c) ==
    IF c \in ToSet(tcp_ctx)
    THEN RemoveAt(tcp_ctx, CHOOSE i \in DOMAIN tcp_ctx : tcp_ctx[i] = c)
    ELSE tcp_ctx

\* event_cb marks the context ...
EventCb(c) ==
    /\ InEventLoop /\ IsActive(c) /\ MoreEvents
    /\ ctx' = [ctx EXCEPT ![c] = "inactive"]
    /\ breaking' = c
    /\ breaks' = breaks + 1
    /\ UNCHANGED <<alive, target, acks, conns, peerOf, accepted, tcp_ctx, visit, held, faults, refusals>>

\* ... and then walks tcp_ctx.  The worker, which takes no lock either, may copy the
\* registry in between, or free the context from an earlier copy.
EventCbErases ==
    /\ alive /\ breaking # Absent
    /\ tcp_ctx' = RegistryWithout(breaking)
    /\ breaking' = Absent
    /\ UNCHANGED <<alive, target, acks, conns, ctx, peerOf, accepted, visit, held, faults, breaks, refusals>>
-----------------------------------------------------------------------------
\* NetTrigger::trigger, one step per key of conns.

TriggerStarts ==
    /\ InEventLoop
    /\ visit' = {p \in Peer : conns[p] # Absent} /\ visit' # {}
    /\ UNCHANGED <<alive, target, acks, conns, ctx, peerOf, accepted, tcp_ctx, breaking, held,
                   faults, breaks, refusals>>

\* reqTbIdx over an open session.
VisitActive(p) ==
    /\ alive /\ p \in visit /\ HasConn(p) /\ IsActive(conns[p])
    /\ visit' = visit \ {p}
    /\ UNCHANGED <<alive, target, acks, conns, ctx, peerOf, accepted, tcp_ctx, breaking, held,
                   faults, breaks, refusals>>

\* con->getAddr() through the null pointer of a refused connection.
VisitNull(p) ==
    /\ alive /\ p \in visit /\ conns[p] = Null
    /\ Dies /\ Fault("null")
    /\ UNCHANGED <<target, acks, conns, ctx, peerOf, accepted, tcp_ctx, breaking, visit, held,
                   breaks, refusals>>

\* Mutant: the key of a dropped connection stays in the map.
DelNetAddrKeepingKey(p) == conns

\* delNetAddr erases the key and deletes the container.
DelNetAddr(p) == [conns EXCEPT ![p] = Absent]

\* The destructor of a TCP context closes its socket ...
Release(c) == ctx' = [ctx EXCEPT ![c] = "freed"]

\* ... and that of its base class takes it off the list it is in.
FreeCtx(c) ==
    /\ Release(c)
    /\ tcp_ctx' = RegistryWithout(c)

\* write() over a broken session deletes the context and throws; reqTbIdx
\* catches that and passes the freed context on to delNetAddr, whose delete of
\* the container deletes it again; trigger() goes on from the erased key.
VisitBroken(p) ==
    /\ alive /\ p \in visit /\ HasConn(p) /\ ~IsActive(conns[p])
    /\ FreeCtx(conns[p])
    /\ Fault("freed")
    /\ \/ Dies /\ UNCHANGED <<conns, visit>>
       \/ Survives /\ conns' = DelNetAddr(p) /\ visit' \in {{}, visit \ {p}}
    /\ UNCHANGED <<target, acks, peerOf, accepted, breaking, held, breaks, refusals>>
-----------------------------------------------------------------------------
\* The worker, reduced to its use of sessions.

\* c is the newest session of p in tcp_ctx; Null if there is none.
NewestSession(p, c) ==
    \/ c = Null /\ \A i \in DOMAIN tcp_ctx : peerOf[tcp_ctx[i]] # p
    \/ \E i \in DOMAIN tcp_ctx :
          /\ c = tcp_ctx[i] /\ peerOf[c] = p
          /\ \A j \in DOMAIN tcp_ctx : j > i => peerOf[tcp_ctx[j]] # p

\* getAllTcpSession at the start of a task: the newest session of each peer.
CopySessions ==
    /\ alive /\ held = NoTask
    /\ \E h \in [Peer -> Conn \cup {Null}] :
          /\ \A p \in Peer : NewestSession(p, h[p])
          /\ held' = h
    /\ UNCHANGED <<alive, target, acks, conns, ctx, peerOf, accepted, tcp_ctx, breaking, visit,
                   faults, breaks, refusals>>

TaskEnds ==
    /\ alive /\ held # NoTask
    /\ held' = NoTask
    /\ UNCHANGED <<alive, target, acks, conns, ctx, peerOf, accepted, tcp_ctx, breaking, visit,
                   faults, breaks, refusals>>

\* sendRsReq through a pointer that is null, or whose context broke (write()
\* deletes it and sendRsReq deletes it again) or is freed already.
SendFaults(p) ==
    /\ alive /\ held # NoTask
    /\ held' = NoTask
    /\ \/ held[p] = Null /\ Dies /\ Fault("null") /\ UNCHANGED <<ctx, tcp_ctx>>
       \/ /\ held[p] # Null /\ ~IsActive(held[p])
          /\ Fault("freed") /\ (Dies \/ Survives)
          /\ FreeCtx(held[p])
    /\ UNCHANGED <<target, acks, conns, peerOf, accepted, breaking, visit, breaks, refusals>>
-----------------------------------------------------------------------------
Trigger ==
    \/ TriggerStarts
    \/ \E p \in Peer : VisitActive(p) \/ VisitNull(p) \/ VisitBroken(p)

Next ==
    \/ Trigger \/ CopySessions \/ TaskEnds
    \/ \E k \in Client, p \in Peer :
          HelloAnswered(k, p) \/ HandleHelloAck(k, p) \/ HelloAckRefused(k, p)
    \/ \E p \in Peer : SendFaults(p) \/ TcpAccept(p)
    \/ \E c \in Conn : EventCb(c)
    \/ EventCbErases

(***************************************************************************)
(* The timers of main.cpp fire again and again, and so does the loop of    *)
(* the trigger and a callback that has begun; a HELLO that keeps being     *)
(* sent to a peer is answered some time, and its answer handled.           *)
(***************************************************************************)
Fairness ==
    /\ WF_vars(Trigger) /\ WF_vars(EventCbErases)
    /\ \A k \in Client, p \in Peer :
          WF_vars(HelloAnswered(k, p)) /\ SF_vars(HandleHelloAck(k, p))

Spec == Init /\ [][Next]_vars /\ Fairness
-----------------------------------------------------------------------------
\* An open session that this node opened is the one conns holds for its address:
\* repeated HELLO_ACKs, broken sessions and reconnects never leave one that no timer
\* uses, nor two to one address.  (Sessions that peers opened are in no conns, and a
\* server with several addresses is several keys.)
ActiveIsTriggered ==
    \A c \in Conn \ accepted : ctx[c] = "active" => conns[peerOf[c]] = c

\* tcp_ctx holds the open sessions of both kinds and, while event_cb runs, at most the
\* one it has marked and not yet taken off: a session that broke before stays in no
\* registry, so a task that starts later cannot copy it, and one that starts within
\* the callback copies no other broken session.
RegistryIsActive ==
    ToSet(tcp_ctx) = {c \in Conn : ctx[c] = "active" \/ (c = breaking /\ ctx[c] = "inactive")}

\* Memory that is not there is touched only after a session broke or a connect
\* was refused, or by a worker that was handed an owner without a session.
FaultNeedsBreak ==
    [][(faults' # faults /\ (held' = held \/ "freed" \in faults' \ faults))
           => breaks + refusals' > 0]_vars

\* HELLOs still go to this peer.
Reached(p) == \E k \in Client : target[k] \in {Broadcast, p}

\* The node has a session to p that it opened and that is in this state.
OpenedSession(p, state) == \E c \in Conn \ accepted : peerOf[c] = p /\ ctx[c] = state

\* A peer whose session, opened by this node, broke gets a new one, if the process
\* survives and for as long as HELLOs go to that peer: always when it is listed in
\* ip.discovery, but when it is found by broadcast only until another peer answers later.
Reconnects ==
    \A p \in Peer : (Reached(p) /\ OpenedSession(p, "inactive"))
        ~> (~alive \/ ~Reached(p) \/ OpenedSession(p, "active"))
=============================================================================
