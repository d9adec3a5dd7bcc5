----------------------------- MODULE SyncEngine -----------------------------
(***************************************************************************)
(* How one node fetches resources: the event loop (main thread) handles    *)
(* table indexes and block replies, updates the sync table and queues one  *)
(* ReqRsTask per uri; the worker thread of TaskManager runs the tasks,     *)
(* each of which requests at most one block from one owner.  The threads   *)
(* share the sync table (module RsSyncManager), the task queue and the     *)
(* list of TCP sessions, and the worker reads them one call at a time.     *)
(*                                                                         *)
(* The other nodes are reduced to what they serve.  A reply is read from   *)
(* the serving peer's file when it is delivered; a TCP session delivers in *)
(* order and loses what is under way when it breaks.                       *)
(*                                                                         *)
(* Two sessions may join this node and a peer: "out", which this node      *)
(* opened, and "in", which the peer opened.  Their contexts carry the same *)
(* IP and different ports; both run the whole protocol.                    *)
(***************************************************************************)
EXTENDS RsSyncManager, Sequences, FiniteSets

CONSTANTS DOWNLOAD_LIMIT,   \* requested blocks per resource
          Version,          \* contents a file may have: [size, hash] records
          NoFile,           \* there is no such file
          Served,           \* what each peer serves initially
          MaxDisconnects,   \* bound on broken sessions
          MaxChanges,       \* bound on changes of the peers' files
          PeersConnect,     \* whether peers open sessions to this node
          WritesMayFail     \* whether open() may fail in writeFile

ASSUME VersionAssumption == Version \subseteq [size : Size, hash : Hash]
ASSUME ServedAssumption == Served \in [Peer -> [Uri -> Version \cup {NoFile}]]
ASSUME LimitAssumption == DOWNLOAD_LIMIT \in Nat \ {0}
ASSUME PeerAssumption == IsFiniteSet(Peer)

VARIABLES tasks,      \* TaskManager::tasks; a task is its uri, which is its id too
          worker,     \* ReqRsTask::run: program counter and local variables
          main,       \* the handler the event loop is in
          tcp_ctx,    \* the open sessions of each peer, the oldest first
          pending,    \* requests sent over a session and not answered, in order
          srv,        \* the files of the peers
          disk,       \* the files below resource.home
          disconnects, changes    \* how much of the bounds is used

mgrVars == <<uriRs, alive, adv>>
envVars == <<srv, disconnects, changes>>
engineVars == <<uriRs, alive, adv, tasks, worker, main, tcp_ctx, pending, srv, disk,
                disconnects, changes>>

Session == Peer \X {"out", "in"}

\* The address in the context of a session: the peer's server for a session
\* this node opened, another port of the same IP for one it accepted.
CtxPeer(p, d) == IF d = "out" THEN p ELSE <<p, d>>

HasSession(p, d) == \E i \in DOMAIN tcp_ctx[p] : tcp_ctx[p][i] = d

NoSession == <<"none", FALSE>>

\* Sizes are of type size_t, so there is a largest one.
ASSUME SizeBoundAssumption == \E m \in Size : \A s \in Size : s <= m

\* The offsets of the longest file.
Offset == 0 .. CHOOSE m \in Size : \A s \in Size : s <= m

FileType == [len : Nat, data : [Offset -> Version \cup {NoFile}]]

ASSUME NoFileAssumption == NoFile \notin Version /\ NoFile \notin FileType /\ NoFile \notin Peer

IdleWorker == [pc |-> "idle", uri |-> NoFile, idx |-> [p \in Peer |-> NoSession],
               owner |-> {}, owner_size |-> 0, peer |-> NoFile, block |-> NoBlock]

EventLoop == [pc |-> "loop", peer |-> NoFile, todo |-> {}, seen |-> {}]

EngineInit ==
    /\ Init
    /\ tasks = <<>> /\ worker = IdleWorker /\ main = EventLoop
    /\ tcp_ctx = [p \in Peer |-> <<"out">>]
    /\ pending = [s \in Session |-> <<>>]
    /\ srv = Served
    /\ disk = [u \in Uri |-> NoFile]
    /\ disconnects = 0 /\ changes = 0
-----------------------------------------------------------------------------
\* The local files.

\* The bytes of block b of content v are written at their place; a file that
\* is shorter grows, with a hole where nothing was written.
Saved(f, b, v) ==
    LET old == IF f = NoFile THEN [len |-> 0, data |-> [o \in Offset |-> NoFile]] ELSE f
    IN [len  |-> IF old.len < b.end THEN b.end ELSE old.len,
        data |-> [o \in Offset |-> IF b.start <= o /\ o < b.end THEN v ELSE old.data[o]]]

\* The file holds content v from its first byte to its last.
Holds(f, v) == f # NoFile /\ f.len = v.size /\ \A o \in 0 .. v.size - 1 : f.data[o] = v

(***************************************************************************)
(* cmpThenRetNeedToSyncTable for one uri: the answers it may give.  Equal  *)
(* sizes are told apart by compareChar, which looks at the first character *)
(* of the two digests only, so different contents may pass as equal.       *)
(***************************************************************************)
NeedToSync(u, v) ==
    IF v = NoFile THEN {FALSE}
    ELSE IF disk[u] = NoFile \/ disk[u].len < v.size THEN {TRUE}
    ELSE IF disk[u].len > v.size \/ Holds(disk[u], v) THEN {FALSE}
    ELSE BOOLEAN
-----------------------------------------------------------------------------
\* The event loop.

\* handleReplyTableIndex, up to refreshSyncingRsByTbIdx: the resources of p
\* that the comparison with the local table leaves over.
HandleReplyTableIndex(p) ==
    /\ alive /\ main.pc = "loop" /\ HasSession(p, "out")
    /\ \E need \in [Uri -> BOOLEAN] :
          /\ \A u \in Uri : need[u] \in NeedToSync(u, srv[p][u])
          /\ main' = [pc |-> "refresh", peer |-> p, seen |-> {},
                      todo |-> {[uri |-> u, rs |-> srv[p][u]] : u \in {x \in Uri : need[x]}}]
    /\ UNCHANGED <<uriRs, alive, adv, tasks, worker, tcp_ctx, pending, disk, envVars>>

\* refreshSyncingRsByTbIdx: one call of regSyncRs per resource.
RefreshSyncingRs ==
    /\ main.pc = "refresh"
    /\ \E t \in main.todo :
          /\ RegSyncRs(main.peer, t.uri, t.rs.hash, t.rs.size)
          /\ main' = [main EXCEPT !.todo = @ \ {t}]
    /\ UNCHANGED <<tasks, worker, tcp_ctx, pending, disk, envVars>>

RefreshDone ==
    /\ alive /\ main.pc = "refresh" /\ main.todo = {}
    /\ main' = [EventLoop EXCEPT !.pc = "addreq"]
    /\ UNCHANGED <<uriRs, alive, adv, tasks, worker, tcp_ctx, pending, disk, envVars>>

Queued(u) == \E i \in DOMAIN tasks : tasks[i] = u

\* add_req_task's condition for queueing a task, without addTask's own.
WantsTask(u) == Cardinality(uriRs[u].syncing) < DOWNLOAD_LIMIT

\* One iteration of add_req_task, for a uri of the table; addTask refuses a
\* task whose id is in the queue.  The size is read under the mutex of the table
\* and the task added under that of the queue; what the worker does between the
\* two only makes the queue shorter or delays the same task.
AddReqTask ==
    /\ alive /\ main.pc = "addreq"
    /\ \E u \in Uri \ main.seen :
          /\ uriRs[u] # Absent
          /\ tasks' = IF WantsTask(u) /\ ~Queued(u) THEN Append(tasks, u) ELSE tasks
          /\ main' = [main EXCEPT !.seen = @ \cup {u}]
    /\ UNCHANGED <<uriRs, alive, adv, worker, tcp_ctx, pending, disk, envVars>>

AddReqDone ==
    /\ alive /\ main.pc = "addreq"
    /\ \A u \in Uri \ main.seen : uriRs[u] = Absent
    /\ main' = EventLoop
    /\ UNCHANGED <<uriRs, alive, adv, tasks, worker, tcp_ctx, pending, disk, envVars>>

\* The server reads from its file; a block that runs past the end is cut, and
\* one that starts there, or a uri it does not know, gets no reply at all.
Replied(v, b) == Block(b.start, LesserOf(b.end, v.size))

Answers(v, b) == v # NoFile /\ b.start < v.size

\* Mutant: the range is closed without saving the data.
SaveLocalNothing(u, b, v) == disk' = disk

\* saveLocal, whose result is never false: writeFile returns an unsigned
\* length, which saveLocal compares with < 0.
SaveLocal(u, b, v) ==
    \/ disk' = [disk EXCEPT ![u] = Saved(disk[u], b, v)]
    \/ WritesMayFail /\ disk' = disk

\* handleReplyResource, up to add_req_task: save first, then close the range
\* of the address the session carries.
HandleReplyResource(p, d) ==
    /\ main.pc = "loop" /\ pending[<<p, d>>] # <<>>
    /\ LET req == Head(pending[<<p, d>>])
           v == srv[p][req.uri]
       IN /\ Answers(v, req.block)
          /\ SaveLocal(req.uri, Replied(v, req.block), v)
          /\ SyncingRangeDoneAndValid(CtxPeer(p, d), req.uri, Replied(v, req.block))
    /\ pending' = [pending EXCEPT ![<<p, d>>] = Tail(@)]
    /\ main' = [EventLoop EXCEPT !.pc = "addreq"]
    /\ UNCHANGED <<tasks, worker, tcp_ctx, envVars>>

\* handleReqResource of the peer returns without a reply.
NoReply(p, d) ==
    /\ alive /\ pending[<<p, d>>] # <<>>
    /\ ~Answers(srv[p][Head(pending[<<p, d>>]).uri], Head(pending[<<p, d>>]).block)
    /\ pending' = [pending EXCEPT ![<<p, d>>] = Tail(@)]
    /\ UNCHANGED <<uriRs, alive, adv, tasks, worker, main, tcp_ctx, disk, envVars>>

\* event_cb: the session is marked inactive and leaves tcp_ctx.  The sync
\* table is not told.  A registry that the worker copies between the two is the
\* one it would have copied just before (module Connections has both steps).
EventCb(p, d) ==
    /\ alive /\ main.pc = "loop" /\ disconnects < MaxDisconnects
    /\ \E i \in DOMAIN tcp_ctx[p] :
          /\ tcp_ctx[p][i] = d
          /\ tcp_ctx' = [tcp_ctx EXCEPT ![p] = SubSeq(@, 1, i - 1) \o SubSeq(@, i + 1, Len(@))]
    /\ pending' = [pending EXCEPT ![<<p, d>>] = <<>>]
    /\ worker' = [worker EXCEPT !.idx[p] = IF @ = <<d, TRUE>> THEN <<d, FALSE>> ELSE @]
    /\ disconnects' = disconnects + 1
    /\ UNCHANGED <<uriRs, alive, adv, tasks, main, srv, disk, changes>>

\* handleHelloAck leads to connectWithTcp: a session with p is opened again.
ConnectWithTcp(p) ==
    /\ alive /\ main.pc = "loop" /\ ~HasSession(p, "out")
    /\ tcp_ctx' = [tcp_ctx EXCEPT ![p] = Append(@, "out")]
    /\ UNCHANGED <<uriRs, alive, adv, tasks, worker, main, pending, disk, envVars>>

\* tcp_accept: p opens a session to this node.
TcpAccept(p) ==
    /\ alive /\ main.pc = "loop" /\ PeersConnect /\ ~HasSession(p, "in")
    /\ tcp_ctx' = [tcp_ctx EXCEPT ![p] = Append(@, "in")]
    /\ UNCHANGED <<uriRs, alive, adv, tasks, worker, main, pending, disk, envVars>>

\* A peer's file is replaced by other content, or removed.
PeerChanges(p, u, v) ==
    /\ alive /\ changes < MaxChanges /\ v # srv[p][u]
    /\ srv' = [srv EXCEPT ![p][u] = v]
    /\ changes' = changes + 1
    /\ UNCHANGED <<uriRs, alive, adv, tasks, worker, main, tcp_ctx, pending, disk, disconnects>>
-----------------------------------------------------------------------------
\* The worker: TaskManager::start and ReqRsTask::run, one step per access to
\* something the threads share.

\* Mutant: the loop over tcp_ctx stops before its last element.
GetAllTcpSessionOffByOne ==
    [p \in Peer |-> IF Len(tcp_ctx[p]) < 2 THEN NoSession
                    ELSE <<tcp_ctx[p][Len(tcp_ctx[p]) - 1], TRUE>>]

\* getAllTcpSession: the map's key is the IP, so the newest session of a peer
\* stands for it.
GetAllTcpSession ==
    [p \in Peer |-> IF tcp_ctx[p] = <<>> THEN NoSession
                    ELSE <<tcp_ctx[p][Len(tcp_ctx[p])], TRUE>>]

\* Take the front task; run() starts with getAllTcpSession().
Take ==
    /\ alive /\ worker.pc = "idle" /\ tasks # <<>>
    /\ worker' = [IdleWorker EXCEPT !.pc = "copy", !.uri = Head(tasks), !.idx = GetAllTcpSession]
    /\ tasks' = Tail(tasks)
    /\ UNCHANGED <<uriRs, alive, adv, main, tcp_ctx, pending, disk, envVars>>

\* SyncRs rs = rsm.getAllUriRs()[uri]; only the owners of the copy are used.
CopyRs ==
    /\ worker.pc = "copy"
    /\ Get(worker.uri)
    /\ worker' = [worker EXCEPT !.pc = "owners", !.owner = uriRs'[worker.uri].owner]
    /\ UNCHANGED <<tasks, main, tcp_ctx, pending, disk, envVars>>

ReadOwnerSize ==
    /\ worker.pc = "owners"
    /\ Get(worker.uri)
    /\ LET n == Cardinality(uriRs'[worker.uri].owner)
       IN worker' = IF n = 0 THEN IdleWorker
                    ELSE [worker EXCEPT !.pc = "blocks", !.owner_size = n]
    /\ UNCHANGED <<tasks, main, tcp_ctx, pending, disk, envVars>>

ReadBlockSize ==
    /\ worker.pc = "blocks"
    /\ Get(worker.uri)
    /\ worker' = IF uriRs'[worker.uri].block = {} THEN IdleWorker
                 ELSE [worker EXCEPT !.pc = "syncing"]
    /\ UNCHANGED <<tasks, main, tcp_ctx, pending, disk, envVars>>

\* Mutant: one request more than the limit.
AtLimitOffByOne(n) == n > DOWNLOAD_LIMIT

AtLimit(n) == n >= DOWNLOAD_LIMIT

ReadSyncingSize ==
    /\ worker.pc = "syncing"
    /\ Get(worker.uri)
    /\ worker' = IF AtLimit(Cardinality(uriRs'[worker.uri].syncing)) THEN IdleWorker
                 ELSE [worker EXCEPT !.pc = "pick"]
    /\ UNCHANGED <<tasks, main, tcp_ctx, pending, disk, envVars>>

\* peer = rs.owner[who] with who drawn below the owner_size read later than the
\* copy; then regReqSyncRsAuto.  b.end = 0 means there is nothing to send.
PickPeer ==
    /\ worker.pc = "pick"
    /\ \E p \in worker.owner, b \in Blocks :
          /\ RegReqSyncRsAuto(p, worker.uri, b)
          /\ worker' = IF b.end = 0 THEN IdleWorker
                       ELSE [worker EXCEPT !.pc = "send", !.peer = p, !.block = b]
    /\ UNCHANGED <<tasks, main, tcp_ctx, pending, disk, envVars>>

\* who is no index of the copy: the address read is garbage.  Either the read
\* ends the process or the garbage is no owner and regReqSyncRsAuto finds none.
PickOutOfRange ==
    /\ worker.pc = "pick" /\ worker.owner_size > Cardinality(worker.owner)
    /\ \/ alive /\ Crash /\ UNCHANGED adv
       \/ worker.owner # {} /\ Get(worker.uri)
    /\ worker' = IdleWorker
    /\ UNCHANGED <<tasks, main, tcp_ctx, pending, disk, envVars>>

Request == [uri |-> worker.uri, block |-> worker.block]

\* Mutant: the request goes to the peer twice.
RequestSentTwice(s) == pending' = [pending EXCEPT ![s] = @ \o <<Request, Request>>]

\* Mutant: the request is lost.
RequestLost(s) == pending' = pending

RequestSent(s) == pending' = [pending EXCEPT ![s] = Append(@, Request)]

\* sendRsReq on a session that is still open.
SendRsReq ==
    /\ alive /\ worker.pc = "send" /\ worker.idx[worker.peer][2]
    /\ RequestSent(<<worker.peer, worker.idx[worker.peer][1]>>)
    /\ worker' = IdleWorker
    /\ UNCHANGED <<uriRs, alive, adv, tasks, main, tcp_ctx, disk, envVars>>

\* sendRsReq on a session that broke meanwhile: write() deletes the context and
\* throws, the handler gives back the ranges of the session's address and
\* deletes the context again.  The second delete may end the process.
SendFails ==
    /\ worker.pc = "send"
    /\ worker.idx[worker.peer] # NoSession /\ ~worker.idx[worker.peer][2]
    /\ \/ UnregAllReqSyncRsByPeer(CtxPeer(worker.peer, worker.idx[worker.peer][1]), worker.uri)
       \/ alive /\ Crash /\ UNCHANGED adv
    /\ worker' = IdleWorker
    /\ UNCHANGED <<tasks, main, tcp_ctx, pending, disk, envVars>>

\* idx[peer] is a null pointer when p had no session: ctx->getPeer() faults.
SendWithoutSession ==
    /\ alive /\ worker.pc = "send" /\ worker.idx[worker.peer] = NoSession
    /\ Crash
    /\ UNCHANGED <<adv, tasks, worker, main, tcp_ctx, pending, disk, envVars>>
-----------------------------------------------------------------------------
Worker ==
    \/ Take \/ CopyRs \/ ReadOwnerSize \/ ReadBlockSize \/ ReadSyncingSize
    \/ PickPeer \/ PickOutOfRange
    \/ SendRsReq \/ SendFails \/ SendWithoutSession

Handler == RefreshSyncingRs \/ RefreshDone \/ AddReqTask \/ AddReqDone

EngineNext ==
    \/ Worker
    \/ Handler
    \/ \E p \in Peer :
          \/ HandleReplyTableIndex(p) \/ ConnectWithTcp(p) \/ TcpAccept(p)
          \/ \E d \in {"out", "in"} :
                HandleReplyResource(p, d) \/ NoReply(p, d) \/ EventCb(p, d)
          \/ \E u \in Uri, v \in Version \cup {NoFile} : PeerChanges(p, u, v)

EngineSafety == EngineInit /\ [][EngineNext]_engineVars

(***************************************************************************)
(* Both threads run; the table index is requested on a timer, so every     *)
(* connected peer's is handled again and again; a session delivers.        *)
(***************************************************************************)
EngineFairness ==
    /\ WF_engineVars(Worker)
    /\ WF_engineVars(Handler)
    /\ \A p \in Peer :
          /\ SF_engineVars(HandleReplyTableIndex(p))
          /\ \A d \in {"out", "in"} : SF_engineVars(HandleReplyResource(p, d))

EngineSpec == EngineSafety /\ EngineFairness
-----------------------------------------------------------------------------
\* What is asked of the engine.

\* The content an entry of the table is about.
VersionOf(e) == [size |-> e.size, hash |-> e.hash]

IsReal(u) == uriRs[u] # Absent /\ uriRs[u].hash # NoHash

\* At most DOWNLOAD_LIMIT blocks of a resource are requested at a time: the
\* worker's check and its registration are two calls, with the event loop
\* replacing and erasing entries in between.
DownloadLimitKept ==
    \A u \in Uri : uriRs[u] # Absent => Cardinality(uriRs[u].syncing) <= DOWNLOAD_LIMIT

\* The requests for u that wait at the peers, each with its place.
Waiting(u) ==
    UNION {{<<s, i>> : i \in {j \in DOMAIN pending[s] : pending[s][j].uri = u}} : s \in Session}

\* The limit counts ranges of the table, and the table forgets ranges whose
\* requests are still under way: when a bigger resource replaces the entry,
\* and when a send over a broken session gives back the blocks that were
\* requested over another one.  Each change of the peer's file and each broken
\* session forgets one limit's worth at most, so the requests that wait at the
\* peer stay bounded (one peer).
WaitingRequestsBounded ==
    \A u \in Uri :
        Cardinality(Waiting(u)) <= DOWNLOAD_LIMIT * (1 + disconnects + changes)

\* Every range of the table is on its way: its request waits at the peer or
\* the worker is about to send it.  Nothing is marked as requested that nobody
\* will answer (sessions and peers' files do not change).
RangesAreRequested ==
    alive => \A u \in Uri : uriRs[u] # Absent => \A r \in uriRs[u].syncing :
        \/ \E d \in {"out", "in"} : \E i \in DOMAIN pending[<<r.peer, d>>] :
              pending[<<r.peer, d>>][i] = [uri |-> u, block |-> r.block]
        \/ worker.pc = "send" /\ worker.uri = u /\ worker.peer = r.peer
              /\ worker.block = r.block

\* A block is never under way twice, neither from one peer nor from two
\* (sessions and peers' files do not change).
NoBlockRequestedTwice ==
    \A s, t \in Session : \A i \in DOMAIN pending[s], j \in DOMAIN pending[t] :
        pending[s][i] = pending[t][j] => s = t /\ i = j

\* The bytes of a block that the table counts as fetched are in the local file.
FetchedIsSaved ==
    \A u \in Uri : IsReal(u) => \A b \in uriRs[u].done :
        /\ disk[u] # NoFile
        /\ \A o \in b.start .. b.end - 1 : disk[u].data[o] = VersionOf(uriRs[u])

\* When an entry leaves the table the local file has the content it was about:
\* its hash is valid (docs/resource_manager.md lines 40 and 41).
ErasedWhenHashValid ==
    [][\A u \in Uri :
          (IsReal(u) /\ uriRs'[u] = Absent) => Holds(disk'[u], VersionOf(uriRs[u]))]_engineVars

\* The reply of a peer closes the range requested from it, whichever of its
\* sessions the request took (docs/readme.md line 181: a session between two
\* nodes can run every action of the protocol).
ReplyClosesRange ==
    [][\A s \in Session : \A u \in Uri, b \in Blocks :
          (/\ pending'[s] # pending[s] /\ disk' # disk
           /\ Head(pending[s]) = [uri |-> u, block |-> b]
           /\ uriRs[u] # Absent /\ uriRs'[u] # Absent /\ alive') =>
              SyncingRange(s[1], b) \notin uriRs'[u].syncing]_engineVars

\* While sessions and peers' files do not change, the only step that can end
\* the process is the read of an owner past the end of the worker's copy.  No
\* reply meets an entry whose vector syncing never held a range, though the
\* worker's getters re-create entries that the event loop has erased.
CrashesOnlyOnOwnerIndex ==
    [][(alive /\ ~alive') =>
          worker.pc = "pick" /\ worker.owner_size > Cardinality(worker.owner)]_engineVars

\* A resource that a peer serves is fetched completely.  One table index is
\* enough to start it: each reply queues the task for the next block.
EventuallyFetched ==
    \A u \in Uri : <>(~alive \/ \E p \in Peer : srv[p][u] # NoFile /\ Holds(disk[u], srv[p][u]))

\* The blocks requested from a peer whose session broke are given back for
\* another peer (docs/resource_manager.md line 55).
BrokenSessionGivesBack ==
    \A p \in Peer, u \in Uri :
        (tcp_ctx[p] = <<>> /\ uriRs[u] # Absent /\ \E r \in uriRs[u].syncing : r.peer = p)
            ~> (~alive \/ tcp_ctx[p] # <<>> \/ uriRs[u] = Absent
                \/ \A r \in uriRs[u].syncing : r.peer # p)
=============================================================================
