# lan_sync in TLA+

lan_sync keeps the files of the nodes of a LAN the same. Every node runs one process: it
finds the others by UDP broadcast, opens a TCP session to each, asks for their table of
files on a timer, and fetches in blocks of 1 MiB whatever it lacks or has in a smaller
version. This directory holds TLA+ models of that process, TLC runs over small instances
of them and TLAPS proofs for instances of any size. Paths below are relative to the
repository's `src/` directory unless they begin with `docs/`.

## 1. Inventory

The process has two threads: the libevent loop (main thread), which runs every callback,
timer and message handler to completion one after another, and the worker thread of
`TaskManager`, which runs the queued `ReqRsTask`s. They share the sync table (with a
mutex, but not in every operation), the task queue (with a mutex and a condition
variable) and the list of TCP sessions (without a lock).

| Component | State | Operations | Module |
|---|---|---|---|
| Sync table, `modules/rs_sync_mamanger.cpp` | `uriRs`: for each uri being fetched the size, hash, owners, blocks to request, ranges requested | `regSyncRs`/`updateSyncRs`, `regReqSyncRsAuto`, `unregReqSyncRsByBlock`, `unregAllReqSyncRsByPeer`, `syncingRangeDoneAndValid`, getters | `SyncRs`, `SyncRsCtor`, `RsSyncManager`, `RsSyncVectors` |
| Request task, `modules/task/req_rs_task.cpp` | the locals of the task that runs | `ReqRsTask::run`, `sendRsReq` | `SyncEngine` |
| Task queue, `modules/task/task_manager.cpp` | `tasks`, `stopFlg`, the singleton and its worker | `getTaskManager`, `addTask`, `stop`, the worker loop, the destructor | `TaskManager` in `Process`; `SyncEngine` |
| Service and controller, `logics/` | none of its own | the handlers of the message types, `add_req_task`, `exit` | `SyncEngine`, `BlockTransfer`, `Connections`, `Process` |
| Local resources, `modules/rs_local_manager.cpp` | `table`, the files below `resource.home` | `refreshTable`, `getTable`, `queryByUri`, `validRes`, `cmpThenRetNeedToSyncTable`, `saveLocal` | `RsLocalManager`, `SyncEngine`, `BlockTransfer` |
| Sessions, `net/` | `tcp_ctx`, `udp_ctx`, the contexts, their `active` flag and their peer | `connectWithTcp`, `connectWithUdp`, `tcp_accept`, `event_cb`, `read_cb`, `udp_read_cb`, `write`, `getAllTcpSession`, `addTcpServer`, `addUdpServer`, `shutdown`, `free` | `Connections`, `SyncEngine`, `Framing`, `Process` |
| Discovery, triggers, mediator, timer | `conns` of both triggers, `mods` | HELLO, HELLO_ACK, `addConn`, `delNetAddr`, `trigger`, `mod_tel`, `add` | `Connections`, `Process` |
| Packets, `proto/lan_share_protocol.cpp` | the lengths and headers of a packet | `addXheader`, `setData`, `write`, the parsing constructor, `Range`, `ContentRange` | `LanSyncPkt`, `RangeHeaders`, `Framing` |
| File access, `utils/io_utils.cpp`, `components/sync_io_read_monitor.cpp` | the file, the position of a call | `readSize` with its monitor, `readAll`, `writeFile` | `IoUtil` in `BlockTransfer` |
| Configuration and addresses, `modules/config_manager.cpp`, `utils/properties_parse.cpp`, `net/net_addr.cpp` | `properties` | `query`, `queryList`, parsing of a line and of an address | `ConfigManager`, `NetAddr` |
| Interfaces, `LocalPort` in `proto/lan_share_protocol.cpp` | the descriptors it leaves open | `query`, `existIp` | `Process` |
| Wiring, `main.cpp` | where `main()` is | start-up, the event loop, the end | `Process` |
| Logging, `want_to_sync_vo`, cxxopts | | | not modelled |

How the parts interact: a HELLO_ACK goes from the controller to the service and through
the mediator to the table-index trigger, which opens a session. The trigger's timer sends
GET_TABLE_INDEX over each session. The reply is compared with the local table, what is
missing goes into the sync table, and `add_req_task` queues one task per uri that is below
`DOWNLOAD_LIMIT`. A task copies the list of sessions and the entry, draws an owner,
registers one block and sends GET_RESOURCE. The reply is written to the file, closes its
range in the table, and queues the next task.

What is hard here:

* the worker reads shared state in six separate calls, between which the event loop may
  replace, extend or erase the entry, and it uses sessions copied before all of them;
* replies may outlive the entry they were requested for;
* sessions break with requests under way, and contexts are freed in several places;
* a peer may be reached over a session this node opened and over one it accepted;
* `std::map::operator[]` inserts default entries in every getter;
* TCP cuts packets anywhere and a callback handles a limited number of them;
* files change, and system calls come back short or fail, in the middle of a transfer;
* the worker may be anywhere when an EXIT stops it, deletes its own manager, and the
  `stop()` and the callback that stopped it go on;
* every packet and every accepted session costs a descriptor, and the process ends when there is none.

`PROJECT.json` lists these hazards line by line with the properties aimed at each.

## 2. Modules

**SyncRs** has the blocks and `Split`, the closed form of what the constructor of `SyncRs`
cuts from a size. `NumBlocks` keeps the arithmetic of `size / BLOCK_SIZE + 1` with a macro
that has no parentheses (divide by 1024, multiply by 1024, add one) in a 32-bit `uint`.

**SyncRsCtor** is that constructor's loop, one step per iteration. It is run as the first
part of `BlockTransfer`.

**RangeHeaders** follows a block through the strings of `range` and `content-range`
(`Serve`, `Transfer`): from `sendRsReq` to the block the requester saves and closes.

**IoUtil** is the file access of both ends by system call. A byte is the file it comes from
and its offset, so that a byte at a wrong place, of another version, or from behind the buffer
shows. Between two calls the user of the serving node may put another file at the path, cut
the file or remove it; an open descriptor keeps its file. Reads and writes may come back
short, writes and opens may fail. `file_size` throws for a path that is gone: while a block is served
`handleReqResource` catches that, during a digest nothing does and the process ends (`ReaderGone`).

**BlockTransfer** composes the constructor, `RangeHeaders` and `IoUtil`: the announced size is
cut, each block requested, served and saved. `RepliesAreTransfer` says that the closed form
`Transfer` describes what the calls of `readSize` answer; `FileArrives` is the promise of the
whole path.

**RsSyncManager** is the table with one action per operation. An operation is one step:
it runs under the mutex, or (`regSyncRs`, `getAllUriRs`) makes a single access. Vectors are
sets; which block is handed out next is left open. Two details of the C++ are kept because
they decide outcomes: `uriRs[uri]` inserts a default entry whose size is uninitialised
(`At`, `DefaultRs`), and a reverse loop from `end() - 1` over a vector that never owned
storage dereferences a wild pointer (`ReverseLoopCrashes`, field `alloc`). `done` and `adv`
are history variables.

**RsSyncVectors** keeps the vectors as sequences, with the order of pushes, pops and reverse
searches, and is shown to implement `RsSyncManager` (`ImplementsTable`, a refinement mapping
from sequences to their sets).

**SyncEngine** extends `RsSyncManager` with the rest of one node: the handler the event loop
is in (`main`), the worker with one step per access to shared state (`worker.pc`: idle, copy,
owners, blocks, syncing, pick, send), the task queue, the sessions of each peer, the
requests under way on each session, the peers' files and the local files. A session is "out"
(opened by this node; its context has the server's port) or "in" (accepted; another port of
the same IP), which matters because the session map compares IPs and ranges compare
addresses. A reply is read from the peer's file when it is delivered; it may be short or
missing. An out-of-range owner index, a null context and a second delete of a context are
steps of their own that may end the process (`alive`).

**RsLocalManager** is the local table and the comparison with a peer's table. A uri is a
directory and a file name, a digest its first character and the rest, because the comparison
goes by name and `compareChar` by the first character. A later entry of a peer's table
replaces an earlier one of the same name (`Filtered`).

**Connections** is discovery, the table-index trigger and the life of contexts. `target` is
where each UDP client of the discovery trigger sends: `udp_read_cb` writes the sender of
whatever it received into the context that `write` uses, so a client changes its target with
every answer. Sessions are opened by the trigger or accepted (`accepted`), and both kinds are in
`tcp_ctx`. `event_cb` is two steps, `EventCb` (the context is marked inactive, `breaking` remembers it) and `EventCbErases` (it leaves
`tcp_ctx`), because the worker reads the registry and frees contexts without a lock. A use of freed
memory either ends the process or reads the memory as it was; memory that is reused in between is not modelled.

**NetAddr** and **ConfigManager** are addresses and the configuration file. A text is a sequence
of tokens (an IP, a number, a word, a separator); splitting, trimming, `atoi`, `inet_aton` and the
16 bits of a port are modelled by what they do to these.

**TaskManager** is the queue with its condition variable, `stop` and the worker that deletes
the manager it belongs to. `stop()` holds no mutex and is two steps, `StopFlag` and `NotifyAll`, between which the worker may
leave its loop.

**Process** composes `ConfigManager` and `TaskManager` with `main()`: the configuration is read, the UDP
clients are made from the interfaces and from `ip.discovery`, the servers are opened, the loop
handles UDP packets, accepted sessions and batches of TCP packets until an EXIT, and `main()` returns. The worker
runs beside it, reduced to its use of the list of sessions. `recv_udp` and `recv_tcp` are those of a build with
`RELEASE`, which `CMakeLists.txt` line 27 defines: both ask `LocalPort::query` first, which takes a descriptor for good or ends the
process, and drop what comes from an own address. `accept` takes a descriptor too, or its assertion fails. The servers hear the node's own HELLOs.

**LanSyncPkt** and **Framing** are the packets and one direction of a session. The sender
builds packets with any sequence of `addXheader` and `setData`; chunks of any size arrive;
`read_cb` cuts packets out, up to its limit. The parsing constructor compares `total_len` with the size of the header before it
converts it from network order, so that on a little-endian machine some lengths look too short (`LooksShort`).

The `MC*` modules only give constants their values; definitions named as a mutant are the
altered forms that `PROJECT.json` lists, each showing that the property it is paired with
depends on the code it alters. The `*Proofs` modules extend the module they are about;
`SplitProofs` has the lemmas on blocks that the table, its vectors and the constructor share, and
`SyncEngineProofs` has first the proofs about the table alone (`RsSyncManager`), then those about the engine.

## 3. Runs

Runs that pass:

| Run | Properties | Instance |
|---|---|---|
| BlockTransfer | `LoopComputesSplit`, `BlocksTileFile`, `SavedIsExact`, `BufferFits`, `RepliesAreTransfer`, `ReadsEnd`, `FileArrives` | a block of 4 bytes, a read of 8, `uint` of 32 values; every size on both sides of the overflow is cut, files of 0, 6 and 9 bytes are transferred, with up to 2 kinds of faults |
| RsSyncManager | `BlocksConserved`, `OnePeerPerBlock`, `RangesHeldByOwners`, `OwnersAgree`, `ErasedOnlyWhenFetched`, `VersionOnlyGrows` | 2 peers, 1 uri, 2 hashes, sizes 0, 2 and 3 blocks |
| RsSyncVectors | `ImplementsTable` | the same with sizes 2 and 3 |
| EngineSteady | `RangesAreRequested`, `NoBlockRequestedTwice`, `FetchedIsSaved`, `CrashesOnlyOnOwnerIndex`, `EventuallyFetched` | 2 peers with the same file of 3 blocks, limit 2; sessions and files do not change |
| EngineFaults | `DownloadLimitKept`, `WaitingRequestsBounded` | 1 peer, sessions that break twice, a file that changes, the peer connects too, writes may fail |
| RsLocalManager | `TableListsFiles`, `ValidIsExact`, `NeverOverwritesBigger`, `WantedIsExact` | 3 uris (two of one name), 3 digests (two that begin alike), tables of up to 2 entries, 1 change |
| Connections | `ActiveIsTriggered`, `RegistryIsActive`, `FaultNeedsBreak`, `Reconnects` | 2 peers of which one is listed in `ip.discovery`, the broadcast client, 2 events in all of: a break, a refused connect, a session opened by a peer |
| Framing | `WriteFits`, `InStep`, `HandledAsSent`, `NoneLeftBehind` | 3 packets, 3 building calls in all, a callback that handles 2 packets; a length of 8 stands for the multiple of 2^24 that looks too short |
| Process | `DiscoverSetExact`, `GoodConfigNoFault`, `NoSessionWithItself`, `FreedManagerNeedsExit`, `EveryTaskRuns`, `ExitEnds` | 11 configuration files (5 as the examples are written, 6 with a blank, an empty piece, a word, a line that is too long, no home, or no file), up to 3 interfaces, one system call that fails |

`RsSyncManager` checks the type invariant that the proofs use.

Runs that show a disagreement between the code and its documents:

| Run | Property | What happens |
|---|---|---|
| EngineHash | `ErasedWhenHashValid` | a reply for an entry that a bigger resource replaced is saved before the table is asked (`docs/resource_manager.md` line 49), the file mixes two versions, the failed check is logged and the entry erased (lines 40, 41) |
| EngineGiveBack | `BrokenSessionGivesBack` | blocks requested from a peer whose session broke stay requested (line 55) |
| EngineBothConnect | `ReplyClosesRange` | with a session in each direction the reply comes from an address that holds no range (`docs/readme.md` line 181) |

Bounds. A file of three blocks has a first, a middle and a last one and exceeds the limit of
two; the limit is reached, released and reached again. Two peers are the fewest that can
disagree or share a file; two hashes and three sizes give every outcome of `updateSyncRs`.
Three packets exceed the two of a callback, and the chunks cut them at every byte. The
counters of breaks, changes, refusals, edits, packets and building calls (`MaxDisconnects`,
`MaxChanges`, `MaxEvents`, `MaxEdits`, `MaxSent`, `MaxOps`) only bound how often
the environment acts. `EngineFaults` has one peer because the limit counts ranges of a uri,
not of a peer; a second one multiplies the states without a new case. It has two breaks because without a change of the file
one is not enough for more requests than the limit to wait: they wait on the session the peer opened, the session this node opened breaks and is
opened again, so that it is the newest and the worker takes it, and it breaks once more before the send, which then gives all ranges of the peer back. `WaitingRequestsBounded` is about one peer, where what waits is bounded by the
events; several peers add the ranges of each. Peers and hashes are
interchangeable in the table runs, so symmetry is used there; the runs with liveness use none.

The tables of `RsLocalManager` have up to 2 entries (`MaxEntries`), which is what two entries of one name
need. In `BlockTransfer` a file of 9 bytes has three blocks and is longer than one read or write; one
request and one reply are under way at a time (`MaxQueue`), and offsets to 11 leave room for what is
written past the end (`MaxOffset`). `MaxFaults` = 2 lets two kinds of faults meet. In `Process`
the array of interfaces has 2 places (`MaxIfreqs`, 10 in the code), so that a third interface does not fit;
a line has 13 tokens (`LINE_LENGTH`); a callback has up to 2 packets (`MaxBatch`), one of which may stand
behind an EXIT; 5 descriptors (`MaxSockets`) are enough for `main()`, a HELLO and its answer, and two TCP packets or an
accepted session and a packet, and are used up soon after; `PortMod` is 64; `MaxFailures` is 1. All configurations meet one interface and one meets all
lists of interfaces: the two inputs do not depend on one another.

Deadlock is not checked where the modelled system may stop: the last block is saved, the
bounded sender of `Framing` finishes, and a process that has ended takes no step.

Fairness. `EngineFairness`: the worker thread and a handler that has started keep running (weak
fairness); the reply to the table index, requested every 10 seconds (`main.cpp` line 52), and
the reply to a request are handled again and again, if they can be again and again (strong
fairness, because the event loop is busy with other handlers in between). `Connections`: the timer fires
forever (`EV_PERSIST`), a HELLO that keeps being sent to a peer (every 2 seconds) is answered some time, and an
answer is handled; `Reconnects` asks only for peers that HELLOs still go to. `BlockTransfer`: system calls return and the
event loops of both nodes handle what has arrived; a request that waits for another file access to end is
handled some time (strong fairness, since digests and requests take turns). `Process`: `main()`, a callback
that has begun and the worker go on; that packets arrive is not assumed. Nothing is assumed about breaks, changes or failures.

## 4. Proofs

The theorems hold for every set of peers, uris, hashes, sizes, interfaces and configurations, every block
size, every width of `uint` and every value of the bounds, unless a hypothesis is named. They rest on the
`ASSUME`s of the modules, which every run evaluates too: constants that stand for numbers are numbers, `KByte`,
`UintMod` and `DOWNLOAD_LIMIT` are positive, there are finitely many peers, sizes have a greatest one
(`uint64_t`), and the values that mean "nothing" (`Absent`, `Null`, `NoFile`, `NoHash`, `NoResource`) are none of the things
they stand for the lack of.

### The sync table (`SyncEngineProofs`, first part)

| Theorem | What it says |
|---|---|
| `TypeCorrect` | the table keeps its type (`TypeOK`) |
| `Conservation` | each block of an entry is in exactly one of waiting, requested, fetched (`BlocksConserved`) |
| `RangesSound`, `HoldersSound` | a block is requested from one peer at most (`OnePeerPerBlock`), and that peer is an owner (`RangesHeldByOwners`) |
| `OwnersSound` | every owner announced exactly the size and hash of the entry (`OwnersAgree`) |
| `EraseSound` | an entry leaves the table only with its last missing block (`ErasedOnlyWhenFetched`) |
| `GrowthSound` | an entry moves only to a bigger resource and otherwise keeps what it fetched (`VersionOnlyGrows`) |

Every operation replaces at most one entry, so the inductive invariant `TableInv`
is stated per entry (`Consistent`, `Announced`) with one lemma per way an entry changes
(`NewRsConsistent`, `AssignConsistent`, `ReturnConsistent`, `ReleaseConsistent`,
`FinishConsistent`, `AddOwnerConsistent`) and one per operation (`...Keeps`). Two
strengthenings are needed. The blocks are a partition only for entries with a real hash, so the
default entries a getter inserts must be known to be empty until they are replaced
(`EmptyRs`), or assigning one of their blocks could not be excluded. And that a block waits and is not
requested (the partition) is what makes the new range unique, so `OnePeerPerBlock` does not stand alone. The two
action properties follow from `NextIsEntryStep`: every step leaves an entry, replaces it by a bigger one,
changes it in place or erases it.

The lemmas are about `OpenNext`: any caller may make any call with any peer and block at any time, and the process may
end. That is weaker than `Next` of the module and is what the engine needs.

### The table on vectors (`RsSyncVectorsProofs`)

`VectorsImplementTable`: `Spec => ImplementsTable`, the refinement of the table on sets by the table as the code keeps it, for every set of
peers, uris, hashes and sizes. The mapping `AsSets` reads every vector as the set of its elements. That is only a refinement if no vector holds an
element twice, because `erase(iter)` removes one element and the table on sets removes the value; so the theorem rests on
`VectorsInvariant`: waiting blocks are pairwise different, requested blocks too, and no block is both. (Owners need no
such fact: the loop that removes one erases every occurrence.) The
initial states map to initial states; there is one lemma per operation that shows its step to be the step of the same operation on sets.

What the operations do to positions is stated in lemmas: `Removed` and `RemovedOnce` (an erasure by index shifts the rest and, if the elements
differ, removes one value and nothing else) and `Kept` (the elements left by a loop that erases are those at the kept positions, each once, in their order). The two
reverse loops of `unregAllReqSyncRsByPeer` are the hard case: what is pushed back to `block` must be new there, which follows
from the invariant, and what is left in `syncing` must still be free of duplicates.

### The engine, in any environment (`SyncEngineProofs`)

`EngineInvariant` (types of the locals of both threads, `EngineTypes`, with `TableInv`) and `EngineImplementsTable`: each step of
the worker, of the event loop and of the environment is one call of the open table, its end, or a stutter.
`EngineTableSound`: hence the four guarantees of the table hold in the running engine, with broken sessions, changing files and failed
writes. `LimitSound`: `DownloadLimitKept`. The worker counts the ranges in one step and registers in another; the invariant
`LimitInv` says that in between the entry has one range less than the limit, because only the worker adds any
(the event loop replaces, erases or shrinks).

### The engine with steady peers (`SyncEngineProofs`, last part)

The safety properties of run `EngineSteady` are proved under its conditions as hypotheses, or under weaker ones. `Steady`: no session breaks, no peer
connects to this node, no file of a peer changes, none is empty. `OneContent`: the peers that serve a uri serve the same content. `FilesStay`: no file of
a peer changes; sessions may break at any point, be opened again and be opened by the peers.

| Theorem | Hypotheses | Property |
|---|---|---|
| `RangesRequested` | `Steady` | `RangesAreRequested` |
| `RequestedOnce` | `Steady`, `OneContent` | `NoBlockRequestedTwice` |
| `CrashOnOwnerIndex` | `Steady`, `OneContent` | `CrashesOnlyOnOwnerIndex` |
| `FetchedSaved` | `FilesStay`, `OneContent`, writes do not fail | `FetchedIsSaved` |
| `ErasedIsComplete` | and no size overflows the block count (`CountFits`) | `ErasedWhenHashValid` |

Each hypothesis is needed. Without `Steady`, for the first three, the runs `EngineGiveBack` and `EngineBothConnect` leave ranges nobody answers, and the only
block of an empty file is registered and never requested (`req_rs_task.cpp` line 59). Without `OneContent` TLC finds, with two versions of
one file, that a bigger announcement replaces the entry while requests for the smaller one are under way: the same block is then
requested twice, a late reply is saved, and its bytes are of the other version. So `ErasedIsComplete` and the run `EngineHash` belong together: the erased
entry is right as long as no file changes and the peers agree. Broken sessions alone do no harm to the file, although they do leave replies that answer no range
and are saved all the same (`sync_service.cpp` line 144): such a reply carries the bytes that belong there.

The argument about requests goes in three layers: `SteadyInv` (each peer has its one session and serves what it announced), `RequestedInv` (a range of the table has its
request under way, or the worker is about to send it), `TiedInv` (the converse: requests under way, and the one about to be sent, are those of ranges, each
once; an entry with a range has storage). The argument about the files needs none of these: `FilesInv` says that what is announced, and what an
entry is about, is what some peer serves (`FilesInvariant`), and `DiskInv` that fetched blocks are on disk with the entry's content and
no local file is longer than what is served. `OnlyReplyFetches` shows that no step but the handling of a reply adds a fetched block, in every environment: an entry is kept, becomes an
empty default, or is renewed by an announcement (`Kept`, `Renewed`). `ReplySaves` shows that any reply, for a range or for none, whole or
short, leaves the blocks that were right as they are and adds its own.

### Sessions (`ConnectionsProofs`)

`SessionsTriggered` (`ActiveIsTriggered`), `RegistrySound` (`RegistryIsActive`) and `FaultsNeedBreaks` (`FaultNeedsBreak`), for any number
of peers, breaks, refusals and accepted sessions. The invariant `SessionInv` says what the five places that point to a context know of one another: the registry holds the
open contexts and the one `event_cb` has marked and not yet erased (`breaking`), each once (without that, erasing one index in `event_cb` could leave a second one);
that one may be freed by the worker in between, whose destructor has then taken it off the registry itself; a pointer in `conns` or in the
worker's copy belongs to a context that was made; a null pointer needs a refusal, and an inactive or freed context a break.

### A transfer (`BlockTransferProofs`)

* `LoopCorrect`: the constructor's loop computes `Split` (`LoopComputesSplit`), for every size, overflow included. The
  invariant `CtorInv` gives the blocks after `i` rounds.
* `BlocksTile`: the blocks of a file below the overflow hold each offset once (`BlocksTileFile`), if `KByte` is more than 1 and divides `UintMod`,
  as 1024 divides 2^32. The second is needed because the count is reduced after a multiplication by `KByte` and the addition of one, the
  first because with `KByte` = 1 the size just below the limit makes the count 0.
* `BufferSafe`: `readSize` stays inside its buffer (`BufferFits`), whatever happens to the file. `TransferInv` ties
  the reader's position to the bytes in its buffer and its end to the range.
* `RepliesPredicted`: `RepliesAreTransfer`, with `UndisturbedInv`: while no read is disturbed, one `read` returns a whole block, since a block
  is smaller than `ONCE_MAX_READ_SIZE`.
* `SavedExact`: `SavedIsExact`, with `WriterInv`: the writer saves the bytes of one file at the offset of the header, and the count the code keeps
  is the position of the descriptor as long as no write fails.

### Local resources and the process (`RsLocalManagerProofs`, `ProcessProofs`)

`TableExact`, `ValidExact`, `BiggerKept` and `WantedExact` prove `TableListsFiles`, `ValidIsExact`, `NeverOverwritesBigger` and `WantedIsExact` for
tables of any length. `RetInv` says what each operation has returned in terms of the files; the algorithmic
part is the comparison by name, where the entry that decides is the last one of its name.

`DiscoverSet` (`DiscoverSetExact`) and `GoodNodeNoFault` (`GoodConfigNoFault`) hold if the good files satisfy `GoodFiles`: a home for resources, a default port that
is a port, and a list whose pieces, as `queryList` returns them, are the texts of the wanted addresses, with the port or without
it (`SaysWhatIsWanted`). TLC evaluates this condition for the files of run `Process`. From there on everything is proved: each text is read as the address
it stands for (`PieceRead`), the broadcast addresses survive `fromBe`'s way through their text (`TextRoundTrip`), and
`addConn`, called for each in turn, has made a client of every one when the loop starts, none a null pointer, also when addresses repeat (`ClientsInv`
says for each stage of `main()` that the clients made and the addresses to do are together what the stage is about).
`NoOwnSession` (`NoSessionWithItself`): the sessions are to addresses that `LocalPort::query` does not list (`SessionsAreOthers`).
`FreedManagerExit` (`FreedManagerNeedsExit`): a deleted manager was stopped, and a stopped one implies a callback that is still inside `stop()` (`pc` is
"notify") or a loop that was told to break (`StopInv`).

### Packets in a stream (`FramingProofs`)

| Theorem | Property |
|---|---|
| `BufferFits` | `WriteFits` |
| `NeverOutOfStep` | `InStep` |
| `PacketsArrive` | `HandledAsSent` |
| `NoPacketWaits` | `NoneLeftBehind` |

All four hold for streams of any number of packets, however they are cut, if no length wraps: `[][LengthsFit]_vars` says that what `addXheader` and `setData`
compute fits `header_len` (16 bits) and `total_len` (32 bits). The hypothesis is needed, since the code does not check it. `HandledAsSent` itself exempts
the content of packets whose length looks too short (`LooksShort`). `NoWrap` gives a
condition on the constants under which it holds, `Roomy(kv, dl)`: as many headers as there are calls, each of at most `kv` bytes, and
`dl` bytes of data fit. Run `Framing` evaluates `Roomy` for its instance.

The invariant `Inv` says that the lengths a packet carries are at least the bytes of its headers and exactly the bytes of its data (`Packets`), that the receiver has
handled a prefix of what was sent and stands behind it (`StreamInv`), and what the loop of `read_cb` has seen (`LoopInv`). "At
least", because a header that is replaced by an empty value leaves its length behind.

The bytes of the headers and the place of a packet in the stream are sums, defined by folds. What the proofs need of them (adding, removing or replacing one
term; the sum over a longer prefix) is proved with a smallest counterexample: if the fact failed for some finite set of terms, it would fail for one that
has no smaller such subset (`SmallestSubset`), and the defining equation of the fold at that set contradicts it.

### Only model-checked

* Liveness (`EventuallyFetched`, `Reconnects`, `FileArrives`, `ReadsEnd`, `EveryTaskRuns`, `ExitEnds`): TLAPS does not do fairness.
* How `PropertiesParse` and `queryList` cut a file into lines, keys and pieces: part of `GoodFiles`, evaluated for the files of the run.

* `WaitingRequestsBounded`, whose bound counts events of the past against the queues of several sessions.

Every other property of the passing runs is stated by a theorem.

## 5. What the code does that a reader should know

Besides the three runs above, the models contain these behaviours, each at its line:

* `rs_sync_mamanger.cpp` line 22: from 4 GiB on the iteration count wraps. The loop stops at the end of the file, so the count matters
  only where it is too small: in a band of some KiB above each multiple of 4 GiB the entry misses the end of the
  file. `BlocksTileFile` is stated below 4 GiB; `LoopComputesSplit` holds on both sides.
* `rs_sync_mamanger.cpp` lines 155 to 176: an entry whose last owner is dropped stays in the table, without owners, until a peer announces it again.
  The unit test expects that (`test/unit_test/rs_sync_mamanger_test.cpp` lines 247 to 251), and `ErasedOnlyWhenFetched` says so;
  `docs/resource_manager.md` lines 57 to 60 (scenario 4: all peers disconnect) would delete the entry.
* `req_rs_task.cpp` line 43: the limit counts ranges of the table, not requests. When a bigger resource replaces an entry, or blocks are given back over a broken
  session that were requested over another, requests still wait at the peer that no range stands for, and more than `DOWNLOAD_LIMIT` of them are
  under way. `WaitingRequestsBounded` says by how much.
* `req_rs_task.cpp` line 57: the drawn index may be past the end of the copy made at line 40, if an owner was
  added in between. `CrashesOnlyOnOwnerIndex` says it is the only way to die while sessions hold.
* `req_rs_task.cpp` line 59: an empty file's only block looks like "nothing to request".
* `req_rs_task.cpp` line 61: a peer without a session gives a null context.
* `rs_local_manager.cpp` line 216: a failed write is never noticed (unsigned compared with `< 0`);
  `FetchedIsSaved` is checked where writes succeed.
* `req_rs_task.cpp` line 40: a task that runs after its entry was erased re-creates it with an uninitialised
  size, and `updateSyncRs` refuses announcements that are not bigger.
* `net_framework_impl_with_event.cpp` line 362: `write` frees a broken context and its callers free it again;
  `FaultNeedsBreak` says that this, or the null entry of a refused connect, needs a break or a refusal first.
* `sync_service.cpp` line 76 and `io_utils.cpp` line 47: a peer whose file is gone or shorter sends nothing or
  less than was asked, and the range stays requested.
* `lan_share_protocol.cpp` lines 124 to 128: a header value is cut at its second colon, so a uri with a colon does not
  arrive whole; `HandledAsSent` is about values without one.
* `net_framework_impl_with_event.cpp` line 196: the broadcast client that one peer has answered sends its next HELLOs to
  that peer alone, although `docs/timer.md` line 3 describes a broadcast on the LAN; who is not listed in `ip.discovery` and answers too
  late, or breaks later, is not found again by this node.
* `io_utils.cpp` lines 96 to 107: `data` is not moved on, so a second round of the loop writes the beginning of the
  block again; a failed write moves the position back by one and a byte from behind the data may be written.
  `SavedIsExact` names both cases.
* `io_utils.cpp` line 54: a file that was cut while it is read makes `readSize` send empty replies without end. `ReadsEnd`
  names that case; a file that was replaced does the same if the new one is longer.
* `openssl_utils.cpp` line 35: a file that is removed between the scan that lists it and its digest makes `file_size` throw
  (`io_utils.cpp` lines 27 and 47), which nothing catches: the process ends.
* `lan_share_protocol.cpp` line 102: the length is compared before `ntohl`. A packet of exactly k * 16 MiB, k < 8, is dropped by the parser on a little-endian
  machine, its `data` pointer uninitialised. Replies are cut to a block of 1 MiB, so only a very long table index gets there.
* `net_trigger.cpp` line 45: a blank or an empty piece or a word in `ip.discovery` leaves a null pointer in `conns`, and
  the first timer ends the process. `properties_parse.cpp` line 24: a line that is too long hides all lines behind it.
* `lan_share_protocol.cpp` line 14: every UDP and every TCP packet costs a descriptor (`sync_controller.cpp` lines 14 and 37), also the node's own HELLOs, and
  every accepted session another (`net_framework_impl_with_event.cpp` line 120). A node ends at an
  assertion when they are used up. `GoodConfigNoFault` is about the ends a configuration could cause; this one, a missing session,
  broken sessions and the race of EXIT with the worker are others.
* `lan_share_protocol.cpp` lines 16 and 36: an interface beyond the tenth, or without a broadcast address, is not listed, and
  a node that hears itself over it connects to itself. `NoSessionWithItself` is about nodes whose interfaces are all listed.
* `sync_service.cpp` line 162: `stop()` sets the flag and notifies without the mutex (`task_manager.cpp` lines 73 and 74); a worker that sees the flag in
  between deletes the manager that `notify_all` then uses. Packets behind an EXIT in one callback may use the deleted task manager too.
  An idle worker never ends, because its wait asks for a task only; the process ends without it (`ExitEnds`).
  A worker started by the EXIT itself walks an empty vector (`task_manager.cpp` line 12).
* `net_framework_impl_with_event.cpp` line 161: a server that cannot bind calls `shutdown` before the loop, which starts
  all the same, without that server.
* `main.cpp` line 72: the base is freed before the triggers, whose destructors free their events.
* `net_framework_impl_with_event.cpp` line 188: the result of `recvfrom` is unsigned, so a failure is not noticed there
  (not in the models, which receive only what was sent).
* `net_framework_impl_with_event.cpp` line 103: packets beyond the limit of a callback wait for the next bytes.

## 6. Abstractions

* The event loop's handlers are split only where the worker can see the difference. The other nodes appear
  as the files they serve and the sessions they open.
* `NeedToSync` in `SyncEngine` is nondeterministic where `compareChar` cannot tell contents of one size apart;
  `RsLocalManager` has the comparison itself.
* The owner that `time(0)` seeds is any owner; a random index is a choice.
* Data races inside one container operation (`getAllUriRs`, the walk over `tcp_ctx`) are not modelled: steps are whole operations.
* `SyncEngine` has `event_cb` as one step: a registry copied between its two steps is the one that was there just before them. `Connections` has both.
  `add_req_task` reads the number of ranges and adds the task in one step, too; in between the worker could only take a task or change that number.
* The end of the process by a digest is in `BlockTransfer` only.
* Bytes of a file are identified by the version they come from; a digest is valid when all bytes and the length
  are of one version.
* Keys and header pieces have length 1 in `LanSyncPkt`; packets are of this program (its version, its lengths).
* `Process` has no broken sessions and no blocks, `Connections` no configuration, `SyncEngine` no end of the process: each
  module keeps the part of the others that its properties depend on.

Not modelled: the destructors of static objects after `main()` returned; `rmTask`, `delTr`, `~TimerWithEvent`, the `mod_conn_recv` of the discovery
trigger and `want_to_sync_vo`, which nothing reaches; a `read` that returns -1; logging; the vendored cxxopts and
the search for the path of the configuration file; the Wireshark plugin, examples and tests.

## 7. Plan

Done in this order: `SyncRs`, `SyncRsCtor`, `RsSyncManager` and its proofs, `RsSyncVectors`, `SyncEngine`,
`RsLocalManager`, `Connections`, `LanSyncPkt`, `RangeHeaders`, `Framing`, `IoUtil`, `BlockTransfer`, `NetAddr`,
`ConfigManager`, `TaskManager` and `Process`; then the proofs about `Connections`, `SyncEngine`, `BlockTransfer`,
`RsLocalManager`, `Process`, `Framing` and `RsSyncVectors`.

Next:

1. An abstract specification of the fetch of one resource (the set of bytes that are right only grows) that
   `SyncEngine` implements while nothing changes.
2. Two nodes that fetch from each other, composed of two copies of the table and of `RsLocalManager`, with
   convergence to the bigger file as the property.
