---------------------------- MODULE RsSyncManager ---------------------------
(***************************************************************************)
(* The sync table of RsSyncManager: for every uri that is being fetched,   *)
(* the blocks still to request, the blocks requested from a peer and the   *)
(* peers that own the resource.  Every operation runs under the manager's  *)
(* mutex (or, for regSyncRs and getAllUriRs, without it but with a single  *)
(* access), so an operation is one step.                                   *)
(*                                                                         *)
(* The vectors block, owner and syncing are sets here: their order decides *)
(* only which block is handed out next, and that is left open.  Module     *)
(* RsSyncVectors keeps them as sequences and is shown to implement this    *)
(* one, duplicates included.                                               *)
(***************************************************************************)
EXTENDS SyncRs

CONSTANTS Peer,     \* addresses of the nodes that own resources
          Uri,      \* names of resources
          Hash,     \* digests a table index may carry
          NoHash,   \* the empty string, the digest of a default SyncRs
          Size,     \* file sizes
          Absent    \* the uri is not a key of the map

ASSUME SizeAssumption == Size \subseteq Nat
ASSUME NoHashAssumption == NoHash \notin Hash

VARIABLES uriRs,    \* the map from uri to SyncRs
          alive,    \* FALSE once an operation has killed the process
          adv       \* history: every resource a peer has announced to regSyncRs

vars == <<uriRs, alive, adv>>

RangeType == [peer : Peer, block : BlockType]   \* SyncingRange without timeOut

\* alloc: whether the vector syncing has ever owned storage (see ReverseLoop).
\* done: history, the blocks of this entry that were fetched.
SyncRsType == [size : Size, hash : Hash \cup {NoHash}, owner : SUBSET Peer,
               block : SUBSET BlockType, syncing : SUBSET RangeType,
               done : SUBSET BlockType, alloc : BOOLEAN]

AdvType == [peer : Peer, uri : Uri, hash : Hash, size : Size]

ASSUME AbsentAssumption == Absent \notin SyncRsType

Blocks == (UNION {Split(s) : s \in Size}) \cup {NoBlock}

\* Mutant: the constructor leaves the peer as its default.
SyncingRangeWithoutPeer(p, b) == [peer |-> Absent, block |-> b]

SyncingRange(p, b) == [peer |-> p, block |-> b]

\* The entry after the copy assignment of SyncRs(uri, size, hash, owner): its
\* vector syncing is empty and keeps the storage it had, if any.
NewRs(p, h, s, alloc) ==
    [size |-> s, hash |-> h, owner |-> {p}, block |-> Split(s),
     syncing |-> {}, done |-> {}, alloc |-> alloc]

\* The default constructor leaves size uninitialised.
DefaultRs(junk) ==
    [size |-> junk, hash |-> NoHash, owner |-> {}, block |-> {},
     syncing |-> {}, done |-> {}, alloc |-> FALSE]

\* What the expression uriRs[uri] may denote: std::map inserts a default
\* entry for a key it does not hold, in the getters as well.
At(u) == IF uriRs[u] = Absent THEN {DefaultRs(junk) : junk \in Size} ELSE {uriRs[u]}

Store(u, e) == uriRs' = [uriRs EXCEPT ![u] = e]

(***************************************************************************)
(* for (iter = v.end() - 1; iter >= v.begin(); iter--) on an empty vector: *)
(* with storage the loop does not start; a vector that never owned any     *)
(* holds null pointers, end() - 1 wraps to the top of the address space    *)
(* and the loop dereferences it.                                           *)
(***************************************************************************)
ReverseLoopCrashes(e) == ~e.alloc

Crash == alive' = FALSE /\ uriRs' = uriRs

TypeOK ==
    /\ uriRs \in [Uri -> SyncRsType \cup {Absent}]
    /\ alive \in BOOLEAN
    /\ adv \in SUBSET AdvType

Init ==
    /\ uriRs = [u \in Uri |-> Absent]
    /\ alive = TRUE
    /\ adv = {}
-----------------------------------------------------------------------------
(***************************************************************************)
(* regSyncRs and updateSyncRs: a peer announces a resource.                *)
(***************************************************************************)
NewUri(p, u, h, s) ==
    /\ uriRs[u] = Absent
    /\ Store(u, NewRs(p, h, s, FALSE))

\* Mutant: the bigger resource keeps the ranges requested for the smaller one.
BiggerRsKeepsSyncing(p, u, h, s) ==
    /\ uriRs[u] # Absent /\ uriRs[u].size < s
    /\ Store(u, [NewRs(p, h, s, uriRs[u].alloc) EXCEPT !.syncing = uriRs[u].syncing])

\* Mutant: the bigger resource keeps the owners of the smaller one.
BiggerRsKeepsOwners(p, u, h, s) ==
    /\ uriRs[u] # Absent /\ uriRs[u].size < s
    /\ Store(u, [NewRs(p, h, s, uriRs[u].alloc) EXCEPT !.owner = uriRs[u].owner \cup {p}])

\* A bigger resource replaces the entry, whatever was requested for it.
BiggerRs(p, u, h, s) ==
    /\ uriRs[u] # Absent /\ uriRs[u].size < s
    /\ Store(u, NewRs(p, h, s, uriRs[u].alloc))

\* Mutant: a smaller resource replaces the entry as well.
OtherRsReplaces(p, u, h, s) ==
    /\ uriRs[u] # Absent
    /\ uriRs[u].size > s \/ (uriRs[u].size = s /\ uriRs[u].hash # h)
    /\ Store(u, NewRs(p, h, s, uriRs[u].alloc))

\* A smaller resource, or one of the same size and another hash: refused.
OtherRs(p, u, h, s) ==
    /\ uriRs[u] # Absent
    /\ uriRs[u].size > s \/ (uriRs[u].size = s /\ uriRs[u].hash # h)
    /\ UNCHANGED uriRs

SameRs(p, u, h, s) ==
    /\ uriRs[u] # Absent /\ uriRs[u].size = s /\ uriRs[u].hash = h
    /\ Store(u, [uriRs[u] EXCEPT !.owner = @ \cup {p}])

RegSyncRs(p, u, h, s) ==
    /\ alive
    /\ NewUri(p, u, h, s) \/ BiggerRs(p, u, h, s) \/ OtherRs(p, u, h, s) \/ SameRs(p, u, h, s)
    /\ adv' = adv \cup {[peer |-> p, uri |-> u, hash |-> h, size |-> s]}
    /\ UNCHANGED alive
-----------------------------------------------------------------------------
(***************************************************************************)
(* regReqSyncRsAuto: assign a waiting block to peer p.  b is the block the *)
(* call returns.  A zero-sized file's only block is NoBlock itself.        *)
(***************************************************************************)
\* Mutant: the block is handed out and stays in the list.
AssignKeepingBlock(p, u, b) ==
    \E e \in At(u) :
        /\ p \in e.owner /\ b \in e.block
        /\ Store(u, [e EXCEPT !.syncing = @ \cup {SyncingRange(p, b)}, !.alloc = TRUE])

Assign(p, u, b) ==
    \E e \in At(u) :
        /\ p \in e.owner /\ b \in e.block
        /\ Store(u, [e EXCEPT !.block = @ \ {b}, !.syncing = @ \cup {SyncingRange(p, b)},
                              !.alloc = TRUE])

NothingToAssign(p, u, b) ==
    \E e \in At(u) :
        /\ p \notin e.owner \/ e.block = {}
        /\ b = NoBlock
        /\ Store(u, e)

RegReqSyncRsAuto(p, u, b) ==
    /\ alive
    /\ Assign(p, u, b) \/ NothingToAssign(p, u, b)
    /\ UNCHANGED <<alive, adv>>
-----------------------------------------------------------------------------
(***************************************************************************)
(* unregReqSyncRsByBlock: one range goes back to the waiting blocks.       *)
(***************************************************************************)
UnregReqSyncRsByBlock(p, b, u) ==
    /\ alive
    /\ \E e \in At(u) :
          \/ ReverseLoopCrashes(e) /\ Crash
          \/ /\ ~ReverseLoopCrashes(e) /\ SyncingRange(p, b) \notin e.syncing
             /\ UNCHANGED <<uriRs, alive>>
          \/ /\ ~ReverseLoopCrashes(e) /\ SyncingRange(p, b) \in e.syncing
             /\ Store(u, [e EXCEPT !.block = @ \cup {b}, !.syncing = @ \ {SyncingRange(p, b)}])
             /\ UNCHANGED alive
    /\ UNCHANGED adv

\* The blocks requested from p.
RequestedFrom(e, p) == {r.block : r \in {q \in e.syncing : q.peer = p}}

\* Mutant: the ranges of the peer are dropped, not returned.
ReleaseDroppingBlocks(e, p) ==
    [e EXCEPT !.syncing = {r \in @ : r.peer # p}, !.owner = @ \ {p}]

\* Both loops of unregAllReqSyncRsByPeer: p's ranges, then p as an owner.
Release(e, p) ==
    [e EXCEPT !.block = @ \cup RequestedFrom(e, p),
              !.syncing = {r \in @ : r.peer # p},
              !.owner = @ \ {p}]

UnregAllReqSyncRsByPeer(p, u) ==
    /\ alive
    /\ \E e \in At(u) :
          \/ ReverseLoopCrashes(e) /\ Crash
          \/ ~ReverseLoopCrashes(e) /\ Store(u, Release(e, p)) /\ UNCHANGED alive
    /\ UNCHANGED adv
-----------------------------------------------------------------------------
\* Mutant: only the requested ranges are looked at before the erase.
IsLastRequested(e, p, b) == e.syncing = {SyncingRange(p, b)}

(***************************************************************************)
(* syncingRangeDoneAndValid: the block b arrived from p.  When nothing is  *)
(* waiting and nothing else is requested the entry is erased, whatever the *)
(* hash of the file turns out to be (validRes is only logged).             *)
(***************************************************************************)
IsLast(e, p, b) == e.block = {} /\ e.syncing = {SyncingRange(p, b)}

Erase(u) == Store(u, Absent)

Finish(e, p, b) == [e EXCEPT !.syncing = @ \ {SyncingRange(p, b)}, !.done = @ \cup {b}]

RangeDone(e, p, u, b) ==
    /\ SyncingRange(p, b) \in e.syncing
    /\ IF IsLast(e, p, b) THEN Erase(u) ELSE Store(u, Finish(e, p, b))

SyncingRangeDoneAndValid(p, u, b) ==
    /\ alive
    /\ \E e \in At(u) :
          \/ ReverseLoopCrashes(e) /\ Crash
          \/ ~ReverseLoopCrashes(e) /\ RangeDone(e, p, u, b) /\ UNCHANGED alive
          \/ /\ ~ReverseLoopCrashes(e) /\ SyncingRange(p, b) \notin e.syncing
             /\ UNCHANGED <<uriRs, alive>>
    /\ UNCHANGED adv

\* getOwnerSize, getBlockSize, getSyncingSize and getAllUriRs()[uri].
Get(u) ==
    /\ alive
    /\ \E e \in At(u) : Store(u, e)
    /\ UNCHANGED <<alive, adv>>
-----------------------------------------------------------------------------
Next ==
    \E u \in Uri :
        \/ Get(u)
        \/ \E p \in Peer :
              \/ \E h \in Hash, s \in Size : RegSyncRs(p, u, h, s)
              \/ \E b \in Blocks :
                    \/ RegReqSyncRsAuto(p, u, b)
                    \/ UnregReqSyncRsByBlock(p, b, u)
                    \/ SyncingRangeDoneAndValid(p, u, b)
              \/ UnregAllReqSyncRsByPeer(p, u)

Spec == Init /\ [][Next]_vars
-----------------------------------------------------------------------------
InFlight(e) == {r.block : r \in e.syncing}

\* Every block of a resource is in exactly one place: waiting, requested or
\* fetched.  Neither a replaced entry, nor a peer that is dropped, nor a late
\* answer makes the table lose a block or hold one twice.
BlocksConserved ==
    \A u \in Uri :
        (uriRs[u] # Absent /\ uriRs[u].hash # NoHash) =>
            LET e == uriRs[u]
            IN /\ e.block \cup InFlight(e) \cup e.done = Split(e.size)
               /\ e.block \cap InFlight(e) = {}
               /\ e.done \cap (e.block \cup InFlight(e)) = {}

\* No block is requested from two peers at once.
OnePeerPerBlock ==
    \A u \in Uri : uriRs[u] # Absent =>
        \A r, q \in uriRs[u].syncing : r.block = q.block => r = q

\* A range is only ever held by a peer that is an owner of the entry as it is
\* now, so a reply that is accepted comes from an owner of this version.
RangesHeldByOwners ==
    \A u \in Uri : uriRs[u] # Absent =>
        \A r \in uriRs[u].syncing : r.peer \in uriRs[u].owner

\* All owners of an entry have announced this very size and hash
\* (docs/resource_manager.md line 7), also after replacements: blocks of one
\* entry are never requested from a peer that announced only another version.
OwnersAgree ==
    \A u \in Uri : uriRs[u] # Absent =>
        \A p \in uriRs[u].owner :
            [peer |-> p, uri |-> u, hash |-> uriRs[u].hash, size |-> uriRs[u].size] \in adv

\* An entry leaves the table only when its last missing block has arrived.  It stays
\* when unregAllReqSyncRsByPeer drops its last owner, as the unit test expects
\* (rs_sync_mamanger_test.cpp 247-251); docs/resource_manager.md 57-60 (scenario 4)
\* would delete it when all peers are gone.
ErasedOnlyWhenFetched ==
    [][\A u \in Uri :
          (uriRs[u] # Absent /\ uriRs'[u] = Absent) =>
              \E b \in InFlight(uriRs[u]) :
                  uriRs[u].done \cup {b} = Split(uriRs[u].size)]_vars

\* While a uri stays in the table its entry only moves to a bigger resource;
\* at the same size it keeps its hash, and the blocks already fetched stay
\* fetched.
VersionOnlyGrows ==
    [][\A u \in Uri :
          (uriRs[u] # Absent /\ uriRs'[u] # Absent) =>
              \/ uriRs[u].size < uriRs'[u].size
              \/ /\ uriRs[u].size = uriRs'[u].size
                 /\ uriRs[u].hash = uriRs'[u].hash
                 /\ uriRs[u].done \subseteq uriRs'[u].done]_vars
=============================================================================
