-------------------------- MODULE SyncEngineProofs --------------------------
(***************************************************************************)
(* Proofs about the sync table, alone and inside the engine that uses it,  *)
(* for every set of peers, uris and versions.                              *)
(*                                                                         *)
(* First the table alone (RsSyncManager, whatever order its operations are *)
(* called in).  Then the engine (SyncEngine): in every environment the     *)
(* model allows (sessions break, peers connect and change their files,     *)
(* writes fail) the threads use the sync table as its proofs require, so   *)
(* its guarantees hold in the whole engine, and the download limit is      *)
(* kept.  While sessions and files stay as they are (Steady, below) the    *)
(* requests under way agree with the table as well; the local files do     *)
(* when the peers' files stay, whatever the sessions do (FilesStay).       *)
(***************************************************************************)
EXTENDS SyncEngine, SplitProofs, SequenceTheorems, FiniteSetTheorems

(***************************************************************************)
(* The sync table.  Its invariant is stated entry by entry: each operation *)
(* replaces one entry, so it is enough that the new entry is consistent.   *)
(***************************************************************************)

\* The blocks of an entry are its waiting, requested and fetched blocks.
Partition(e) ==
    /\ e.block \cup InFlight(e) \cup e.done = Split(e.size)
    /\ e.block \cap InFlight(e) = {}
    /\ e.done \cap (e.block \cup InFlight(e)) = {}

\* A default entry has nothing in it until it is replaced.
EmptyRs(e) == e.block = {} /\ e.syncing = {} /\ e.owner = {}

\* A consistent entry, whatever its owners announced.
Consistent(e) ==
    /\ e \in SyncRsType
    /\ e.hash # NoHash => Partition(e)
    /\ e.hash = NoHash => EmptyRs(e)
    /\ \A r, q \in e.syncing : r.block = q.block => r = q
    /\ \A r \in e.syncing : r.peer \in e.owner

\* The owners of e announced its size and hash.
Announced(u, e, A) ==
    \A p \in e.owner : [peer |-> p, uri |-> u, hash |-> e.hash, size |-> e.size] \in A

EntryOK(u, e, A) == Consistent(e) /\ Announced(u, e, A)

\* The inductive invariant.
TableInv ==
    /\ TypeOK
    /\ \A u \in Uri : uriRs[u] # Absent => EntryOK(u, uriRs[u], adv)
-----------------------------------------------------------------------------
\* A new entry is consistent: all of its blocks wait.
LEMMA NewRsConsistent ==
    ASSUME NEW p \in Peer, NEW h \in Hash, NEW s \in Size, NEW a \in BOOLEAN
    PROVE  Consistent(NewRs(p, h, s, a))
<1> DEFINE e == NewRs(p, h, s, a)
<1>1. /\ e.size = s /\ e.hash = h /\ e.owner = {p} /\ e.block = Split(s)
      /\ e.syncing = {} /\ e.done = {} /\ e.alloc = a
  BY DEF NewRs
<1>2. e \in SyncRsType
  BY SplitType, SizeAssumption DEF SyncRsType, NewRs
<1>3. Partition(e)
  BY <1>1 DEF Partition, InFlight
<1> QED
  BY <1>1, <1>2, <1>3, NoHashAssumption DEF Consistent

\* The entry std::map inserts for an unknown key is consistent.
LEMMA DefaultRsConsistent ==
    ASSUME NEW junk \in Size
    PROVE  Consistent(DefaultRs(junk))
BY DEF Consistent, DefaultRs, SyncRsType, EmptyRs

\* A further owner changes nothing about the blocks.
LEMMA AddOwnerConsistent ==
    ASSUME NEW e, Consistent(e), e.hash # NoHash, NEW p \in Peer
    PROVE  Consistent([e EXCEPT !.owner = @ \cup {p}])
BY DEF Consistent, SyncRsType, Partition, InFlight

\* Handing out a waiting block moves it to the requested ones.
LEMMA AssignConsistent ==
    ASSUME NEW e, Consistent(e), NEW p, p \in e.owner, NEW b, b \in e.block
    PROVE  Consistent([e EXCEPT !.block = @ \ {b},
                                !.syncing = @ \cup {SyncingRange(p, b)},
                                !.alloc = TRUE])
<1> DEFINE f == [e EXCEPT !.block = @ \ {b},
                          !.syncing = @ \cup {SyncingRange(p, b)},
                          !.alloc = TRUE]
           r0 == SyncingRange(p, b)
<1>0. e \in SyncRsType /\ p \in Peer /\ b \in BlockType
  BY DEF Consistent, SyncRsType
<1>1. /\ f.size = e.size /\ f.hash = e.hash /\ f.owner = e.owner
      /\ f.done = e.done /\ f.block = e.block \ {b} /\ f.syncing = e.syncing \cup {r0}
      /\ r0 \in RangeType /\ r0.block = b /\ r0.peer = p
  BY <1>0 DEF SyncRsType, SyncingRange, RangeType
<1>2. f \in SyncRsType
  BY <1>0, <1>1 DEF SyncRsType
<1>3. e.hash # NoHash
  BY DEF Consistent, EmptyRs
<1>4. InFlight(f) = InFlight(e) \cup {b}
  BY <1>1 DEF InFlight
<1>5. b \notin InFlight(e) /\ Partition(e)
  BY <1>3 DEF Consistent, Partition
<1>6. Partition(f)
  BY <1>1, <1>4, <1>5 DEF Partition
<1>7. \A r, q \in f.syncing : r.block = q.block => r = q
  BY <1>1, <1>5 DEF Consistent, InFlight
<1>8. \A r \in f.syncing : r.peer \in f.owner
  BY <1>1 DEF Consistent
<1> QED
  BY <1>1, <1>2, <1>3, <1>6, <1>7, <1>8 DEF Consistent

\* Returning one range moves its block back to the waiting ones.
LEMMA ReturnConsistent ==
    ASSUME NEW e, Consistent(e), NEW p, NEW b, SyncingRange(p, b) \in e.syncing
    PROVE  Consistent([e EXCEPT !.block = @ \cup {b}, !.syncing = @ \ {SyncingRange(p, b)}])
<1> DEFINE f == [e EXCEPT !.block = @ \cup {b}, !.syncing = @ \ {SyncingRange(p, b)}]
           r0 == SyncingRange(p, b)
<1>0. e \in SyncRsType /\ r0 \in RangeType /\ r0.block = b /\ r0.peer = p /\ b \in BlockType
  BY DEF Consistent, SyncRsType, SyncingRange, RangeType
<1>1. /\ f.size = e.size /\ f.hash = e.hash /\ f.owner = e.owner
      /\ f.done = e.done /\ f.block = e.block \cup {b} /\ f.syncing = e.syncing \ {r0}
  BY <1>0 DEF SyncRsType
<1>2. f \in SyncRsType
  BY <1>0, <1>1 DEF SyncRsType
<1>3. e.hash # NoHash
  BY DEF Consistent, EmptyRs
<1>4. InFlight(f) = InFlight(e) \ {b} /\ b \in InFlight(e)
  BY <1>0, <1>1 DEF InFlight, Consistent
<1>5. Partition(e)
  BY <1>3 DEF Consistent
<1>6. Partition(f)
  BY <1>1, <1>4, <1>5 DEF Partition
<1> QED
  BY <1>1, <1>2, <1>3, <1>6 DEF Consistent

\* Dropping a peer returns all of its blocks.
LEMMA ReleaseConsistent ==
    ASSUME NEW e, Consistent(e), NEW p
    PROVE  Consistent(Release(e, p))
<1> DEFINE f == Release(e, p)
<1>0. e \in SyncRsType
  BY DEF Consistent
<1>1. /\ f.size = e.size /\ f.hash = e.hash /\ f.owner = e.owner \ {p}
      /\ f.done = e.done /\ f.block = e.block \cup RequestedFrom(e, p)
      /\ f.syncing = {r \in e.syncing : r.peer # p}
  BY <1>0 DEF SyncRsType, Release
<1>2. RequestedFrom(e, p) \subseteq InFlight(e) /\ InFlight(e) \subseteq BlockType
  BY <1>0 DEF RequestedFrom, InFlight, SyncRsType, RangeType
<1>3. f \in SyncRsType
  BY <1>0, <1>1, <1>2 DEF SyncRsType, Release
<1>4. InFlight(f) = InFlight(e) \ RequestedFrom(e, p)
  BY <1>1 DEF InFlight, RequestedFrom, Consistent
<1>5. ASSUME e.hash # NoHash PROVE Partition(f)
  BY <1>1, <1>2, <1>4, <1>5 DEF Partition, Consistent
<1>6. ASSUME e.hash = NoHash PROVE EmptyRs(f)
  BY <1>1, <1>6 DEF EmptyRs, Consistent, RequestedFrom
<1> QED
  BY <1>1, <1>3, <1>5, <1>6 DEF Consistent

\* A fetched block is neither waiting nor requested any more.
LEMMA FinishConsistent ==
    ASSUME NEW e, Consistent(e), NEW p, NEW b, SyncingRange(p, b) \in e.syncing
    PROVE  Consistent(Finish(e, p, b))
<1> DEFINE f == Finish(e, p, b)
           r0 == SyncingRange(p, b)
<1>0. e \in SyncRsType /\ r0 \in RangeType /\ r0.block = b /\ r0.peer = p /\ b \in BlockType
  BY DEF Consistent, SyncRsType, SyncingRange, RangeType
<1>1. /\ f.size = e.size /\ f.hash = e.hash /\ f.owner = e.owner
      /\ f.done = e.done \cup {b} /\ f.block = e.block /\ f.syncing = e.syncing \ {r0}
  BY <1>0 DEF SyncRsType, Finish
<1>2. f \in SyncRsType
  BY <1>0, <1>1 DEF SyncRsType, Finish
<1>3. e.hash # NoHash
  BY DEF Consistent, EmptyRs
<1>4. InFlight(f) = InFlight(e) \ {b} /\ b \in InFlight(e)
  BY <1>0, <1>1 DEF InFlight, Consistent
<1>5. Partition(e)
  BY <1>3 DEF Consistent
<1>6. Partition(f)
  BY <1>1, <1>4, <1>5 DEF Partition
<1> QED
  BY <1>1, <1>2, <1>3, <1>6 DEF Consistent
-----------------------------------------------------------------------------
\* Storing an entry that is consistent and announced keeps the invariant.
LEMMA StoreKeeps ==
    ASSUME TableInv, NEW u \in Uri, NEW e, EntryOK(u, e, adv'), Store(u, e),
           alive' \in BOOLEAN, adv' \in SUBSET AdvType, adv \subseteq adv'
    PROVE  TableInv'
<1>1. /\ uriRs' \in [Uri -> SyncRsType \cup {Absent}]
      /\ uriRs'[u] = e
      /\ \A v \in Uri : v # u => uriRs'[v] = uriRs[v]
  BY DEF TableInv, TypeOK, Store, EntryOK, Consistent
<1>2. ASSUME NEW v \in Uri, uriRs'[v] # Absent
      PROVE  EntryOK(v, uriRs'[v], adv')
  BY <1>1, <1>2 DEF TableInv, EntryOK, Announced
<1> QED
  BY <1>1, <1>2 DEF TableInv, TypeOK

\* uriRs[uri] denotes a consistent entry whose owners announced it.
LEMMA AtOK ==
    ASSUME TableInv, NEW u \in Uri, NEW e \in At(u)
    PROVE  EntryOK(u, e, adv)
<1>1. CASE uriRs[u] = Absent
  <2>1. PICK junk \in Size : e = DefaultRs(junk)
    BY <1>1 DEF At
  <2> QED
    BY <2>1, DefaultRsConsistent DEF EntryOK, Announced, DefaultRs
<1>2. CASE uriRs[u] # Absent
  BY <1>2 DEF At, TableInv
<1> QED
  BY <1>1, <1>2

\* regSyncRs keeps the invariant.
LEMMA RegSyncRsKeeps ==
    ASSUME TableInv, NEW p \in Peer, NEW u \in Uri, NEW h \in Hash, NEW s \in Size,
           RegSyncRs(p, u, h, s)
    PROVE  TableInv'
<1> DEFINE a == [peer |-> p, uri |-> u, hash |-> h, size |-> s]
<1>1. /\ adv' = adv \cup {a} /\ alive' = alive
      /\ adv' \in SUBSET AdvType /\ alive' \in BOOLEAN
  BY DEF RegSyncRs, TableInv, TypeOK, AdvType
<1>2. ASSUME NEW c \in BOOLEAN
      PROVE  EntryOK(u, NewRs(p, h, s, c), adv')
  <2>1. Announced(u, NewRs(p, h, s, c), adv')
    BY <1>1 DEF Announced, NewRs
  <2> QED
    BY <2>1, NewRsConsistent DEF EntryOK
<1>3. CASE NewUri(p, u, h, s)
  BY <1>1, <1>2, <1>3, StoreKeeps DEF NewUri
<1>4. CASE BiggerRs(p, u, h, s)
  <2>1. uriRs[u].alloc \in BOOLEAN
    BY <1>4 DEF BiggerRs, TableInv, TypeOK, SyncRsType
  <2> QED
    BY <1>1, <1>2, <1>4, <2>1, StoreKeeps DEF BiggerRs
<1>5. CASE OtherRs(p, u, h, s)
  BY <1>1, <1>5 DEF OtherRs, TableInv, TypeOK, EntryOK, Announced
<1>6. CASE SameRs(p, u, h, s)
  <2> DEFINE e == [uriRs[u] EXCEPT !.owner = @ \cup {p}]
  <2>1. Consistent(uriRs[u]) /\ Announced(u, uriRs[u], adv) /\ uriRs[u] \in SyncRsType
    BY <1>6 DEF SameRs, TableInv, EntryOK, Consistent
  <2>2. uriRs[u].hash # NoHash
    BY <1>6, NoHashAssumption DEF SameRs
  <2>3. Consistent(e)
    BY <2>1, <2>2, AddOwnerConsistent
  <2>4. e.owner = uriRs[u].owner \cup {p} /\ e.hash = h /\ e.size = s
    BY <1>6, <2>1 DEF SameRs, SyncRsType
  <2>5. Announced(u, e, adv')
    BY <1>1, <1>6, <2>1, <2>4 DEF Announced, SameRs
  <2>6. EntryOK(u, e, adv') /\ Store(u, e)
    BY <1>6, <2>3, <2>5 DEF SameRs, EntryOK
  <2> QED
    BY <1>1, <2>6, StoreKeeps
<1> QED
  BY <1>3, <1>4, <1>5, <1>6 DEF RegSyncRs

\* An operation that stores an entry with the owners, size and hash of an
\* entry it read (or fewer owners) and announces nothing keeps the invariant.
LEMMA UpdateKeeps ==
    ASSUME TableInv, NEW u \in Uri, NEW e \in At(u), NEW f, Consistent(f),
           f.owner \subseteq e.owner, f.size = e.size, f.hash = e.hash,
           Store(u, f), alive' \in BOOLEAN, adv' = adv
    PROVE  TableInv'
<1>1. Announced(u, e, adv)
  BY AtOK DEF EntryOK
<1>2. EntryOK(u, f, adv')
  BY <1>1 DEF EntryOK, Announced
<1>3. adv' \in SUBSET AdvType
  BY DEF TableInv, TypeOK
<1> QED
  BY <1>2, <1>3, StoreKeeps

\* A step that leaves the table alone keeps the invariant.
LEMMA UnchangedKeeps ==
    ASSUME TableInv, uriRs' = uriRs, adv' = adv, alive' \in BOOLEAN
    PROVE  TableInv'
BY DEF TableInv, TypeOK

\* regReqSyncRsAuto keeps the invariant.
LEMMA RegReqSyncRsAutoKeeps ==
    ASSUME TableInv, NEW p, NEW u \in Uri, NEW b, RegReqSyncRsAuto(p, u, b)
    PROVE  TableInv'
<1>1. alive' \in BOOLEAN /\ adv' = adv
  BY DEF RegReqSyncRsAuto, TableInv, TypeOK
<1>2. CASE Assign(p, u, b)
  <2> PICK e \in At(u) :
          /\ p \in e.owner /\ b \in e.block
          /\ Store(u, [e EXCEPT !.block = @ \ {b}, !.syncing = @ \cup {SyncingRange(p, b)},
                                !.alloc = TRUE])
    BY <1>2 DEF Assign
  <2> DEFINE f == [e EXCEPT !.block = @ \ {b}, !.syncing = @ \cup {SyncingRange(p, b)},
                            !.alloc = TRUE]
  <2>1. Consistent(e) /\ e \in SyncRsType
    BY AtOK DEF EntryOK, Consistent
  <2>2. Consistent(f)
    BY <2>1, AssignConsistent
  <2>3. f.owner = e.owner /\ f.size = e.size /\ f.hash = e.hash
    BY <2>1 DEF SyncRsType
  <2> HIDE DEF f
  <2>4. Store(u, f)
    BY DEF f
  <2> QED
    BY <1>1, <2>2, <2>3, <2>4, UpdateKeeps
<1>3. CASE NothingToAssign(p, u, b)
  <2> PICK e \in At(u) : Store(u, e)
    BY <1>3 DEF NothingToAssign
  <2>1. Consistent(e)
    BY AtOK DEF EntryOK
  <2> QED
    BY <1>1, <2>1, UpdateKeeps
<1> QED
  BY <1>2, <1>3 DEF RegReqSyncRsAuto

\* unregReqSyncRsByBlock keeps the invariant.
LEMMA UnregReqSyncRsByBlockKeeps ==
    ASSUME TableInv, NEW p, NEW u \in Uri, NEW b, UnregReqSyncRsByBlock(p, b, u)
    PROVE  TableInv'
<1>1. alive' \in BOOLEAN /\ adv' = adv
  BY DEF UnregReqSyncRsByBlock, Crash, TableInv, TypeOK
<1>2. CASE uriRs' = uriRs
  BY <1>1, <1>2, UnchangedKeeps
<1>3. CASE uriRs' # uriRs
  <2> PICK e \in At(u) :
          /\ SyncingRange(p, b) \in e.syncing
          /\ Store(u, [e EXCEPT !.block = @ \cup {b}, !.syncing = @ \ {SyncingRange(p, b)}])
    BY <1>3 DEF UnregReqSyncRsByBlock, Crash
  <2> DEFINE f == [e EXCEPT !.block = @ \cup {b}, !.syncing = @ \ {SyncingRange(p, b)}]
  <2>1. Consistent(e) /\ e \in SyncRsType
    BY AtOK DEF EntryOK, Consistent
  <2>2. Consistent(f)
    BY <2>1, ReturnConsistent
  <2>3. f.owner = e.owner /\ f.size = e.size /\ f.hash = e.hash
    BY <2>1 DEF SyncRsType
  <2> HIDE DEF f
  <2>4. Store(u, f)
    BY DEF f
  <2> QED
    BY <1>1, <2>2, <2>3, <2>4, UpdateKeeps
<1> QED
  BY <1>2, <1>3

\* unregAllReqSyncRsByPeer keeps the invariant.
LEMMA UnregAllReqSyncRsByPeerKeeps ==
    ASSUME TableInv, NEW p, NEW u \in Uri, UnregAllReqSyncRsByPeer(p, u)
    PROVE  TableInv'
<1>1. alive' \in BOOLEAN /\ adv' = adv
  BY DEF UnregAllReqSyncRsByPeer, Crash, TableInv, TypeOK
<1>2. CASE uriRs' = uriRs
  BY <1>1, <1>2, UnchangedKeeps
<1>3. CASE uriRs' # uriRs
  <2> PICK e \in At(u) : Store(u, Release(e, p))
    BY <1>3 DEF UnregAllReqSyncRsByPeer, Crash
  <2>1. Consistent(e) /\ e \in SyncRsType
    BY AtOK DEF EntryOK, Consistent
  <2>2. Consistent(Release(e, p))
    BY <2>1, ReleaseConsistent
  <2>3. /\ Release(e, p).owner = e.owner \ {p}
        /\ Release(e, p).size = e.size /\ Release(e, p).hash = e.hash
    BY <2>1 DEF SyncRsType, Release
  <2> QED
    BY <1>1, <2>2, <2>3, UpdateKeeps
<1> QED
  BY <1>2, <1>3

\* syncingRangeDoneAndValid keeps the invariant.
LEMMA SyncingRangeDoneAndValidKeeps ==
    ASSUME TableInv, NEW p, NEW u \in Uri, NEW b, SyncingRangeDoneAndValid(p, u, b)
    PROVE  TableInv'
<1>1. alive' \in BOOLEAN /\ adv' = adv
  BY DEF SyncingRangeDoneAndValid, Crash, TableInv, TypeOK
<1>2. CASE uriRs' = uriRs
  BY <1>1, <1>2, UnchangedKeeps
<1>3. CASE uriRs' # uriRs
  <2> PICK e \in At(u) : RangeDone(e, p, u, b)
    BY <1>3 DEF SyncingRangeDoneAndValid, Crash
  <2>1. Consistent(e) /\ e \in SyncRsType
    BY AtOK DEF EntryOK, Consistent
  <2>2. CASE Erase(u)
    <3>1. uriRs' = [uriRs EXCEPT ![u] = Absent]
      BY <2>2 DEF Erase, Store
    <3> QED
      BY <1>1, <3>1 DEF TableInv, TypeOK, EntryOK, Announced
  <2>3. CASE SyncingRange(p, b) \in e.syncing /\ Store(u, Finish(e, p, b))
    <3>1. Consistent(Finish(e, p, b))
      BY <2>1, <2>3, FinishConsistent
    <3>2. /\ Finish(e, p, b).owner = e.owner
          /\ Finish(e, p, b).size = e.size /\ Finish(e, p, b).hash = e.hash
      BY <2>1 DEF SyncRsType, Finish
    <3> QED
      BY <1>1, <2>3, <3>1, <3>2, UpdateKeeps
  <2> QED
    BY <2>2, <2>3 DEF RangeDone
<1> QED
  BY <1>2, <1>3

\* The getters keep the invariant: they insert at most a default entry.
LEMMA GetKeeps ==
    ASSUME TableInv, NEW u \in Uri, Get(u)
    PROVE  TableInv'
<1>1. alive' \in BOOLEAN /\ adv' = adv
  BY DEF Get, TableInv, TypeOK
<1>2. PICK e \in At(u) : Store(u, e)
  BY DEF Get
<1>3. Consistent(e)
  BY AtOK DEF EntryOK
<1> QED
  BY <1>1, <1>2, <1>3, UpdateKeeps
-----------------------------------------------------------------------------
(***************************************************************************)
(* What the rest of the process may do to the table: call its operations,  *)
(* for peers and blocks it has never heard of as well, or end, with the    *)
(* table as it is.  The manager's own Next is a part of this.              *)
(***************************************************************************)
AnyCall ==
    \E u \in Uri :
        \/ Get(u)
        \/ \E p \in Peer, h \in Hash, s \in Size : RegSyncRs(p, u, h, s)
        \/ \E p, b : \/ RegReqSyncRsAuto(p, u, b)
                     \/ UnregReqSyncRsByBlock(p, b, u)
                     \/ SyncingRangeDoneAndValid(p, u, b)
        \/ \E p : UnregAllReqSyncRsByPeer(p, u)

Killed == Crash /\ UNCHANGED adv

\* The manager with any callers, in a process that may end at any time.
OpenNext == AnyCall \/ Killed

\* The calls that Next makes are among those.
LEMMA NextIsOpen == ASSUME Next PROVE OpenNext
BY DEF Next, OpenNext, AnyCall

\* Every call by anyone keeps the invariant.
LEMMA OpenNextKeeps ==
    ASSUME TableInv, [OpenNext]_vars
    PROVE  TableInv'
<1>1. CASE UNCHANGED vars
  BY <1>1, UnchangedKeeps DEF vars, TableInv, TypeOK
<1>2. CASE Killed
  BY <1>2, UnchangedKeeps DEF Killed, Crash
<1>3. ASSUME NEW u \in Uri, Get(u) PROVE TableInv'
  BY <1>3, GetKeeps
<1>4. ASSUME NEW u \in Uri, NEW p \in Peer, NEW h \in Hash, NEW s \in Size, RegSyncRs(p, u, h, s)
      PROVE  TableInv'
  BY <1>4, RegSyncRsKeeps
<1>5. ASSUME NEW u \in Uri, NEW p, NEW b, RegReqSyncRsAuto(p, u, b)
      PROVE  TableInv'
  BY <1>5, RegReqSyncRsAutoKeeps
<1>6. ASSUME NEW u \in Uri, NEW p, NEW b, UnregReqSyncRsByBlock(p, b, u)
      PROVE  TableInv'
  BY <1>6, UnregReqSyncRsByBlockKeeps
<1>7. ASSUME NEW u \in Uri, NEW p, NEW b, SyncingRangeDoneAndValid(p, u, b)
      PROVE  TableInv'
  BY <1>7, SyncingRangeDoneAndValidKeeps
<1>8. ASSUME NEW u \in Uri, NEW p, UnregAllReqSyncRsByPeer(p, u)
      PROVE  TableInv'
  BY <1>8, UnregAllReqSyncRsByPeerKeeps
<1> QED
  BY <1>1, <1>2, <1>3, <1>4, <1>5, <1>6, <1>7, <1>8 DEF OpenNext, AnyCall

\* The empty table satisfies the invariant.
LEMMA InitOK == ASSUME Init PROVE TableInv
BY DEF Init, TableInv, TypeOK

\* The invariant holds of the empty table and every operation keeps it.
THEOREM TableInvariant == Spec => []TableInv
<1>1. Init => TableInv
  BY InitOK
<1>2. TableInv /\ [Next]_vars => TableInv'
  BY NextIsOpen, OpenNextKeeps
<1> QED
  BY <1>1, <1>2, PTL DEF Spec

\* The state of the manager always has its type: no call makes a vector hold
\* anything but blocks, ranges and peers.
THEOREM TypeCorrect == Spec => []TypeOK
<1>1. TableInv => TypeOK
  BY DEF TableInv
<1> QED
  BY <1>1, TableInvariant, PTL

\* No block of a resource is lost or held twice, for any number of peers and
\* any order of announcements, requests, answers and connection errors.
THEOREM Conservation == Spec => []BlocksConserved
<1>1. TableInv => BlocksConserved
  BY DEF TableInv, EntryOK, Consistent, Partition, BlocksConserved
<1> QED
  BY <1>1, TableInvariant, PTL

\* No block is requested from two peers at once.
THEOREM RangesSound == Spec => []OnePeerPerBlock
<1>1. TableInv => OnePeerPerBlock
  BY DEF TableInv, EntryOK, Consistent, OnePeerPerBlock
<1> QED
  BY <1>1, TableInvariant, PTL

\* Every range is held by a peer that is an owner of the entry as it is now.
THEOREM HoldersSound == Spec => []RangesHeldByOwners
<1>1. TableInv => RangesHeldByOwners
  BY DEF TableInv, EntryOK, Consistent, RangesHeldByOwners
<1> QED
  BY <1>1, TableInvariant, PTL

\* The owners of an entry have all announced its size and hash.
THEOREM OwnersSound == Spec => []OwnersAgree
<1>1. TableInv => OwnersAgree
  BY DEF TableInv, EntryOK, Announced, OwnersAgree
<1> QED
  BY <1>1, TableInvariant, PTL
-----------------------------------------------------------------------------
\* The entry f keeps what e is about and what was fetched for it.
Continues(e, f) ==
    f \in SyncRsType /\ f.size = e.size /\ f.hash = e.hash /\ e.done \subseteq f.done

\* What a step may do to an entry e of the table (new is the uri's new value).
EntryStep(e, new) ==
    \/ Continues(e, new)
    \/ new \in SyncRsType /\ e.size < new.size
    \/ new = Absent /\ \E b \in InFlight(e) : e.done \cup {b} = Split(e.size)

\* Storing under one uri is an entry step for every uri if it is one for that.
LEMMA StoreStep ==
    ASSUME TableInv, NEW v \in Uri, NEW f, Store(v, f),
           uriRs[v] # Absent => EntryStep(uriRs[v], f),
           NEW u \in Uri, uriRs[u] # Absent
    PROVE  EntryStep(uriRs[u], uriRs'[u])
<1>1. uriRs'[v] = f /\ (u # v => uriRs'[u] = uriRs[u])
  BY DEF Store, TableInv, TypeOK
<1>2. uriRs[u] \in SyncRsType
  BY DEF TableInv, EntryOK, Consistent
<1> QED
  BY <1>1, <1>2 DEF EntryStep, Continues

\* An entry that was read for a uri in the table is that uri's entry.
LEMMA AtPresent ==
    ASSUME TableInv, NEW v \in Uri, NEW e \in At(v)
    PROVE  /\ e \in SyncRsType
           /\ uriRs[v] # Absent => uriRs[v] = e
BY AtOK DEF At, EntryOK, Consistent

\* Every call by anyone does one of these things to an entry.
LEMMA OpenNextIsEntryStep ==
    ASSUME TableInv, [OpenNext]_vars, NEW u \in Uri, uriRs[u] # Absent
    PROVE  EntryStep(uriRs[u], uriRs'[u])
<1>0. CASE uriRs' = uriRs
  BY <1>0 DEF EntryStep, Continues, TableInv, EntryOK, Consistent
<1>1. ASSUME NEW v \in Uri, Get(v) PROVE EntryStep(uriRs[u], uriRs'[u])
  <2> PICK e \in At(v) : Store(v, e)
    BY <1>1 DEF Get
  <2>1. uriRs[v] # Absent => EntryStep(uriRs[v], e)
    BY AtPresent DEF EntryStep, Continues
  <2> QED
    BY <2>1, StoreStep
<1>2. ASSUME NEW v \in Uri, NEW p \in Peer, NEW h \in Hash, NEW s \in Size,
             RegSyncRs(p, v, h, s)
      PROVE  EntryStep(uriRs[u], uriRs'[u])
  <2>1. CASE NewUri(p, v, h, s)
    BY <2>1, StoreStep DEF NewUri
  <2>2. CASE BiggerRs(p, v, h, s)
    <3> DEFINE f == NewRs(p, h, s, uriRs[v].alloc)
    <3>1. uriRs[v].alloc \in BOOLEAN /\ uriRs[v].size < s
      BY <2>2 DEF BiggerRs, TableInv, TypeOK, SyncRsType
    <3>2. f \in SyncRsType /\ f.size = s
      BY <3>1, NewRsConsistent DEF Consistent, NewRs
    <3>3. EntryStep(uriRs[v], f)
      BY <3>1, <3>2 DEF EntryStep
    <3> QED
      BY <2>2, <3>3, StoreStep DEF BiggerRs
  <2>3. CASE OtherRs(p, v, h, s)
    BY <1>0, <2>3 DEF OtherRs
  <2>4. CASE SameRs(p, v, h, s)
    <3> DEFINE f == [uriRs[v] EXCEPT !.owner = @ \cup {p}]
    <3>1. uriRs[v] \in SyncRsType
      BY <2>4 DEF SameRs, TableInv, EntryOK, Consistent
    <3>2. Continues(uriRs[v], f)
      BY <3>1 DEF Continues, SyncRsType
    <3> QED
      BY <2>4, <3>2, StoreStep DEF SameRs, EntryStep
  <2> QED
    BY <1>2, <2>1, <2>2, <2>3, <2>4 DEF RegSyncRs
<1>3. ASSUME NEW v \in Uri, NEW p, NEW b, RegReqSyncRsAuto(p, v, b)
      PROVE  EntryStep(uriRs[u], uriRs'[u])
  <2>1. CASE Assign(p, v, b)
    <3> PICK e \in At(v) :
            /\ p \in e.owner /\ b \in e.block
            /\ Store(v, [e EXCEPT !.block = @ \ {b}, !.syncing = @ \cup {SyncingRange(p, b)},
                                  !.alloc = TRUE])
      BY <2>1 DEF Assign
    <3> DEFINE f == [e EXCEPT !.block = @ \ {b}, !.syncing = @ \cup {SyncingRange(p, b)},
                              !.alloc = TRUE]
    <3>1. Consistent(e) /\ e \in SyncRsType
      BY AtOK DEF EntryOK, Consistent
    <3>2. Consistent(f)
      BY <3>1, AssignConsistent
    <3>3. Continues(e, f)
      BY <3>1, <3>2 DEF Continues, SyncRsType, Consistent
    <3>4. uriRs[v] # Absent => EntryStep(uriRs[v], f)
      BY <3>3, AtPresent DEF EntryStep
    <3> QED
      BY <3>4, StoreStep
  <2>2. CASE NothingToAssign(p, v, b)
    <3> PICK e \in At(v) : Store(v, e)
      BY <2>2 DEF NothingToAssign
    <3>1. uriRs[v] # Absent => EntryStep(uriRs[v], e)
      BY AtPresent DEF EntryStep, Continues
    <3> QED
      BY <3>1, StoreStep
  <2> QED
    BY <1>3, <2>1, <2>2 DEF RegReqSyncRsAuto
<1>4. ASSUME NEW v \in Uri, NEW p, NEW b, UnregReqSyncRsByBlock(p, b, v),
             uriRs' # uriRs
      PROVE  EntryStep(uriRs[u], uriRs'[u])
  <2> PICK e \in At(v) :
          /\ SyncingRange(p, b) \in e.syncing
          /\ Store(v, [e EXCEPT !.block = @ \cup {b}, !.syncing = @ \ {SyncingRange(p, b)}])
    BY <1>4 DEF UnregReqSyncRsByBlock, Crash
  <2> DEFINE f == [e EXCEPT !.block = @ \cup {b}, !.syncing = @ \ {SyncingRange(p, b)}]
  <2>1. Consistent(e) /\ e \in SyncRsType
    BY AtOK DEF EntryOK, Consistent
  <2>2. Consistent(f)
    BY <2>1, ReturnConsistent
  <2>3. Continues(e, f)
    BY <2>1, <2>2 DEF Continues, SyncRsType, Consistent
  <2>4. uriRs[v] # Absent => EntryStep(uriRs[v], f)
    BY <2>3, AtPresent DEF EntryStep
  <2> QED
    BY <2>4, StoreStep
<1>5. ASSUME NEW v \in Uri, NEW p, UnregAllReqSyncRsByPeer(p, v), uriRs' # uriRs
      PROVE  EntryStep(uriRs[u], uriRs'[u])
  <2> PICK e \in At(v) : Store(v, Release(e, p))
    BY <1>5 DEF UnregAllReqSyncRsByPeer, Crash
  <2>1. Consistent(e) /\ e \in SyncRsType
    BY AtOK DEF EntryOK, Consistent
  <2>2. Consistent(Release(e, p))
    BY <2>1, ReleaseConsistent
  <2>3. Continues(e, Release(e, p))
    BY <2>1, <2>2 DEF Continues, SyncRsType, Consistent, Release
  <2>4. uriRs[v] # Absent => EntryStep(uriRs[v], Release(e, p))
    BY <2>3, AtPresent DEF EntryStep
  <2> QED
    BY <2>4, StoreStep
<1>6. ASSUME NEW v \in Uri, NEW p, NEW b, SyncingRangeDoneAndValid(p, v, b),
             uriRs' # uriRs
      PROVE  EntryStep(uriRs[u], uriRs'[u])
  <2> PICK e \in At(v) : RangeDone(e, p, v, b)
    BY <1>6 DEF SyncingRangeDoneAndValid, Crash
  <2>1. Consistent(e) /\ e \in SyncRsType /\ SyncingRange(p, b) \in e.syncing
    BY AtOK DEF EntryOK, Consistent, RangeDone
  <2>2. CASE IsLast(e, p, b)
    <3>1. Partition(e)
      BY <2>1 DEF Consistent, EmptyRs
    <3>2. SyncingRange(p, b).block = b
      BY DEF SyncingRange
    <3>3. InFlight(e) = {b} /\ e.block = {}
      BY <2>2, <3>2 DEF IsLast, InFlight
    <3>4. EntryStep(e, Absent)
      BY <3>1, <3>3 DEF EntryStep, Partition
    <3>5. uriRs[v] # Absent => EntryStep(uriRs[v], Absent)
      BY <3>4, AtPresent
    <3> QED
      BY <2>2, <3>5, StoreStep DEF RangeDone, Erase
  <2>3. CASE ~IsLast(e, p, b)
    <3>1. Consistent(Finish(e, p, b))
      BY <2>1, FinishConsistent
    <3>2. Continues(e, Finish(e, p, b))
      BY <2>1, <3>1 DEF Continues, SyncRsType, Consistent, Finish
    <3>3. uriRs[v] # Absent => EntryStep(uriRs[v], Finish(e, p, b))
      BY <3>2, AtPresent DEF EntryStep
    <3> QED
      BY <2>3, <3>3, StoreStep DEF RangeDone
  <2> QED
    BY <2>2, <2>3
<1> QED
  BY <1>0, <1>1, <1>2, <1>3, <1>4, <1>5, <1>6 DEF OpenNext, AnyCall, Killed, Crash, vars

\* An entry leaves the table only with its last block.
THEOREM EraseSound == Spec => ErasedOnlyWhenFetched
<1>1. TableInv /\ [Next]_vars =>
         [\A u \in Uri :
             (uriRs[u] # Absent /\ uriRs'[u] = Absent) =>
                 \E b \in InFlight(uriRs[u]) :
                     uriRs[u].done \cup {b} = Split(uriRs[u].size)]_vars
  BY NextIsOpen, OpenNextIsEntryStep, AbsentAssumption DEF EntryStep, Continues
<1> QED
  BY <1>1, TableInvariant, PTL DEF Spec, ErasedOnlyWhenFetched

\* An entry that stays only moves to a bigger resource and forgets no block.
THEOREM GrowthSound == Spec => VersionOnlyGrows
<1>1. TableInv /\ [Next]_vars =>
         [\A u \in Uri :
             (uriRs[u] # Absent /\ uriRs'[u] # Absent) =>
                 \/ uriRs[u].size < uriRs'[u].size
                 \/ /\ uriRs[u].size = uriRs'[u].size
                    /\ uriRs[u].hash = uriRs'[u].hash
                    /\ uriRs[u].done \subseteq uriRs'[u].done]_vars
  BY NextIsOpen, OpenNextIsEntryStep DEF EntryStep, Continues
<1> QED
  BY <1>1, TableInvariant, PTL DEF Spec, VersionOnlyGrows

(***************************************************************************)
(* The engine, in every environment.                                       *)
(***************************************************************************)

Direction == {"out", "in"}
SessionRef == {NoSession} \cup (Direction \X BOOLEAN)
RequestType == [uri : Uri, block : BlockType]
WorkerPc == {"idle", "copy", "owners", "blocks", "syncing", "pick", "send"}

WorkerType ==
    [pc : WorkerPc, uri : Uri \cup {NoFile}, idx : [Peer -> SessionRef], owner : SUBSET Peer,
     owner_size : Nat, peer : Peer \cup {NoFile}, block : BlockType]

MainType ==
    [pc : {"loop", "refresh", "addreq"}, peer : Peer \cup {NoFile},
     todo : SUBSET [uri : Uri, rs : Version], seen : SUBSET Uri]

\* The worker has a uri while it runs a task and a peer when it sends.
WorkerOK ==
    /\ worker \in WorkerType
    /\ worker.pc # "idle" => worker.uri \in Uri
    /\ worker.pc = "send" => worker.peer \in Peer

\* The event loop has a peer while it handles a table index.
MainOK == main \in MainType /\ (main.pc = "refresh" => main.peer \in Peer)

EngineTypes ==
    /\ tasks \in Seq(Uri)
    /\ WorkerOK /\ MainOK
    /\ tcp_ctx \in [Peer -> Seq(Direction)]
    /\ pending \in [Session -> Seq(RequestType)]
    /\ srv \in [Peer -> [Uri -> Version \cup {NoFile}]]
    /\ disk \in [Uri -> FileType \cup {NoFile}]

\* The invariant of the table and the types of the rest.
EngineInv == TableInv /\ EngineTypes
-----------------------------------------------------------------------------
\* Every step of the engine is a call of the table, the end of the process, or
\* leaves the table alone.
LEMMA EngineStepIsOpen ==
    ASSUME EngineInv, [EngineNext]_engineVars
    PROVE  [OpenNext]_vars
<1> USE DEF EngineInv, EngineTypes
<1>0. CASE UNCHANGED <<uriRs, alive, adv>>
  BY <1>0 DEF vars
<1>1. ASSUME Get(worker.uri), worker.pc # "idle" PROVE OpenNext
  BY <1>1 DEF OpenNext, AnyCall, WorkerOK
<1>2. CASE CopyRs \/ ReadOwnerSize \/ ReadBlockSize \/ ReadSyncingSize
  BY <1>1, <1>2 DEF CopyRs, ReadOwnerSize, ReadBlockSize, ReadSyncingSize
<1>3. CASE PickPeer
  BY <1>3 DEF PickPeer, WorkerOK, OpenNext, AnyCall
<1>4. CASE PickOutOfRange
  BY <1>1, <1>4 DEF PickOutOfRange, OpenNext, Killed
<1>5. CASE SendFails
  BY <1>5 DEF SendFails, WorkerOK, OpenNext, AnyCall, Killed
<1>6. CASE SendWithoutSession
  BY <1>6 DEF SendWithoutSession, OpenNext, Killed
<1>7. CASE RefreshSyncingRs
  <2> PICK t \in main.todo : RegSyncRs(main.peer, t.uri, t.rs.hash, t.rs.size)
    BY <1>7 DEF RefreshSyncingRs
  <2>1. main.peer \in Peer /\ t.uri \in Uri /\ t.rs \in Version
    BY <1>7 DEF RefreshSyncingRs, MainOK, MainType
  <2>2. t.rs.hash \in Hash /\ t.rs.size \in Size
    BY <2>1, VersionAssumption
  <2> QED
    BY <2>1, <2>2 DEF OpenNext, AnyCall
<1>8. ASSUME NEW p \in Peer, NEW d \in Direction, HandleReplyResource(p, d) PROVE OpenNext
  <2> DEFINE req == Head(pending[<<p, d>>])
             v == srv[p][req.uri]
  <2>1. /\ pending[<<p, d>>] # <<>>
        /\ SyncingRangeDoneAndValid(CtxPeer(p, d), req.uri, Replied(v, req.block))
    BY <1>8 DEF HandleReplyResource
  <2>2. pending[<<p, d>>] \in Seq(RequestType)
    BY DEF Session, Direction
  <2>3. req \in RequestType
    BY <2>1, <2>2, HeadTailProperties
  <2>4. req.uri \in Uri
    BY <2>3 DEF RequestType
  <2> QED
    BY <2>1, <2>4 DEF OpenNext, AnyCall
<1> QED
  BY <1>0, <1>2, <1>3, <1>4, <1>5, <1>6, <1>7, <1>8
  DEF EngineNext, Worker, Handler, Take, SendRsReq, RefreshDone, AddReqTask, AddReqDone,
      HandleReplyTableIndex, ConnectWithTcp, TcpAccept, NoReply, EventCb, PeerChanges, engineVars,
      Direction

\* The entry a getter of the table leaves is no null entry.
LEMMA GetEntry ==
    ASSUME TableInv, NEW u \in Uri, Get(u)
    PROVE  uriRs'[u] \in SyncRsType /\ uriRs'[u] \in At(u)
<1> PICK e \in At(u) : Store(u, e)
  BY DEF Get
<1>1. e \in SyncRsType
  BY AtOK DEF EntryOK, Consistent
<1> QED
  BY <1>1 DEF Store, TableInv, TypeOK

\* An owner list has a size.
LEMMA OwnerSize ==
    ASSUME NEW e \in SyncRsType
    PROVE  Cardinality(e.owner) \in Nat
<1>1. e.owner \subseteq Peer
  BY DEF SyncRsType
<1> QED
  BY <1>1, PeerAssumption, FS_Subset, FS_CardinalityType

\* The worker that has finished or not started a task.
LEMMA IdleWorkerOK == IdleWorker \in WorkerType /\ IdleWorker.pc = "idle"
BY DEF IdleWorker, WorkerType, WorkerPc, SessionRef, NoSession, NoBlock, Block, BlockType

\* The event loop between two handlers, and when it starts to queue tasks.
LEMMA EventLoopOK ==
    /\ EventLoop \in MainType /\ EventLoop.pc = "loop"
    /\ [EventLoop EXCEPT !.pc = "addreq"] \in MainType
    /\ [EventLoop EXCEPT !.pc = "addreq"].pc = "addreq"
BY DEF EventLoop, MainType

\* What is handed out is a block.
LEMMA BlocksType == Blocks \subseteq BlockType
<1>1. NoBlock \in BlockType
  BY DEF NoBlock, Block, BlockType
<1>2. \A s \in Size : Split(s) \subseteq BlockType
  BY SplitType, SizeAssumption
<1>3. ASSUME NEW b \in Blocks PROVE b \in BlockType
  <2>1. b = NoBlock \/ \E s \in Size : b \in Split(s)
    BY <1>3 DEF Blocks
  <2> QED
    BY <1>1, <1>2, <2>1
<1> QED
  BY <1>3

\* The worker's steps keep its types.
LEMMA WorkerKeepsTypes ==
    ASSUME EngineInv, Worker
    PROVE  WorkerOK' /\ tasks' \in Seq(Uri) /\ (pending' \in [Session -> Seq(RequestType)])
<1> USE DEF EngineInv, EngineTypes
<1>0. CASE worker' = IdleWorker /\ UNCHANGED <<tasks, pending>>
  BY <1>0, IdleWorkerOK DEF WorkerOK
<1>1. CASE Take
  <2>1. Head(tasks) \in Uri /\ tasks' \in Seq(Uri)
    BY <1>1, HeadTailProperties DEF Take
  <2>2. GetAllTcpSession \in [Peer -> SessionRef]
    <3> SUFFICES ASSUME NEW p \in Peer, tcp_ctx[p] # <<>>
                 PROVE  tcp_ctx[p][Len(tcp_ctx[p])] \in Direction
      BY DEF GetAllTcpSession, SessionRef
    <3>1. Len(tcp_ctx[p]) \in 1 .. Len(tcp_ctx[p])
      BY LenProperties, EmptySeq
    <3> QED
      BY <3>1, ElementOfSeq
  <2> QED
    BY <1>1, <2>1, <2>2, IdleWorkerOK DEF Take, WorkerOK, WorkerType, WorkerPc
<1>2. CASE CopyRs
  <2>1. uriRs'[worker.uri] \in SyncRsType
    BY <1>2, GetEntry DEF CopyRs, WorkerOK
  <2> QED
    BY <1>2, <2>1 DEF CopyRs, WorkerOK, WorkerType, WorkerPc, SyncRsType
<1>3. CASE ReadOwnerSize
  <2>1. Cardinality(uriRs'[worker.uri].owner) \in Nat
    BY <1>3, GetEntry, OwnerSize DEF ReadOwnerSize, WorkerOK
  <2> QED
    BY <1>0, <1>3, <2>1 DEF ReadOwnerSize, WorkerOK, WorkerType, WorkerPc
<1>4. CASE ReadBlockSize
  BY <1>0, <1>4 DEF ReadBlockSize, WorkerOK, WorkerType, WorkerPc
<1>5. CASE ReadSyncingSize
  BY <1>0, <1>5 DEF ReadSyncingSize, WorkerOK, WorkerType, WorkerPc
<1>6. CASE PickPeer
  <2> PICK p \in worker.owner, b \in Blocks :
          worker' = IF b.end = 0 THEN IdleWorker
                    ELSE [worker EXCEPT !.pc = "send", !.peer = p, !.block = b]
    BY <1>6 DEF PickPeer
  <2>1. b \in BlockType
    BY BlocksType
  <2> QED
    BY <1>0, <1>6, <2>1 DEF PickPeer, WorkerOK, WorkerType, WorkerPc
<1>7. CASE SendRsReq
  <2>1. worker.idx[worker.peer] \in Direction \X BOOLEAN
    <3>1. worker.idx[worker.peer] \in SessionRef
      BY <1>7 DEF SendRsReq, WorkerOK, WorkerType
    <3>2. ~NoSession[2] /\ worker.idx[worker.peer][2]
      BY <1>7 DEF SendRsReq, NoSession
    <3> QED
      BY <3>1, <3>2, Zenon DEF SessionRef
  <2>2. <<worker.peer, worker.idx[worker.peer][1]>> \in Session
    BY <1>7, <2>1 DEF SendRsReq, WorkerOK, Session, Direction
  <2>3. Request \in RequestType
    BY <1>7 DEF SendRsReq, Request, RequestType, WorkerOK, WorkerType
  <2>4. pending' \in [Session -> Seq(RequestType)]
    <3>1. \A s \in Session : Append(pending[s], Request) \in Seq(RequestType)
      BY <2>3, AppendProperties
    <3> QED
      BY <1>7, <2>2, <3>1 DEF SendRsReq, RequestSent
  <2> QED
    BY <1>7, <2>4, IdleWorkerOK DEF SendRsReq, WorkerOK
<1> QED
  BY <1>0, <1>1, <1>2, <1>3, <1>4, <1>5, <1>6, <1>7
  DEF Worker, PickOutOfRange, SendFails, SendWithoutSession, WorkerOK

\* A block that arrives leaves a file of the right type.
LEMMA SavedType ==
    ASSUME NEW f \in FileType \cup {NoFile}, NEW b \in BlockType, NEW v \in Version
    PROVE  Saved(f, b, v) \in FileType
<1> DEFINE old == IF f = NoFile THEN [len |-> 0, data |-> [o \in Offset |-> NoFile]] ELSE f
<1>1. old \in FileType
  BY DEF FileType
<1>2. old.len \in Nat /\ old.data \in [Offset -> Version \cup {NoFile}]
  BY <1>1 DEF FileType
<1> HIDE DEF old
<1>3. [len  |-> IF old.len < b.end THEN b.end ELSE old.len,
       data |-> [o \in Offset |-> IF b.start <= o /\ o < b.end THEN v ELSE old.data[o]]] \in FileType
  BY <1>2 DEF FileType, BlockType
<1> QED
  BY <1>3 DEF Saved, old

\* The block of a reply is a block.
LEMMA RepliedType ==
    ASSUME NEW b \in BlockType, NEW v \in Version
    PROVE  Replied(v, b) \in BlockType
<1>1. v.size \in Nat
  BY VersionAssumption, SizeAssumption
<1> QED
  BY <1>1 DEF Replied, Block, BlockType, LesserOf

\* A request that is answered, and the file that is served for it.
LEMMA HeadRequest ==
    ASSUME EngineTypes, NEW p \in Peer, NEW d \in Direction, pending[<<p, d>>] # <<>>
    PROVE  /\ Head(pending[<<p, d>>]) \in RequestType
           /\ [pending EXCEPT ![<<p, d>>] = Tail(@)] \in [Session -> Seq(RequestType)]
           /\ srv[p][Head(pending[<<p, d>>]).uri] \in Version \cup {NoFile}
<1>1. pending[<<p, d>>] \in Seq(RequestType) /\ <<p, d>> \in Session
  BY DEF EngineTypes, Session, Direction
<1>2. Head(pending[<<p, d>>]) \in RequestType /\ Tail(pending[<<p, d>>]) \in Seq(RequestType)
  BY <1>1, HeadTailProperties
<1> QED
  BY <1>1, <1>2 DEF EngineTypes, RequestType

\* The event loop and the environment keep the types.
LEMMA EngineStepKeepsTypes ==
    ASSUME EngineInv, [EngineNext]_engineVars
    PROVE  EngineTypes'
<1> USE DEF EngineInv, EngineTypes
<1>1. CASE Worker
  <2>1. UNCHANGED <<main, tcp_ctx, disk, srv>>
    BY <1>1 DEF Worker, Take, CopyRs, ReadOwnerSize, ReadBlockSize, ReadSyncingSize, PickPeer,
       PickOutOfRange, SendRsReq, SendFails, SendWithoutSession, envVars
  <2> QED
    BY <1>1, <2>1, WorkerKeepsTypes DEF MainOK
<1>2. CASE Handler
  <2>1. WorkerOK' /\ UNCHANGED <<tcp_ctx, pending, disk, srv>>
    BY <1>2 DEF Handler, RefreshSyncingRs, RefreshDone, AddReqTask, AddReqDone, envVars, WorkerOK
  <2>3. MainOK'
    <3>1. CASE RefreshDone \/ AddReqDone
      BY <3>1, EventLoopOK DEF RefreshDone, AddReqDone, MainOK
    <3>2. CASE RefreshSyncingRs
      <4>1. PICK t : main' = [main EXCEPT !.todo = @ \ {t}]
        BY <3>2 DEF RefreshSyncingRs
      <4> QED
        BY <4>1 DEF MainOK, MainType
    <3>3. CASE AddReqTask
      <4>1. PICK u \in Uri : main' = [main EXCEPT !.seen = @ \cup {u}]
        BY <3>3 DEF AddReqTask
      <4> QED
        BY <3>3, <4>1 DEF AddReqTask, MainOK, MainType
    <3> QED
      BY <1>2, <3>1, <3>2, <3>3 DEF Handler
  <2>4. tasks' \in Seq(Uri)
    <3>1. tasks' = tasks \/ \E u \in Uri : tasks' = Append(tasks, u)
      <4>1. CASE AddReqTask
        BY <4>1 DEF AddReqTask
      <4> QED
        BY <1>2, <4>1 DEF Handler, RefreshSyncingRs, RefreshDone, AddReqDone
    <3>2. ASSUME NEW u \in Uri, tasks' = Append(tasks, u) PROVE tasks' \in Seq(Uri)
      BY <3>2, AppendProperties
    <3> QED
      BY <3>1, <3>2
  <2> QED
    BY <2>1, <2>3, <2>4
<1>3. ASSUME NEW p \in Peer, HandleReplyTableIndex(p) PROVE EngineTypes'
  <2> PICK need \in [Uri -> BOOLEAN] :
          /\ \A u \in Uri : need[u] \in NeedToSync(u, srv[p][u])
          /\ main' = [pc |-> "refresh", peer |-> p, seen |-> {},
                      todo |-> {[uri |-> u, rs |-> srv[p][u]] : u \in {x \in Uri : need[x]}}]
    BY <1>3 DEF HandleReplyTableIndex
  <2>1. ASSUME NEW u \in Uri, need[u] PROVE srv[p][u] \in Version
    BY <2>1 DEF NeedToSync
  <2>2. MainOK'
    BY <2>1 DEF MainOK, MainType
  <2> QED
    BY <1>3, <2>2 DEF HandleReplyTableIndex, envVars, WorkerOK
<1>4. ASSUME NEW p \in Peer, NEW d \in Direction, HandleReplyResource(p, d) PROVE EngineTypes'
  <2> DEFINE req == Head(pending[<<p, d>>])
             v == srv[p][req.uri]
  <2>1. /\ pending[<<p, d>>] # <<>> /\ Answers(v, req.block)
        /\ SaveLocal(req.uri, Replied(v, req.block), v)
        /\ pending' = [pending EXCEPT ![<<p, d>>] = Tail(@)]
        /\ main' = [EventLoop EXCEPT !.pc = "addreq"]
        /\ UNCHANGED <<tasks, worker, tcp_ctx, srv>>
    BY <1>4 DEF HandleReplyResource, envVars
  <2>2. /\ req \in RequestType /\ v \in Version \cup {NoFile}
        /\ pending' \in [Session -> Seq(RequestType)]
    BY <2>1, HeadRequest
  <2>3. v \in Version /\ req.uri \in Uri /\ Replied(v, req.block) \in BlockType
    BY <2>1, <2>2, RepliedType DEF Answers, RequestType
  <2> HIDE DEF req, v
  <2>4. disk' \in [Uri -> FileType \cup {NoFile}]
    <3>1. disk[req.uri] \in FileType \cup {NoFile}
      BY <2>3
    <3>2. Saved(disk[req.uri], Replied(v, req.block), v) \in FileType
      BY <2>3, <3>1, SavedType
    <3> QED
      BY <2>1, <2>3, <3>2 DEF SaveLocal
  <2>5. MainOK'
    BY <2>1, EventLoopOK DEF MainOK
  <2> QED
    BY <2>1, <2>2, <2>4, <2>5 DEF WorkerOK
<1>5. ASSUME NEW p \in Peer, NEW d \in Direction, NoReply(p, d) PROVE EngineTypes'
  <2>1. pending' \in [Session -> Seq(RequestType)]
    BY <1>5, HeadRequest DEF NoReply
  <2> QED
    BY <1>5, <2>1 DEF NoReply, envVars, WorkerOK, MainOK
<1>6. ASSUME NEW p \in Peer, NEW d \in Direction, EventCb(p, d) PROVE EngineTypes'
  <2> PICK i \in DOMAIN tcp_ctx[p] :
          tcp_ctx' = [tcp_ctx EXCEPT ![p] = SubSeq(@, 1, i - 1) \o SubSeq(@, i + 1, Len(@))]
    BY <1>6 DEF EventCb
  <2> DEFINE s == tcp_ctx[p]
  <2>1. s \in Seq(Direction) /\ i \in 1 .. Len(s) /\ Len(s) \in Nat
    BY LenProperties
  <2>2. \A k \in 1 .. Len(s) : s[k] \in Direction
    BY <2>1, ElementOfSeq
  <2> HIDE DEF s
  <2>3. SubSeq(s, 1, i - 1) \in Seq(Direction) /\ SubSeq(s, i + 1, Len(s)) \in Seq(Direction)
    <3>1. \A k \in 1 .. i - 1 : s[k] \in Direction
      BY <2>1, <2>2
    <3>2. \A k \in i + 1 .. Len(s) : s[k] \in Direction
      BY <2>1, <2>2
    <3>3. i - 1 \in Int /\ i + 1 \in Int /\ Len(s) \in Int
      BY <2>1
    <3> QED
      BY <3>1, <3>2, <3>3, SubSeqProperties
  <2>4. SubSeq(s, 1, i - 1) \o SubSeq(s, i + 1, Len(s)) \in Seq(Direction)
    BY <2>3, ConcatProperties
  <2>5. tcp_ctx' \in [Peer -> Seq(Direction)]
    BY <2>4 DEF s
  <2>6. pending' \in [Session -> Seq(RequestType)]
    BY <1>6, EmptySeq DEF EventCb
  <2>7. WorkerOK'
    <3>1. <<d, FALSE>> \in SessionRef
      BY DEF SessionRef
    <3>2. worker.idx[p] \in SessionRef /\ worker.idx \in [Peer -> SessionRef]
      BY DEF WorkerOK, WorkerType
    <3>3. [worker.idx EXCEPT ![p] = IF @ = <<d, TRUE>> THEN <<d, FALSE>> ELSE @]
              \in [Peer -> SessionRef]
      BY <3>1, <3>2
    <3> QED
      BY <1>6, <3>3 DEF EventCb, WorkerOK, WorkerType
  <2> QED
    BY <1>6, <2>5, <2>6, <2>7 DEF EventCb, MainOK
<1>7. ASSUME NEW p \in Peer, ConnectWithTcp(p) \/ TcpAccept(p) PROVE EngineTypes'
  <2>1. /\ UNCHANGED <<tasks, worker, main, pending, srv, disk>>
        /\ \E d \in Direction : tcp_ctx' = [tcp_ctx EXCEPT ![p] = Append(@, d)]
    BY <1>7 DEF ConnectWithTcp, TcpAccept, Direction, envVars
  <2>2. tcp_ctx' \in [Peer -> Seq(Direction)]
    BY <2>1, AppendProperties
  <2> QED
    BY <2>1, <2>2 DEF WorkerOK, MainOK
<1>8. ASSUME NEW p \in Peer, NEW u \in Uri, NEW v \in Version \cup {NoFile}, PeerChanges(p, u, v)
      PROVE  EngineTypes'
  <2>1. srv' \in [Peer -> [Uri -> Version \cup {NoFile}]]
    BY <1>8 DEF PeerChanges
  <2> QED
    BY <1>8, <2>1 DEF PeerChanges, WorkerOK, MainOK
<1>9. CASE UNCHANGED engineVars
  BY <1>9 DEF engineVars, WorkerOK, MainOK
<1> QED
  BY <1>1, <1>2, <1>3, <1>4, <1>5, <1>6, <1>7, <1>8, <1>9 DEF EngineNext, Direction

\* The first states of the engine satisfy the invariant.
LEMMA EngineInitOK == ASSUME EngineInit PROVE EngineInv
<1>1. TableInv
  BY InitOK DEF EngineInit
<1>2. WorkerOK /\ MainOK
  BY IdleWorkerOK, EventLoopOK DEF EngineInit, WorkerOK, MainOK
<1>3. tasks \in Seq(Uri) /\ pending \in [Session -> Seq(RequestType)]
  BY EmptySeq DEF EngineInit
<1>4. tcp_ctx \in [Peer -> Seq(Direction)]
  <2>1. <<"out">> \in Seq(Direction)
    BY DEF Direction
  <2> QED
    BY <2>1 DEF EngineInit
<1> QED
  BY <1>1, <1>2, <1>3, <1>4, ServedAssumption DEF EngineInit, EngineInv, EngineTypes

\* Type correctness of the engine, and the invariant of its table.
THEOREM EngineInvariant == EngineSafety => []EngineInv
<1>1. EngineInit => EngineInv
  BY EngineInitOK
<1>2. EngineInv /\ [EngineNext]_engineVars => EngineInv'
  BY EngineStepIsOpen, OpenNextKeeps, EngineStepKeepsTypes DEF EngineInv
<1> QED
  BY <1>1, <1>2, PTL DEF EngineSafety

\* The engine implements the open table: what the worker, the event loop and a
\* crash do to it are the manager's operations, one at a time.
THEOREM EngineImplementsTable == EngineSafety => Init /\ [][OpenNext]_vars
<1>1. EngineInit => Init
  BY DEF EngineInit
<1>2. EngineInv /\ [EngineNext]_engineVars => [OpenNext]_vars
  BY EngineStepIsOpen
<1> QED
  BY <1>1, <1>2, EngineInvariant, PTL DEF EngineSafety

\* In the running engine, with its two threads, broken sessions and changing
\* peers, no block is lost or held twice or requested from two peers, ranges are
\* held by owners and owners agree on the version.
THEOREM EngineTableSound ==
    EngineSafety => [](BlocksConserved /\ OnePeerPerBlock /\ RangesHeldByOwners /\ OwnersAgree)
<1>1. EngineInv => BlocksConserved /\ OnePeerPerBlock /\ RangesHeldByOwners /\ OwnersAgree
  BY DEF EngineInv, TableInv, EntryOK, Consistent, Partition, Announced, BlocksConserved,
     OnePeerPerBlock, RangesHeldByOwners, OwnersAgree
<1> QED
  BY <1>1, EngineInvariant, PTL
-----------------------------------------------------------------------------
(***************************************************************************)
(* The download limit.  Between the worker's check of the number of ranges *)
(* and its registration the event loop may change the entry, but only      *)
(* registration adds a range.                                              *)
(***************************************************************************)
\* The entry e has at most n ranges.
AtMost(e, n) == e # Absent => IsFiniteSet(e.syncing) /\ Cardinality(e.syncing) <= n

\* The worker that has passed the check finds one range less than the limit.
LimitInv ==
    /\ \A u \in Uri : AtMost(uriRs[u], DOWNLOAD_LIMIT)
    /\ worker.pc = "pick" => AtMost(uriRs[worker.uri], DOWNLOAD_LIMIT - 1)

\* Compared with the entry e, the entry f has no further range.
NoNewRange(e, f) == f # Absent => f.syncing = {} \/ (e # Absent /\ f.syncing \subseteq e.syncing)

\* An entry without a further range keeps a bound.
LEMMA NoNewRangeKeeps ==
    ASSUME NEW e, NEW f, NEW n \in Nat, AtMost(e, n), NoNewRange(e, f)
    PROVE  AtMost(f, n)
<1> SUFFICES ASSUME f # Absent
             PROVE  IsFiniteSet(f.syncing) /\ Cardinality(f.syncing) <= n
  BY DEF AtMost
<1>1. CASE f.syncing = {}
  BY <1>1, FS_EmptySet
<1>2. CASE e # Absent /\ f.syncing \subseteq e.syncing
  <2>1. IsFiniteSet(e.syncing) /\ Cardinality(e.syncing) <= n
    BY <1>2 DEF AtMost
  <2>2. IsFiniteSet(f.syncing) /\ Cardinality(f.syncing) <= Cardinality(e.syncing)
    BY <1>2, <2>1, FS_Subset
  <2>3. Cardinality(f.syncing) \in Nat /\ Cardinality(e.syncing) \in Nat
    BY <2>1, <2>2, FS_CardinalityType
  <2> QED
    BY <2>1, <2>2, <2>3
<1> QED
  BY <1>1, <1>2 DEF NoNewRange

\* Storing under one uri adds a range nowhere else.
LEMMA StoreNoNewRange ==
    ASSUME TableInv, NEW v \in Uri, NEW f, Store(v, f), NoNewRange(uriRs[v], f), NEW u \in Uri
    PROVE  NoNewRange(uriRs[u], uriRs'[u])
<1>1. uriRs'[v] = f /\ (u # v => uriRs'[u] = uriRs[u])
  BY DEF Store, TableInv, TypeOK
<1> QED
  BY <1>1 DEF NoNewRange

\* Reading an entry, which may insert an empty one, adds no range.
LEMMA AtNoNewRange ==
    ASSUME TableInv, NEW u \in Uri, NEW e \in At(u)
    PROVE  NoNewRange(uriRs[u], e)
BY DEF At, NoNewRange, DefaultRs

\* The calls of the engine other than the registration of a range.
QuietCall ==
    \E u \in Uri :
        \/ Get(u)
        \/ \E p \in Peer, h \in Hash, s \in Size : RegSyncRs(p, u, h, s)
        \/ \E p, b : SyncingRangeDoneAndValid(p, u, b)
        \/ \E p : UnregAllReqSyncRsByPeer(p, u)

\* None of them adds a range.
LEMMA QuietCallAddsNoRange ==
    ASSUME TableInv, QuietCall \/ UNCHANGED uriRs, NEW w \in Uri
    PROVE  NoNewRange(uriRs[w], uriRs'[w])
<1>0. CASE uriRs' = uriRs
  BY <1>0 DEF NoNewRange
<1>1. ASSUME NEW u \in Uri, Get(u) PROVE NoNewRange(uriRs[w], uriRs'[w])
  BY <1>1, AtNoNewRange, StoreNoNewRange DEF Get
<1>2. ASSUME NEW u \in Uri, NEW p \in Peer, NEW h \in Hash, NEW s \in Size, RegSyncRs(p, u, h, s)
      PROVE  NoNewRange(uriRs[w], uriRs'[w])
  <2>1. ASSUME NEW a, Store(u, NewRs(p, h, s, a)) PROVE NoNewRange(uriRs[w], uriRs'[w])
    <3>1. NoNewRange(uriRs[u], NewRs(p, h, s, a))
      BY DEF NoNewRange, NewRs
    <3> QED
      BY <2>1, <3>1, StoreNoNewRange
  <2>2. CASE NewUri(p, u, h, s) \/ BiggerRs(p, u, h, s)
    BY <2>1, <2>2 DEF NewUri, BiggerRs
  <2>3. CASE OtherRs(p, u, h, s)
    BY <1>0, <2>3 DEF OtherRs
  <2>4. CASE SameRs(p, u, h, s)
    <3> DEFINE f == [uriRs[u] EXCEPT !.owner = @ \cup {p}]
    <3>1. uriRs[u] \in SyncRsType /\ uriRs[u] # Absent /\ Store(u, f)
      BY <2>4 DEF SameRs, TableInv, EntryOK, Consistent
    <3>2. f.syncing = uriRs[u].syncing
      BY <3>1 DEF SyncRsType
    <3> HIDE DEF f
    <3>3. NoNewRange(uriRs[u], f)
      BY <3>1, <3>2 DEF NoNewRange
    <3> QED
      BY <3>1, <3>3, StoreNoNewRange
  <2> QED
    BY <1>2, <2>2, <2>3, <2>4 DEF RegSyncRs
<1>3. ASSUME NEW u \in Uri, NEW p, NEW b, SyncingRangeDoneAndValid(p, u, b), uriRs' # uriRs
      PROVE  NoNewRange(uriRs[w], uriRs'[w])
  <2> PICK e \in At(u) : RangeDone(e, p, u, b)
    BY <1>3 DEF SyncingRangeDoneAndValid, Crash
  <2>1. uriRs[u] = e /\ e # Absent /\ e \in SyncRsType
    BY AtPresent, AbsentAssumption DEF At, RangeDone, DefaultRs
  <2>2. CASE Erase(u)
    BY <2>2, StoreNoNewRange DEF Erase, NoNewRange
  <2>3. CASE Store(u, Finish(e, p, b))
    <3>1. Finish(e, p, b).syncing \subseteq e.syncing
      BY <2>1 DEF Finish, SyncRsType
    <3>2. NoNewRange(uriRs[u], Finish(e, p, b))
      BY <2>1, <3>1 DEF NoNewRange
    <3> QED
      BY <2>3, <3>2, StoreNoNewRange
  <2> QED
    BY <2>2, <2>3 DEF RangeDone
<1>4. ASSUME NEW u \in Uri, NEW p, UnregAllReqSyncRsByPeer(p, u), uriRs' # uriRs
      PROVE  NoNewRange(uriRs[w], uriRs'[w])
  <2> PICK e \in At(u) : Store(u, Release(e, p))
    BY <1>4 DEF UnregAllReqSyncRsByPeer, Crash
  <2>1. e \in SyncRsType /\ NoNewRange(uriRs[u], e) /\ e # Absent
    BY AtPresent, AtNoNewRange, AbsentAssumption
  <2>2. Release(e, p).syncing \subseteq e.syncing
    BY <2>1 DEF Release, SyncRsType
  <2>3. NoNewRange(uriRs[u], Release(e, p))
    BY <2>1, <2>2 DEF NoNewRange
  <2> QED
    BY <2>3, StoreNoNewRange
<1> QED
  BY <1>0, <1>1, <1>2, <1>3, <1>4 DEF QuietCall

\* Only PickPeer registers a range.
LEMMA OnlyPickRegisters ==
    ASSUME EngineInv, [EngineNext]_engineVars, ~PickPeer
    PROVE  QuietCall \/ UNCHANGED uriRs
<1> USE DEF EngineInv, EngineTypes
<1>1. ASSUME Get(worker.uri), worker.pc # "idle" PROVE QuietCall
  BY <1>1 DEF QuietCall, WorkerOK
<1>2. CASE CopyRs \/ ReadOwnerSize \/ ReadBlockSize \/ ReadSyncingSize \/ PickOutOfRange
  BY <1>1, <1>2 DEF CopyRs, ReadOwnerSize, ReadBlockSize, ReadSyncingSize, PickOutOfRange, Crash
<1>3. CASE SendFails
  BY <1>3 DEF SendFails, WorkerOK, QuietCall, Crash
<1>4. CASE RefreshSyncingRs
  <2> PICK t \in main.todo : RegSyncRs(main.peer, t.uri, t.rs.hash, t.rs.size)
    BY <1>4 DEF RefreshSyncingRs
  <2>1. main.peer \in Peer /\ t.uri \in Uri /\ t.rs \in Version
    BY <1>4 DEF RefreshSyncingRs, MainOK, MainType
  <2>2. t.rs.hash \in Hash /\ t.rs.size \in Size
    BY <2>1, VersionAssumption
  <2> QED
    BY <2>1, <2>2 DEF QuietCall
<1>5. ASSUME NEW p \in Peer, NEW d \in Direction, HandleReplyResource(p, d) PROVE QuietCall
  <2> DEFINE req == Head(pending[<<p, d>>])
             v == srv[p][req.uri]
  <2>1. /\ pending[<<p, d>>] # <<>>
        /\ SyncingRangeDoneAndValid(CtxPeer(p, d), req.uri, Replied(v, req.block))
    BY <1>5 DEF HandleReplyResource
  <2>2. req.uri \in Uri
    BY <2>1, HeadRequest DEF RequestType
  <2> QED
    BY <2>1, <2>2 DEF QuietCall
<1> QED
  BY <1>2, <1>3, <1>4, <1>5
  DEF EngineNext, Worker, Handler, Take, SendRsReq, SendWithoutSession, RefreshDone, AddReqTask,
      AddReqDone, HandleReplyTableIndex, ConnectWithTcp, TcpAccept, NoReply, EventCb, PeerChanges,
      engineVars, Direction, Crash

\* The worker reaches "pick" only through its check.
LEMMA PickIsReached ==
    ASSUME EngineInv, [EngineNext]_engineVars, ~ReadSyncingSize, worker'.pc = "pick"
    PROVE  worker.pc = "pick" /\ worker'.uri = worker.uri
<1> USE DEF EngineInv, EngineTypes
<1>1. CASE worker' = worker
  BY <1>1
<1>2. ASSUME NEW p \in Peer, NEW d \in Direction, EventCb(p, d)
      PROVE  worker.pc = "pick" /\ worker'.uri = worker.uri
  BY <1>2 DEF EventCb, WorkerOK, WorkerType
<1>3. CASE Take \/ SendRsReq \/ SendFails \/ PickOutOfRange
  BY <1>3, IdleWorkerOK DEF Take, SendRsReq, SendFails, PickOutOfRange, WorkerType
<1>4. CASE CopyRs \/ ReadOwnerSize \/ ReadBlockSize
  BY <1>4, IdleWorkerOK DEF CopyRs, ReadOwnerSize, ReadBlockSize, WorkerOK, WorkerType
<1>5. CASE PickPeer
  BY <1>5, IdleWorkerOK DEF PickPeer, WorkerOK, WorkerType
<1> QED
  BY <1>1, <1>2, <1>3, <1>4, <1>5
  DEF EngineNext, Worker, Handler, SendWithoutSession, RefreshSyncingRs, RefreshDone, AddReqTask,
      AddReqDone, HandleReplyTableIndex, HandleReplyResource, ConnectWithTcp, TcpAccept, NoReply,
      PeerChanges, engineVars, Direction

\* The registration adds one range to an entry that is below the limit.
LEMMA PickPeerKeepsLimit ==
    ASSUME EngineInv, LimitInv, PickPeer, NEW u \in Uri
    PROVE  AtMost(uriRs'[u], DOWNLOAD_LIMIT)
<1> USE DEF EngineInv, EngineTypes
<1> DEFINE w == worker.uri
<1> PICK p \in worker.owner, b \in Blocks : RegReqSyncRsAuto(p, worker.uri, b)
  BY DEF PickPeer
<1>0. w \in Uri /\ AtMost(uriRs[w], DOWNLOAD_LIMIT - 1) /\ AtMost(uriRs[u], DOWNLOAD_LIMIT)
  BY DEF PickPeer, WorkerOK, LimitInv
<1>1. CASE NothingToAssign(p, w, b)
  <2> PICK e \in At(w) : Store(w, e)
    BY <1>1 DEF NothingToAssign
  <2>1. NoNewRange(uriRs[u], uriRs'[u])
    BY <1>0, AtNoNewRange, StoreNoNewRange
  <2> QED
    BY <1>0, <2>1, NoNewRangeKeeps, LimitAssumption
<1>2. CASE Assign(p, w, b)
  <2> DEFINE r0 == SyncingRange(p, b)
  <2> PICK e \in At(w) :
          /\ p \in e.owner /\ b \in e.block
          /\ Store(w, [e EXCEPT !.block = @ \ {b}, !.syncing = @ \cup {r0}, !.alloc = TRUE])
    BY <1>2 DEF Assign
  <2>1. e = uriRs[w] /\ e \in SyncRsType /\ e # Absent
    BY <1>0, AtPresent, AbsentAssumption DEF At, DefaultRs
  <2>2. uriRs'[w].syncing = e.syncing \cup {r0} /\ (u # w => uriRs'[u] = uriRs[u])
    BY <1>0, <2>1 DEF Store, TableInv, TypeOK, SyncRsType
  <2>3. IsFiniteSet(e.syncing) /\ Cardinality(e.syncing) <= DOWNLOAD_LIMIT - 1
    BY <1>0, <2>1 DEF AtMost
  <2>4. /\ IsFiniteSet(e.syncing \cup {r0}) /\ Cardinality(e.syncing) \in Nat
        /\ \/ Cardinality(e.syncing \cup {r0}) = Cardinality(e.syncing)
           \/ Cardinality(e.syncing \cup {r0}) = Cardinality(e.syncing) + 1
    BY <2>3, FS_AddElement, FS_CardinalityType
  <2>5. Cardinality(e.syncing \cup {r0}) <= DOWNLOAD_LIMIT
    BY <2>3, <2>4, LimitAssumption
  <2> QED
    BY <1>0, <2>2, <2>4, <2>5 DEF AtMost
<1> QED
  BY <1>1, <1>2 DEF RegReqSyncRsAuto

\* At most DOWNLOAD_LIMIT blocks of a resource are requested at a time.
THEOREM LimitSound == EngineSafety => []DownloadLimitKept
<1>1. EngineInit => LimitInv
  BY IdleWorkerOK DEF EngineInit, Init, LimitInv, AtMost
<1>2. EngineInv /\ LimitInv /\ [EngineNext]_engineVars => LimitInv'
  <2> SUFFICES ASSUME EngineInv, LimitInv, [EngineNext]_engineVars PROVE LimitInv'
    OBVIOUS
  <2>0. /\ DOWNLOAD_LIMIT \in Nat /\ DOWNLOAD_LIMIT - 1 \in Nat
        /\ worker.pc # "idle" => worker.uri \in Uri
    BY LimitAssumption DEF EngineInv, EngineTypes, WorkerOK
  <2>1. CASE PickPeer
    <3>1. worker'.pc # "pick"
      BY <2>1, IdleWorkerOK DEF PickPeer, EngineInv, EngineTypes, WorkerOK, WorkerType
    <3> QED
      BY <2>1, <3>1, PickPeerKeepsLimit DEF LimitInv
  <2>2. CASE ~PickPeer
    <3>1. \A u \in Uri : NoNewRange(uriRs[u], uriRs'[u])
      BY <2>2, OnlyPickRegisters, QuietCallAddsNoRange DEF EngineInv
    <3>2. \A u \in Uri : AtMost(uriRs'[u], DOWNLOAD_LIMIT)
      BY <2>0, <3>1, NoNewRangeKeeps DEF LimitInv
    <3>3. CASE ReadSyncingSize
      <4>1. worker.uri \in Uri /\ uriRs'[worker.uri] \in SyncRsType
        BY <2>0, <3>3, GetEntry DEF ReadSyncingSize, EngineInv
      <4>2. /\ IsFiniteSet(uriRs'[worker.uri].syncing)
            /\ Cardinality(uriRs'[worker.uri].syncing) \in Nat
        BY <3>2, <4>1, AbsentAssumption, FS_CardinalityType DEF AtMost
      <4>3. ASSUME worker'.pc = "pick"
            PROVE  AtMost(uriRs'[worker'.uri], DOWNLOAD_LIMIT - 1)
        <5>1. /\ worker'.uri = worker.uri
              /\ ~(Cardinality(uriRs'[worker.uri].syncing) >= DOWNLOAD_LIMIT)
          BY <3>3, <4>3, IdleWorkerOK
          DEF ReadSyncingSize, AtLimit, EngineInv, EngineTypes, WorkerOK, WorkerType
        <5> QED
          BY <2>0, <4>2, <5>1 DEF AtMost
      <4> QED
        BY <3>2, <4>3 DEF LimitInv
    <3>4. CASE ~ReadSyncingSize
      <4>1. ASSUME worker'.pc = "pick"
            PROVE  AtMost(uriRs'[worker'.uri], DOWNLOAD_LIMIT - 1)
        <5>1. worker.pc = "pick" /\ worker'.uri = worker.uri
          BY <3>4, <4>1, PickIsReached
        <5> QED
          BY <2>0, <3>1, <5>1, NoNewRangeKeeps DEF LimitInv
      <4> QED
        BY <3>2, <4>1 DEF LimitInv
    <3> QED
      BY <3>3, <3>4
  <2> QED
    BY <2>1, <2>2
<1>3. LimitInv => DownloadLimitKept
  BY DEF LimitInv, AtMost, DownloadLimitKept
<1> QED
  BY <1>1, <1>2, <1>3, EngineInvariant, PTL DEF EngineSafety
-----------------------------------------------------------------------------
(***************************************************************************)
(* While sessions and the peers' files do not change: every range of the   *)
(* table has its request under way, no block is under way twice, and a     *)
(* reply meets the range it answers.                                       *)
(***************************************************************************)
\* Sessions stay as they are and so do the peers' files, none of which is empty
\* (the only block of an empty file is never requested).
Steady ==
    /\ MaxDisconnects = 0 /\ MaxChanges = 0 /\ ~PeersConnect
    /\ \A p \in Peer, u \in Uri : Served[p][u] # NoFile => Served[p][u].size > 0

\* The peers that serve a resource serve the same content.
OneContent ==
    \A p, q \in Peer, u \in Uri :
        Served[p][u] # NoFile /\ Served[q][u] # NoFile => Served[p][u] = Served[q][u]

\* Nothing is announced that is not served, and each peer has one open session.
SteadyInv ==
    /\ disconnects = 0 /\ changes = 0 /\ srv = Served
    /\ tcp_ctx = [p \in Peer |-> <<"out">>]
    /\ worker.pc # "idle" => \A p \in Peer : worker.idx[p] = <<"out", TRUE>>
    /\ \A p \in Peer : pending[<<p, "in">>] = <<>>
    /\ \A t \in main.todo : t.rs = Served[main.peer][t.uri]
    /\ \A a \in adv :
          /\ Served[a.peer][a.uri] = [size |-> a.size, hash |-> a.hash]
          /\ Served[a.peer][a.uri] \in Version
-----------------------------------------------------------------------------
\* Of the first states.
LEMMA SteadyInitOK == ASSUME EngineInit PROVE SteadyInv
BY IdleWorkerOK DEF EngineInit, Init, SteadyInv, EventLoop, Session, IdleWorker

\* The sessions and files stay.
LEMMA SteadyStep ==
    ASSUME Steady, EngineInv, SteadyInv, [EngineNext]_engineVars
    PROVE  SteadyInv'
<1> USE DEF EngineInv, EngineTypes
<1>0. \A p \in Peer : HasSession(p, "out")
  BY DEF HasSession, SteadyInv
<1>1. UNCHANGED <<disconnects, changes, srv, tcp_ctx>>
  <2>1. \A p \in Peer, d \in Direction : ~EventCb(p, d)
    BY DEF EventCb, Steady, SteadyInv
  <2>2. \A p \in Peer, u \in Uri, v \in Version \cup {NoFile} : ~PeerChanges(p, u, v)
    BY DEF PeerChanges, Steady, SteadyInv
  <2>3. \A p \in Peer : ~ConnectWithTcp(p) /\ ~TcpAccept(p)
    BY <1>0 DEF ConnectWithTcp, TcpAccept, Steady
  <2> QED
    BY <2>1, <2>2, <2>3
    DEF EngineNext, Worker, Handler, Take, CopyRs, ReadOwnerSize, ReadBlockSize, ReadSyncingSize,
        PickPeer, PickOutOfRange, SendRsReq, SendFails, SendWithoutSession, RefreshSyncingRs,
        RefreshDone, AddReqTask, AddReqDone, HandleReplyTableIndex, HandleReplyResource, NoReply,
        engineVars, envVars, Direction
<1>2. ASSUME worker'.pc # "idle", NEW p \in Peer PROVE worker'.idx[p] = <<"out", TRUE>>
  <2>1. CASE Take
    <3>1. tcp_ctx[p] = <<"out">> /\ tcp_ctx[p] # <<>> /\ tcp_ctx[p][Len(tcp_ctx[p])] = "out"
      BY DEF SteadyInv
    <3>2. worker' = [IdleWorker EXCEPT !.pc = "copy", !.uri = Head(tasks), !.idx = GetAllTcpSession]
      BY <2>1 DEF Take
    <3>3. worker'.idx = GetAllTcpSession
      BY <3>2, IdleWorkerOK DEF WorkerType
    <3> QED
      BY <3>1, <3>3 DEF GetAllTcpSession
  <2>2. CASE worker.pc # "idle" /\ worker'.idx = worker.idx
    BY <2>2 DEF SteadyInv
  <2>3. CASE worker' = worker
    BY <1>2, <2>2, <2>3
  <2>4. CASE worker' = IdleWorker
    BY <1>2, <2>4, IdleWorkerOK
  <2>5. CASE CopyRs \/ ReadOwnerSize \/ ReadBlockSize \/ ReadSyncingSize
    BY <2>2, <2>4, <2>5 DEF CopyRs, ReadOwnerSize, ReadBlockSize, ReadSyncingSize, WorkerOK, WorkerType
  <2>6. CASE PickPeer
    BY <2>2, <2>4, <2>6 DEF PickPeer, WorkerOK, WorkerType
  <2>7. \A q \in Peer, d \in Direction : ~EventCb(q, d)
    BY DEF EventCb, Steady, SteadyInv
  <2> QED
    BY <2>1, <2>3, <2>4, <2>5, <2>6, <2>7
    DEF EngineNext, Worker, Handler, PickOutOfRange, SendRsReq, SendFails, SendWithoutSession,
        RefreshSyncingRs, RefreshDone, AddReqTask, AddReqDone, HandleReplyTableIndex,
        HandleReplyResource, ConnectWithTcp, TcpAccept, NoReply, PeerChanges, engineVars, Direction
<1>3. ASSUME NEW p \in Peer PROVE pending'[<<p, "in">>] = <<>>
  <2>0. pending[<<p, "in">>] = <<>> /\ <<p, "in">> \in Session
    BY DEF SteadyInv, Session
  <2>1. CASE pending' = pending
    BY <2>0, <2>1
  <2>2. CASE SendRsReq
    <3>1. worker.peer \in Peer /\ worker.idx[worker.peer] = <<"out", TRUE>>
      BY <2>2 DEF SendRsReq, SteadyInv, WorkerOK
    <3>2. pending' = [pending EXCEPT ![<<worker.peer, "out">>] = Append(@, Request)]
      BY <2>2, <3>1 DEF SendRsReq, RequestSent
    <3>3. <<worker.peer, "out">> # <<p, "in">>
      OBVIOUS
    <3> QED
      BY <2>0, <3>2, <3>3
  <2>3. ASSUME NEW q \in Peer, NEW d \in Direction, HandleReplyResource(q, d) \/ NoReply(q, d)
        PROVE  pending'[<<p, "in">>] = <<>>
    <3>1. pending[<<q, d>>] # <<>> /\ pending' = [pending EXCEPT ![<<q, d>>] = Tail(@)]
      BY <2>3 DEF HandleReplyResource, NoReply
    <3>2. <<q, d>> # <<p, "in">>
      BY <2>0, <3>1
    <3> QED
      BY <2>0, <3>1, <3>2
  <2>4. \A q \in Peer, d \in Direction : ~EventCb(q, d)
    BY DEF EventCb, Steady, SteadyInv
  <2> QED
    BY <2>1, <2>2, <2>3, <2>4
    DEF EngineNext, Worker, Handler, Take, CopyRs, ReadOwnerSize, ReadBlockSize, ReadSyncingSize,
        PickPeer, PickOutOfRange, SendFails, SendWithoutSession, RefreshSyncingRs, RefreshDone,
        AddReqTask, AddReqDone, HandleReplyTableIndex, ConnectWithTcp, TcpAccept, PeerChanges,
        engineVars, Direction
<1>4. \A t \in main'.todo : t.rs = Served[main'.peer][t.uri]
  <2>1. CASE main' = main
    BY <2>1 DEF SteadyInv
  <2>2. CASE main' = EventLoop \/ main' = [EventLoop EXCEPT !.pc = "addreq"]
    <3>1. main'.todo = {}
      BY <2>2 DEF EventLoop
    <3> QED
      BY <3>1
  <2>3. CASE RefreshSyncingRs
    <3>1. PICK t : main' = [main EXCEPT !.todo = @ \ {t}]
      BY <2>3 DEF RefreshSyncingRs
    <3>2. main'.peer = main.peer /\ main'.todo \subseteq main.todo
      BY <3>1 DEF MainOK, MainType
    <3> QED
      BY <3>2 DEF SteadyInv
  <2>4. CASE AddReqTask
    <3>1. PICK u \in Uri : main' = [main EXCEPT !.seen = @ \cup {u}]
      BY <2>4 DEF AddReqTask
    <3>2. main'.peer = main.peer /\ main'.todo = main.todo
      BY <3>1 DEF MainOK, MainType
    <3> QED
      BY <3>2 DEF SteadyInv
  <2>5. ASSUME NEW p \in Peer, HandleReplyTableIndex(p)
        PROVE  \A t \in main'.todo : t.rs = Served[main'.peer][t.uri]
    <3> PICK need \in [Uri -> BOOLEAN] :
            main' = [pc |-> "refresh", peer |-> p, seen |-> {},
                     todo |-> {[uri |-> u, rs |-> srv[p][u]] : u \in {x \in Uri : need[x]}}]
      BY <2>5 DEF HandleReplyTableIndex
    <3> QED
      BY DEF SteadyInv
  <2> QED
    BY <2>1, <2>2, <2>3, <2>4, <2>5, ZenonT(60)
    DEF EngineNext, Worker, Handler, Take, CopyRs, ReadOwnerSize, ReadBlockSize, ReadSyncingSize,
        PickPeer, PickOutOfRange, SendRsReq, SendFails, SendWithoutSession, RefreshDone, AddReqDone,
        HandleReplyResource, ConnectWithTcp, TcpAccept, NoReply, EventCb, PeerChanges, engineVars
<1>5. ASSUME NEW a \in adv'
      PROVE  /\ Served[a.peer][a.uri] = [size |-> a.size, hash |-> a.hash]
             /\ Served[a.peer][a.uri] \in Version
  <2>1. CASE adv' = adv
    BY <2>1 DEF SteadyInv
  <2>2. CASE RefreshSyncingRs
    <3> PICK t \in main.todo : RegSyncRs(main.peer, t.uri, t.rs.hash, t.rs.size)
      BY <2>2 DEF RefreshSyncingRs
    <3>1. t.rs \in Version /\ t.rs = Served[main.peer][t.uri]
      BY DEF MainOK, MainType, SteadyInv
    <3>2. t.rs = [size |-> t.rs.size, hash |-> t.rs.hash]
      BY <3>1, VersionAssumption
    <3>3. adv' = adv \cup {[peer |-> main.peer, uri |-> t.uri, hash |-> t.rs.hash, size |-> t.rs.size]}
      BY DEF RegSyncRs
    <3> QED
      BY <3>1, <3>2, <3>3, SMTT(30) DEF SteadyInv
  <2> QED
    BY <2>1, <2>2, ZenonT(60)
    DEF EngineNext, Worker, Handler, Take, CopyRs, ReadOwnerSize, ReadBlockSize, ReadSyncingSize,
        PickPeer, PickOutOfRange, SendRsReq, SendFails, SendWithoutSession, RefreshDone, AddReqTask,
        AddReqDone, HandleReplyTableIndex, HandleReplyResource, ConnectWithTcp, TcpAccept, NoReply,
        EventCb, PeerChanges, engineVars, Get, RegReqSyncRsAuto, UnregAllReqSyncRsByPeer,
        SyncingRangeDoneAndValid
<1> QED
  BY <1>1, <1>2, <1>3, <1>4, <1>5 DEF SteadyInv

\* While sessions and files do not change, SteadyInv holds.
THEOREM SteadyInvariant == ASSUME Steady PROVE EngineSafety => []SteadyInv
<1>1. EngineInit => SteadyInv
  BY SteadyInitOK
<1>2. EngineInv /\ SteadyInv /\ [EngineNext]_engineVars => SteadyInv'
  BY SteadyStep
<1> QED
  BY <1>1, <1>2, EngineInvariant, PTL DEF EngineSafety
-----------------------------------------------------------------------------
(***************************************************************************)
(* Every range is requested.                                               *)
(***************************************************************************)
\* The request for block b of u waits at p; the worker is about to send it.
Waits(p, u, b) ==
    \E i \in DOMAIN pending[<<p, "out">>] :
        pending[<<p, "out">>][i] = [uri |-> u, block |-> b]

AboutToSend(p, u, b) ==
    worker.pc = "send" /\ worker.uri = u /\ worker.peer = p /\ worker.block = b

HasRange(u, p, b) == uriRs[u] # Absent /\ SyncingRange(p, b) \in uriRs[u].syncing

RequestedInv ==
    alive => \A u \in Uri, p \in Peer, b \in BlockType :
        HasRange(u, p, b) => Waits(p, u, b) \/ AboutToSend(p, u, b)

\* The holder of a range serves the version of the entry, and answers with the
\* whole block.
LEMMA HolderServes ==
    ASSUME Steady, EngineInv, SteadyInv, NEW u \in Uri, NEW p, NEW b, HasRange(u, p, b)
    PROVE  /\ p \in Peer /\ b \in BlockType /\ uriRs[u] \in SyncRsType
           /\ uriRs[u].hash # NoHash
           /\ Served[p][u] = VersionOf(uriRs[u])
           /\ Served[p][u] \in Version
           /\ b \in Split(uriRs[u].size)
           /\ b.start < b.end /\ b.end <= uriRs[u].size
           /\ Answers(Served[p][u], b) /\ Replied(Served[p][u], b) = b
<1> DEFINE e == uriRs[u]
           r == SyncingRange(p, b)
<1>1. e # Absent /\ EntryOK(u, e, adv) /\ e \in SyncRsType /\ r \in e.syncing
  BY DEF EngineInv, TableInv, EntryOK, Consistent, HasRange
<1>2. r \in RangeType /\ r.peer = p /\ r.block = b /\ p \in Peer /\ b \in BlockType
  BY <1>1 DEF SyncRsType, RangeType, SyncingRange
<1>3. p \in e.owner /\ e.hash # NoHash
  BY <1>1, <1>2 DEF EntryOK, Consistent, EmptyRs
<1>4. b \in Split(e.size)
  BY <1>1, <1>2, <1>3 DEF EntryOK, Consistent, Partition, InFlight
<1>5. [peer |-> p, uri |-> u, hash |-> e.hash, size |-> e.size] \in adv
  BY <1>1, <1>3 DEF EntryOK, Announced
<1>6. Served[p][u] = [size |-> e.size, hash |-> e.hash] /\ Served[p][u] \in Version
  BY <1>5 DEF SteadyInv
<1>7. e.size \in Nat /\ e.size > 0 /\ Served[p][u].size = e.size
  <2>1. e.size \in Size
    BY <1>1 DEF SyncRsType
  <2>2. Served[p][u] # NoFile /\ Served[p][u].size = e.size
    BY <1>6, NoFileAssumption
  <2> QED
    BY <1>2, <2>1, <2>2, SizeAssumption DEF Steady
<1>8. b.start \in Nat /\ b.end \in Nat /\ b.start < b.end /\ b.end <= e.size
  BY <1>4, <1>7, SplitBlock DEF BlockType
<1>9. Answers(Served[p][u], b)
  BY <1>6, <1>7, <1>8, NoFileAssumption DEF Answers
<1>10. Replied(Served[p][u], b) = b
  BY <1>2, <1>7, <1>8 DEF Replied, LesserOf, Block, BlockType
<1> QED
  BY <1>1, <1>2, <1>3, <1>4, <1>6, <1>8, <1>9, <1>10 DEF VersionOf

\* An element of a sequence is its head or an element of its tail.
LEMMA InTail ==
    ASSUME NEW S, NEW s \in Seq(S), s # <<>>, NEW i \in DOMAIN s, s[i] # Head(s)
    PROVE  \E j \in DOMAIN Tail(s) : Tail(s)[j] = s[i]
<1>1. Tail(s) \in Seq(S) /\ Len(Tail(s)) = Len(s) - 1 /\ Head(s) = s[1]
  BY HeadTailProperties
<1>2. i \in 1 .. Len(s) /\ i # 1 /\ Len(s) \in Nat
  BY <1>1, LenProperties
<1>3. i - 1 \in 1 .. Len(Tail(s)) /\ Tail(s)[i - 1] = s[i]
  BY <1>1, <1>2, HeadTailProperties
<1> QED
  BY <1>1, <1>3, LenProperties

\* Conversely, an element of the tail is an element of the sequence, one place on.
LEMMA TailPlace ==
    ASSUME NEW S, NEW s \in Seq(S), s # <<>>, NEW j \in DOMAIN Tail(s)
    PROVE  j \in Nat /\ j # 0 /\ j + 1 \in DOMAIN s /\ Tail(s)[j] = s[j + 1]
<1>1. Tail(s) \in Seq(S) /\ Len(Tail(s)) = Len(s) - 1
  BY HeadTailProperties
<1>2. j \in 1 .. Len(Tail(s)) /\ Len(s) \in Nat
  BY <1>1, LenProperties
<1>3. j + 1 \in 1 .. Len(s)
  BY <1>1, <1>2
<1> QED
  BY <1>1, <1>2, <1>3, HeadTailProperties, LenProperties

\* What Append does to the places.
LEMMA AppendPlace ==
    ASSUME NEW S, NEW s \in Seq(S), NEW x \in S
    PROVE  /\ Append(s, x) \in Seq(S) /\ Len(s) \in Nat
           /\ DOMAIN s = 1 .. Len(s) /\ DOMAIN Append(s, x) = 1 .. Len(s) + 1
           /\ \A i \in DOMAIN s : Append(s, x)[i] = s[i]
           /\ Append(s, x)[Len(s) + 1] = x
<1>1. Append(s, x) \in Seq(S) /\ Len(Append(s, x)) = Len(s) + 1
  BY AppendProperties
<1> QED
  BY <1>1, AppendProperties, LenProperties

\* A step that closes, drops or opens no range: a getter, an announcement, the
\* crash on an owner's index, or none of these.
QuietStep ==
    /\ UNCHANGED <<pending, disk>>
    /\ worker' = worker \/ (worker.pc # "send" /\ worker'.pc # "send")
    /\ \/ UNCHANGED <<uriRs, alive>>
       \/ \E u \in Uri : Get(u)
       \/ \E t \in main.todo : main.pc = "refresh" /\ RegSyncRs(main.peer, t.uri, t.rs.hash, t.rs.size)
       \/ PickOutOfRange /\ Crash

\* The steps of the engine that are left when sessions and files do not change.
LEMMA SteadyCases ==
    ASSUME Steady, EngineInv, SteadyInv, [EngineNext]_engineVars
    PROVE  \/ QuietStep \/ PickPeer \/ SendRsReq
           \/ \E p \in Peer : HandleReplyResource(p, "out") \/ NoReply(p, "out")
<1> USE DEF EngineInv, EngineTypes
<1>0. IdleWorker.pc = "idle"
  BY IdleWorkerOK
<1>1. CASE CopyRs \/ ReadOwnerSize \/ ReadBlockSize \/ ReadSyncingSize
  <2>1. worker.uri \in Uri /\ worker.pc # "send" /\ Get(worker.uri) /\ UNCHANGED <<pending, disk>>
    BY <1>1 DEF CopyRs, ReadOwnerSize, ReadBlockSize, ReadSyncingSize, WorkerOK
  <2>2. worker'.pc # "send"
    BY <1>0, <1>1 DEF CopyRs, ReadOwnerSize, ReadBlockSize, ReadSyncingSize, WorkerOK, WorkerType
  <2> QED
    BY <2>1, <2>2 DEF QuietStep
<1>2. CASE PickOutOfRange
  BY <1>0, <1>2 DEF PickOutOfRange, QuietStep, WorkerOK
<1>3. CASE Take
  BY <1>3, IdleWorkerOK DEF Take, QuietStep, WorkerType
<1>4. ~SendFails /\ ~SendWithoutSession
  <2> SUFFICES ASSUME worker.pc = "send"
               PROVE  worker.idx[worker.peer][2] /\ worker.idx[worker.peer] # NoSession
    BY DEF SendFails, SendWithoutSession
  <2>1. worker.peer \in Peer /\ worker.idx[worker.peer] = <<"out", TRUE>>
    BY DEF SteadyInv, WorkerOK
  <2>2. worker.idx[worker.peer][2] = TRUE
    BY <2>1
  <2>3. <<"out", TRUE>> # NoSession
    BY DEF NoSession
  <2> QED
    BY <2>1, <2>2, <2>3
<1>5. CASE Handler
  BY <1>5 DEF Handler, RefreshSyncingRs, RefreshDone, AddReqTask, AddReqDone, QuietStep
<1>6. ASSUME NEW p \in Peer,
             HandleReplyTableIndex(p) \/ ConnectWithTcp(p) \/ TcpAccept(p)
               \/ \E u \in Uri, v \in Version \cup {NoFile} : PeerChanges(p, u, v)
      PROVE  QuietStep
  BY <1>6 DEF HandleReplyTableIndex, ConnectWithTcp, TcpAccept, PeerChanges, QuietStep
<1>7. ASSUME NEW p \in Peer, NEW d \in Direction, HandleReplyResource(p, d) \/ NoReply(p, d)
      PROVE  HandleReplyResource(p, "out") \/ NoReply(p, "out")
  <2>1. pending[<<p, d>>] # <<>>
    BY <1>7 DEF HandleReplyResource, NoReply
  <2>2. d = "out"
    BY <2>1 DEF SteadyInv, Direction
  <2> QED
    BY <1>7, <2>2
<1>8. ASSUME NEW p \in Peer, NEW d \in Direction PROVE ~EventCb(p, d)
  BY DEF EventCb, Steady, SteadyInv
<1>9. CASE UNCHANGED engineVars
  BY <1>9 DEF engineVars, QuietStep
<1> QED
  BY <1>1, <1>2, <1>3, <1>4, <1>5, <1>6, <1>7, <1>8, <1>9 DEF EngineNext, Worker, Direction

\* The answer to a range closes it, unless it ends the process: the entry is
\* erased or goes on without the range.
LEMMA RangeClosed ==
    ASSUME TableInv, NEW u \in Uri, NEW p, NEW b, HasRange(u, p, b),
           SyncingRangeDoneAndValid(p, u, b)
    PROVE  \/ ~uriRs[u].alloc /\ uriRs' = uriRs /\ alive' = FALSE
           \/ IsLast(uriRs[u], p, b) /\ Store(u, Absent) /\ UNCHANGED alive
           \/ ~IsLast(uriRs[u], p, b) /\ Store(u, Finish(uriRs[u], p, b)) /\ UNCHANGED alive
BY DEF HasRange, SyncingRangeDoneAndValid, At, Crash, ReverseLoopCrashes, RangeDone, Erase

\* A reply or its absence takes the head off a session and nothing else.
LEMMA WaitsAfterTail ==
    ASSUME EngineInv, NEW p \in Peer, pending[<<p, "out">>] # <<>>,
           pending' = [pending EXCEPT ![<<p, "out">>] = Tail(@)],
           NEW q \in Peer, NEW u, NEW b, Waits(q, u, b),
           q = p => Head(pending[<<p, "out">>]) # [uri |-> u, block |-> b]
    PROVE  Waits(q, u, b)'
<1>0. /\ pending[<<p, "out">>] \in Seq(RequestType)
      /\ pending'[<<p, "out">>] = Tail(pending[<<p, "out">>])
      /\ q # p => pending'[<<q, "out">>] = pending[<<q, "out">>]
  BY DEF EngineInv, EngineTypes, Session
<1>1. CASE q # p
  BY <1>0, <1>1 DEF Waits
<1>2. CASE q = p
  <2> PICK i \in DOMAIN pending[<<p, "out">>] :
          pending[<<p, "out">>][i] = [uri |-> u, block |-> b]
    BY <1>2 DEF Waits
  <2>1. \E j \in DOMAIN Tail(pending[<<p, "out">>]) :
           Tail(pending[<<p, "out">>])[j] = [uri |-> u, block |-> b]
    BY <1>0, <1>2, InTail
  <2> QED
    BY <1>0, <1>2, <2>1 DEF Waits
<1> QED
  BY <1>1, <1>2

\* The worker's request is appended to the session of its peer.
LEMMA SendAppends ==
    ASSUME EngineInv, SteadyInv, SendRsReq
    PROVE  /\ worker.peer \in Peer /\ worker.uri \in Uri /\ worker.block \in BlockType
           /\ Request \in RequestType
           /\ pending' = [pending EXCEPT ![<<worker.peer, "out">>] = Append(@, Request)]
           /\ worker' = IdleWorker /\ UNCHANGED <<uriRs, alive, adv, disk>>
<1>1. worker.peer \in Peer /\ worker.uri \in Uri /\ worker.block \in BlockType
  BY DEF EngineInv, EngineTypes, WorkerOK, WorkerType, SendRsReq
<1>2. worker.idx[worker.peer] = <<"out", TRUE>>
  BY <1>1 DEF SendRsReq, SteadyInv
<1> QED
  BY <1>1, <1>2 DEF SendRsReq, RequestSent, Request, RequestType

\* A range that is registered is about to be sent.
LEMMA PickIsSent ==
    ASSUME Steady, EngineInv, SteadyInv, PickPeer
    PROVE  \/ /\ worker' = IdleWorker /\ UNCHANGED <<alive, adv, pending, disk>>
              /\ \A u \in Uri : NoNewRange(uriRs[u], uriRs'[u])
              /\ \E e \in At(worker.uri) : Store(worker.uri, e)
           \/ \E p \in Peer, b \in BlockType :
                 /\ worker' = [worker EXCEPT !.pc = "send", !.peer = p, !.block = b]
                 /\ uriRs[worker.uri] # Absent /\ b \in uriRs[worker.uri].block
                 /\ p \in uriRs[worker.uri].owner
                 /\ Store(worker.uri,
                          [uriRs[worker.uri] EXCEPT !.block = @ \ {b},
                                                    !.syncing = @ \cup {SyncingRange(p, b)},
                                                    !.alloc = TRUE])
                 /\ UNCHANGED <<alive, adv, pending, disk>>
<1> DEFINE w == worker.uri
<1>0. w \in Uri /\ worker.owner \subseteq Peer
  BY DEF PickPeer, EngineInv, EngineTypes, WorkerOK, WorkerType
<1> PICK p \in worker.owner, b \in Blocks :
        /\ RegReqSyncRsAuto(p, worker.uri, b)
        /\ worker' = IF b.end = 0 THEN IdleWorker
                     ELSE [worker EXCEPT !.pc = "send", !.peer = p, !.block = b]
  BY DEF PickPeer
<1>1. UNCHANGED <<alive, adv, pending, disk>> /\ p \in Peer /\ b \in BlockType
  BY <1>0, BlocksType DEF PickPeer, RegReqSyncRsAuto
<1>2. CASE NothingToAssign(p, w, b)
  <2>1. worker' = IdleWorker
    BY <1>2 DEF NothingToAssign, NoBlock, Block
  <2> PICK e \in At(w) : Store(w, e)
    BY <1>2 DEF NothingToAssign
  <2>2. \A u \in Uri : NoNewRange(uriRs[u], uriRs'[u])
    BY <1>0, AtNoNewRange, StoreNoNewRange DEF EngineInv
  <2> QED
    BY <1>1, <2>1, <2>2
<1>3. CASE Assign(p, w, b)
  <2>1. /\ uriRs[w] # Absent /\ b \in uriRs[w].block /\ p \in uriRs[w].owner
        /\ Store(w, [uriRs[w] EXCEPT !.block = @ \ {b},
                                     !.syncing = @ \cup {SyncingRange(p, b)}, !.alloc = TRUE])
    <3> PICK e \in At(w) :
            /\ p \in e.owner /\ b \in e.block
            /\ Store(w, [e EXCEPT !.block = @ \ {b}, !.syncing = @ \cup {SyncingRange(p, b)},
                                  !.alloc = TRUE])
      BY <1>3 DEF Assign
    <3>1. e = uriRs[w] /\ uriRs[w] # Absent
      BY DEF At, DefaultRs
    <3> QED
      BY <3>1
  <2>2. b.end # 0
    <3> DEFINE e == uriRs[w]
    <3>1. EntryOK(w, e, adv) /\ e \in SyncRsType /\ e.hash # NoHash /\ b \in Split(e.size)
      BY <1>0, <2>1 DEF EngineInv, TableInv, EntryOK, Consistent, EmptyRs, Partition
    <3>2. [peer |-> p, uri |-> w, hash |-> e.hash, size |-> e.size] \in adv
      BY <2>1, <3>1 DEF EntryOK, Announced
    <3>3. Served[p][w] = [size |-> e.size, hash |-> e.hash] /\ Served[p][w] # NoFile
      BY <3>2, NoFileAssumption DEF SteadyInv
    <3>4. e.size \in Nat /\ e.size > 0
      BY <1>0, <1>1, <3>1, <3>3, SizeAssumption DEF Steady, SyncRsType
    <3>5. b.start \in Nat /\ b.end \in Nat /\ b.start < b.end
      BY <3>1, <3>4, SplitBlock DEF BlockType
    <3> QED
      BY <3>5
  <2>3. worker' = [worker EXCEPT !.pc = "send", !.peer = p, !.block = b]
    BY <2>2
  <2> QED
    BY <1>1, <2>1, <2>3
<1> QED
  BY <1>2, <1>3 DEF RegReqSyncRsAuto

\* Requests follow the ranges through every step.
LEMMA RequestedStep ==
    ASSUME Steady, EngineInv, SteadyInv, RequestedInv, [EngineNext]_engineVars
    PROVE  RequestedInv'
<1> SUFFICES ASSUME alive', NEW u \in Uri, NEW q \in Peer, NEW b \in BlockType, HasRange(u, q, b)'
             PROVE  Waits(q, u, b)' \/ AboutToSend(q, u, b)'
  BY DEF RequestedInv
<1> DEFINE Done == Waits(q, u, b)' \/ AboutToSend(q, u, b)'
<1>0. alive
  BY EngineStepIsOpen DEF EngineInv, OpenNext, AnyCall, Killed, Crash, vars, Get, RegSyncRs,
     RegReqSyncRsAuto, UnregReqSyncRsByBlock, UnregAllReqSyncRsByPeer, SyncingRangeDoneAndValid
<1>1. ASSUME NoNewRange(uriRs[u], uriRs'[u])
      PROVE  HasRange(u, q, b) /\ (Waits(q, u, b) \/ AboutToSend(q, u, b))
  BY <1>0, <1>1 DEF NoNewRange, HasRange, RequestedInv
<1>2. ASSUME ~PickPeer PROVE HasRange(u, q, b) /\ (Waits(q, u, b) \/ AboutToSend(q, u, b))
  BY <1>1, <1>2, OnlyPickRegisters, QuietCallAddsNoRange DEF EngineInv
<1>3. CASE QuietStep /\ ~PickPeer
  BY <1>2, <1>3 DEF QuietStep, Waits, AboutToSend
<1>4. CASE PickPeer
  <2>0. worker.pc = "pick" /\ worker.uri \in Uri /\ worker \in WorkerType
    BY <1>4 DEF PickPeer, EngineInv, EngineTypes, WorkerOK
  <2>1. CASE UNCHANGED pending /\ NoNewRange(uriRs[u], uriRs'[u])
    BY <1>1, <2>0, <2>1 DEF Waits, AboutToSend
  <2>2. ASSUME NEW p \in Peer, NEW c \in BlockType,
               worker' = [worker EXCEPT !.pc = "send", !.peer = p, !.block = c],
               uriRs[worker.uri] # Absent,
               Store(worker.uri, [uriRs[worker.uri] EXCEPT !.block = @ \ {c},
                                     !.syncing = @ \cup {SyncingRange(p, c)}, !.alloc = TRUE]),
               UNCHANGED pending
        PROVE  Done
    <3>1. /\ u # worker.uri => uriRs'[u] = uriRs[u]
          /\ uriRs'[worker.uri].syncing = uriRs[worker.uri].syncing \cup {SyncingRange(p, c)}
      BY <2>0, <2>2 DEF Store, EngineInv, TableInv, TypeOK, SyncRsType
    <3>2. CASE HasRange(u, q, b)
      BY <1>0, <2>0, <2>2, <3>2 DEF RequestedInv, Waits, AboutToSend
    <3>3. CASE ~HasRange(u, q, b)
      <4>1. u = worker.uri /\ SyncingRange(q, b) = SyncingRange(p, c)
        BY <2>2, <3>1, <3>3 DEF HasRange
      <4>2. q = p /\ b = c
        BY <4>1 DEF SyncingRange
      <4> QED
        BY <2>0, <2>2, <4>1, <4>2 DEF AboutToSend, WorkerType
    <3> QED
      BY <3>2, <3>3
  <2> QED
    BY <1>4, <2>1, <2>2, PickIsSent
<1>5. CASE SendRsReq
  <2> DEFINE s == <<worker.peer, "out">>
  <2>0. ~PickPeer /\ HasRange(u, q, b)
    BY <1>2, <1>5 DEF SendRsReq, PickPeer
  <2>1. /\ worker.peer \in Peer /\ Request \in RequestType
        /\ pending' = [pending EXCEPT ![s] = Append(@, Request)]
        /\ s \in Session /\ pending[s] \in Seq(RequestType)
    BY <1>5, SendAppends DEF EngineInv, EngineTypes, Session
  <2>2. /\ pending'[s] = Append(pending[s], Request)
        /\ q # worker.peer => pending'[<<q, "out">>] = pending[<<q, "out">>]
    BY <2>1 DEF EngineInv, EngineTypes, Session
  <2>3. CASE Waits(q, u, b)
    BY <2>1, <2>2, <2>3, AppendPlace DEF Waits
  <2>4. CASE AboutToSend(q, u, b)
    <3>1. Request = [uri |-> u, block |-> b] /\ q = worker.peer
      BY <2>4 DEF AboutToSend, Request
    <3>2. Len(pending[s]) + 1 \in DOMAIN pending'[s] /\ pending'[s][Len(pending[s]) + 1] = Request
      BY <2>1, <2>2, AppendPlace, SMTT(30)
    <3> QED
      BY <3>1, <3>2 DEF Waits
  <2> QED
    BY <1>2, <2>0, <2>3, <2>4
<1>6. ASSUME NEW p \in Peer, HandleReplyResource(p, "out") \/ NoReply(p, "out")
      PROVE  Done
  <2>1. /\ pending[<<p, "out">>] # <<>> /\ worker' = worker
        /\ pending' = [pending EXCEPT ![<<p, "out">>] = Tail(@)]
    BY <1>6 DEF HandleReplyResource, NoReply
  <2>2. CASE PickPeer
    BY <1>4, <2>2
  <2>3. CASE ~PickPeer /\ AboutToSend(q, u, b)
    BY <2>1, <2>3 DEF AboutToSend
  <2>4. CASE ~PickPeer /\ Waits(q, u, b)
    <3>1. ASSUME q = p, Head(pending[<<p, "out">>]) = [uri |-> u, block |-> b] PROVE FALSE
      <4>0. HasRange(u, p, b) /\ srv = Served
        BY <1>2, <2>4, <3>1 DEF SteadyInv
      <4>1. /\ HasRange(u, p, b)
            /\ Answers(Served[p][u], b) /\ Replied(Served[p][u], b) = b
        BY <4>0, HolderServes
      <4>2. HandleReplyResource(p, "out")
        <5>1. Head(pending[<<p, "out">>]).uri = u /\ Head(pending[<<p, "out">>]).block = b
          BY <3>1
        <5>2. ~NoReply(p, "out")
          BY <4>0, <4>1, <5>1 DEF NoReply
        <5> QED
          BY <1>6, <5>2
      <4>3. SyncingRangeDoneAndValid(p, u, b)
        BY <3>1, <4>0, <4>1, <4>2 DEF HandleReplyResource, CtxPeer
      <4>4. \/ Store(u, Absent)
            \/ Store(u, Finish(uriRs[u], p, b))
        BY <4>1, <4>3, RangeClosed DEF EngineInv
      <4>5. uriRs[u] \in SyncRsType
        BY <4>1, HolderServes
      <4>6. uriRs'[u] = Absent \/ uriRs'[u].syncing = uriRs[u].syncing \ {SyncingRange(p, b)}
        BY <4>4, <4>5 DEF Store, Finish, SyncRsType, EngineInv, TableInv, TypeOK
      <4> QED
        BY <3>1, <4>6 DEF HasRange
    <3> QED
      BY <2>1, <2>4, <3>1, WaitsAfterTail
  <2> QED
    BY <1>2, <2>2, <2>3, <2>4
<1> QED
  BY <1>3, <1>4, <1>5, <1>6, SteadyCases

\* While sessions and peers' files do not change, nothing is marked as requested
\* that nobody will answer.
THEOREM RangesRequested == ASSUME Steady PROVE EngineSafety => []RangesAreRequested
<1>1. EngineInit => RequestedInv
  BY DEF EngineInit, Init, RequestedInv, HasRange
<1>2. EngineInv /\ SteadyInv /\ RequestedInv /\ [EngineNext]_engineVars => RequestedInv'
  BY RequestedStep
<1>3. EngineInv /\ RequestedInv => RangesAreRequested
  <2> SUFFICES ASSUME EngineInv, RequestedInv, alive, NEW u \in Uri, uriRs[u] # Absent,
                      NEW r \in uriRs[u].syncing
               PROVE  \/ \E d \in {"out", "in"} : \E i \in DOMAIN pending[<<r.peer, d>>] :
                            pending[<<r.peer, d>>][i] = [uri |-> u, block |-> r.block]
                      \/ worker.pc = "send" /\ worker.uri = u /\ worker.peer = r.peer
                            /\ worker.block = r.block
    BY DEF RangesAreRequested
  <2>1. uriRs[u] \in SyncRsType
    BY DEF EngineInv, TableInv, EntryOK, Consistent
  <2>2. r.peer \in Peer /\ r.block \in BlockType /\ r = SyncingRange(r.peer, r.block)
    BY <2>1 DEF SyncRsType, RangeType, SyncingRange
  <2> QED
    BY <2>2 DEF RequestedInv, HasRange, Waits, AboutToSend
<1> QED
  BY <1>1, <1>2, <1>3, EngineInvariant, SteadyInvariant, PTL DEF EngineSafety
-----------------------------------------------------------------------------
(***************************************************************************)
(* Every request answers a range, when the peers agree on the content.     *)
(* (When they do not, a bigger version replaces the entry while requests   *)
(* for the smaller one are under way.)                                     *)
(***************************************************************************)
Distinct(s) == \A i, j \in DOMAIN s : s[i] = s[j] => i = j

\* The requests under way, and the one about to be sent, are those of ranges of
\* the table, each once; an entry with a range owns storage for it.
TiedInv ==
    /\ \A p \in Peer, u \in Uri, b \in BlockType : Waits(p, u, b) => HasRange(u, p, b)
    /\ \A p \in Peer : Distinct(pending[<<p, "out">>])
    /\ worker.pc = "send" => /\ HasRange(worker.uri, worker.peer, worker.block)
                             /\ ~Waits(worker.peer, worker.uri, worker.block)
    /\ \A u \in Uri : uriRs[u] # Absent /\ uriRs[u].syncing # {} => uriRs[u].alloc

\* Compared with e, the entry f has the same ranges.
SameRanges(e, f) ==
    \/ (e = Absent \/ e.syncing = {}) /\ (f = Absent \/ f.syncing = {})
    \/ e # Absent /\ f # Absent /\ f.syncing = e.syncing /\ f.alloc = e.alloc

\* The tail of a sequence without duplicates does not hold its head again.
LEMMA DistinctTail ==
    ASSUME NEW S, NEW s \in Seq(S), s # <<>>, Distinct(s)
    PROVE  /\ Distinct(Tail(s))
           /\ \A j \in DOMAIN Tail(s) : Tail(s)[j] # Head(s) /\ \E i \in DOMAIN s : s[i] = Tail(s)[j]
<1>1. 1 \in DOMAIN s /\ Head(s) = s[1]
  BY LenProperties, EmptySeq
<1>2. ASSUME NEW j \in DOMAIN Tail(s)
      PROVE  j \in Nat /\ j # 0 /\ j + 1 \in DOMAIN s /\ Tail(s)[j] = s[j + 1]
  BY TailPlace
<1>3. ASSUME NEW j \in DOMAIN Tail(s) PROVE Tail(s)[j] # Head(s)
  <2>1. j \in Nat /\ j # 0 /\ j + 1 \in DOMAIN s /\ Tail(s)[j] = s[j + 1]
    BY <1>2
  <2>2. j + 1 # 1
    BY <2>1
  <2> QED
    BY <1>1, <2>1, <2>2 DEF Distinct
<1>4. ASSUME NEW j \in DOMAIN Tail(s), NEW k \in DOMAIN Tail(s), Tail(s)[j] = Tail(s)[k]
      PROVE  j = k
  <2>1. j \in Nat /\ k \in Nat /\ j + 1 = k + 1
    BY <1>2, <1>4 DEF Distinct
  <2> QED
    BY <2>1
<1> QED
  BY <1>2, <1>3, <1>4 DEF Distinct

\* A new element keeps a sequence without duplicates.
LEMMA DistinctAppend ==
    ASSUME NEW S, NEW s \in Seq(S), NEW x \in S, Distinct(s), \A i \in DOMAIN s : s[i] # x
    PROVE  Distinct(Append(s, x))
<1> DEFINE t == Append(s, x)
<1>1. /\ Len(s) \in Nat /\ DOMAIN s = 1 .. Len(s) /\ DOMAIN t = 1 .. Len(s) + 1
      /\ \A i \in DOMAIN s : t[i] = s[i]
      /\ t[Len(s) + 1] = x
  BY AppendPlace
<1>2. \A i \in DOMAIN t : i = Len(s) + 1 \/ i \in DOMAIN s
  BY <1>1
<1> HIDE DEF t
<1> QED
  BY <1>1, <1>2 DEF Distinct, t

\* What waits after the head was taken off waited before, and was not the head.
LEMMA WaitedBeforeTail ==
    ASSUME EngineInv, TiedInv, NEW p \in Peer, pending[<<p, "out">>] # <<>>,
           pending' = [pending EXCEPT ![<<p, "out">>] = Tail(@)]
    PROVE  /\ \A q \in Peer : Distinct(pending'[<<q, "out">>])
           /\ \A q \in Peer : \A u, b : Waits(q, u, b)' =>
                 /\ Waits(q, u, b)
                 /\ q = p => Head(pending[<<p, "out">>]) # [uri |-> u, block |-> b]
<1>0. /\ pending[<<p, "out">>] \in Seq(RequestType)
      /\ pending'[<<p, "out">>] = Tail(pending[<<p, "out">>])
      /\ \A q \in Peer : q # p => pending'[<<q, "out">>] = pending[<<q, "out">>]
  BY DEF EngineInv, EngineTypes, Session
<1>1. /\ Distinct(Tail(pending[<<p, "out">>]))
      /\ \A j \in DOMAIN Tail(pending[<<p, "out">>]) :
            /\ Tail(pending[<<p, "out">>])[j] # Head(pending[<<p, "out">>])
            /\ \E i \in DOMAIN pending[<<p, "out">>] :
                  pending[<<p, "out">>][i] = Tail(pending[<<p, "out">>])[j]
  BY <1>0, DistinctTail DEF TiedInv
<1>2. \A q \in Peer : Distinct(pending'[<<q, "out">>])
  BY <1>0, <1>1 DEF TiedInv
<1>3. ASSUME NEW q \in Peer, NEW u, NEW b, Waits(q, u, b)'
      PROVE  /\ Waits(q, u, b)
             /\ q = p => Head(pending[<<p, "out">>]) # [uri |-> u, block |-> b]
  <2> PICK j \in DOMAIN pending'[<<q, "out">>] :
          pending'[<<q, "out">>][j] = [uri |-> u, block |-> b]
    BY <1>3 DEF Waits
  <2>1. CASE q # p
    BY <1>0, <2>1 DEF Waits
  <2>2. CASE q = p
    BY <1>0, <1>1, <2>2 DEF Waits
  <2> QED
    BY <2>1, <2>2
<1> QED
  BY <1>2, <1>3

\* A quiet step leaves the ranges of every entry as they are.
LEMMA QuietKeepsRanges ==
    ASSUME Steady, OneContent, EngineInv, SteadyInv, QuietStep, NEW u \in Uri
    PROVE  SameRanges(uriRs[u], uriRs'[u])
<1>0. CASE uriRs'[u] = uriRs[u]
  BY <1>0 DEF SameRanges
<1>1. ASSUME NEW v \in Uri, Get(v) PROVE SameRanges(uriRs[u], uriRs'[u])
  <2> PICK e \in At(v) : Store(v, e)
    BY <1>1 DEF Get
  <2>1. uriRs'[v] = e /\ (u # v => uriRs'[u] = uriRs[u])
    BY DEF Store, EngineInv, TableInv, TypeOK
  <2> QED
    BY <1>0, <2>1 DEF At, DefaultRs, SameRanges
<1>2. ASSUME NEW t \in main.todo, main.pc = "refresh",
             RegSyncRs(main.peer, t.uri, t.rs.hash, t.rs.size)
      PROVE  SameRanges(uriRs[u], uriRs'[u])
  <2> DEFINE e == uriRs[t.uri]
  <2>1. t.uri \in Uri /\ t.rs \in Version /\ t.rs = Served[main.peer][t.uri]
    BY DEF EngineInv, EngineTypes, MainOK, MainType, SteadyInv
  <2>2. main.peer \in Peer
    BY <1>2 DEF EngineInv, EngineTypes, MainOK
  <2>3. u # t.uri => uriRs'[u] = uriRs[u]
    BY <1>2, <2>1
    DEF RegSyncRs, NewUri, BiggerRs, OtherRs, SameRs, Store, EngineInv, TableInv, TypeOK
  <2>4. ASSUME NEW f, Store(t.uri, f) PROVE uriRs'[t.uri] = f
    BY <2>1, <2>4 DEF Store, EngineInv, TableInv, TypeOK
  <2>5. CASE OtherRs(main.peer, t.uri, t.rs.hash, t.rs.size)
    BY <1>0, <2>5 DEF OtherRs
  <2>6. CASE SameRs(main.peer, t.uri, t.rs.hash, t.rs.size)
    <3>1. e \in SyncRsType /\ e # Absent
      BY <2>1, <2>6 DEF SameRs, EngineInv, TableInv, EntryOK, Consistent
    <3>2. uriRs'[t.uri] = [e EXCEPT !.owner = @ \cup {main.peer}]
      BY <2>4, <2>6 DEF SameRs
    <3>3. /\ uriRs'[t.uri] \in SyncRsType
          /\ uriRs'[t.uri].syncing = e.syncing /\ uriRs'[t.uri].alloc = e.alloc
      BY <2>2, <3>1, <3>2 DEF SyncRsType
    <3> QED
      BY <1>0, <2>3, <3>1, <3>3, AbsentAssumption DEF SameRanges
  <2>7. ASSUME e = Absent \/ e.syncing = {}, NEW a,
               Store(t.uri, NewRs(main.peer, t.rs.hash, t.rs.size, a))
        PROVE  SameRanges(uriRs[u], uriRs'[u])
    BY <1>0, <2>3, <2>4, <2>7 DEF NewRs, SameRanges
  <2>8. CASE NewUri(main.peer, t.uri, t.rs.hash, t.rs.size)
    BY <2>7, <2>8 DEF NewUri
  <2>9. CASE BiggerRs(main.peer, t.uri, t.rs.hash, t.rs.size)
    <3>1. ASSUME NEW r \in e.syncing PROVE FALSE
      <4>1. e # Absent /\ e \in SyncRsType
        BY <2>1, <2>9 DEF BiggerRs, EngineInv, TableInv, EntryOK, Consistent
      <4>2. r = SyncingRange(r.peer, r.block)
        BY <3>1, <4>1 DEF SyncRsType, RangeType, SyncingRange
      <4>3. HasRange(t.uri, r.peer, r.block)
        BY <3>1, <4>1, <4>2 DEF HasRange
      <4>4. /\ r.peer \in Peer /\ Served[r.peer][t.uri] = VersionOf(e)
            /\ Served[r.peer][t.uri] \in Version
        BY <2>1, <4>3, HolderServes
      <4>5. t.rs = Served[r.peer][t.uri]
        <5>1. Served[main.peer][t.uri] # NoFile /\ Served[r.peer][t.uri] # NoFile
          BY <2>1, <4>4, NoFileAssumption
        <5>2. Served[main.peer][t.uri] = Served[r.peer][t.uri]
          BY <2>1, <2>2, <4>4, <5>1, Zenon DEF OneContent
        <5> QED
          BY <2>1, <5>2
      <4>6. t.rs.size = e.size /\ e.size \in Nat
        <5>1. t.rs = [size |-> e.size, hash |-> e.hash]
          BY <4>4, <4>5 DEF VersionOf
        <5>2. e.size \in Nat
          BY <4>1, SizeAssumption DEF SyncRsType
        <5> QED
          BY <5>1, <5>2
      <4> QED
        BY <2>9, <4>6 DEF BiggerRs
    <3> QED
      BY <2>7, <2>9, <3>1 DEF BiggerRs
  <2> QED
    BY <1>2, <2>5, <2>6, <2>8, <2>9 DEF RegSyncRs
<1> QED
  BY <1>0, <1>1, <1>2 DEF QuietStep, Crash

\* Entries with the same ranges everywhere keep the tie, if pending is unchanged.
LEMMA SameRangesKeepTied ==
    ASSUME TiedInv, \A u \in Uri : SameRanges(uriRs[u], uriRs'[u]), UNCHANGED pending,
           \/ worker' = worker /\ (worker.pc = "send" => worker.uri \in Uri)
           \/ worker'.pc # "send"
    PROVE  TiedInv'
<1>1. ASSUME NEW u \in Uri, NEW p, NEW b, HasRange(u, p, b) PROVE HasRange(u, p, b)'
  BY <1>1 DEF HasRange, SameRanges
<1>2. \A p, u, b : Waits(p, u, b)' = Waits(p, u, b)
  BY DEF Waits
<1>3. \A p \in Peer, u \in Uri, b \in BlockType : Waits(p, u, b)' => HasRange(u, p, b)'
  BY <1>1, <1>2 DEF TiedInv
<1>4. \A p \in Peer : Distinct(pending'[<<p, "out">>])
  BY DEF TiedInv
<1>5. ASSUME worker'.pc = "send"
      PROVE  /\ HasRange(worker.uri, worker.peer, worker.block)'
             /\ ~Waits(worker.peer, worker.uri, worker.block)'
  <2>1. /\ worker' = worker /\ worker.uri \in Uri
        /\ HasRange(worker.uri, worker.peer, worker.block)
        /\ ~Waits(worker.peer, worker.uri, worker.block)
    BY <1>5 DEF TiedInv
  <2> PICK w : w = worker
    OBVIOUS
  <2>2. HasRange(w.uri, w.peer, w.block)' /\ ~Waits(w.peer, w.uri, w.block)'
    BY <1>1, <1>2, <2>1
  <2> QED
    BY <2>1, <2>2
<1>6. \A u \in Uri : uriRs'[u] # Absent /\ uriRs'[u].syncing # {} => uriRs'[u].alloc
  BY DEF TiedInv, SameRanges
<1> QED
  BY <1>3, <1>4, <1>5, <1>6 DEF TiedInv

\* The registration of a range for a block that was waiting.
LEMMA PickKeepsTied ==
    ASSUME Steady, EngineInv, SteadyInv, TiedInv, PickPeer
    PROVE  TiedInv'
<1>0. worker \in WorkerType /\ worker.uri \in Uri
  BY DEF EngineInv, EngineTypes, WorkerOK, PickPeer
<1>1. CASE worker' = IdleWorker /\ UNCHANGED pending /\ \E e \in At(worker.uri) : Store(worker.uri, e)
  <2> PICK e \in At(worker.uri) : Store(worker.uri, e)
    BY <1>1
  <2>1. uriRs'[worker.uri] = e /\ \A u \in Uri : u # worker.uri => uriRs'[u] = uriRs[u]
    BY <1>0 DEF Store, EngineInv, TableInv, TypeOK
  <2>2. \A u \in Uri : SameRanges(uriRs[u], uriRs'[u])
    BY <2>1 DEF At, DefaultRs, SameRanges
  <2> QED
    BY <1>1, <2>2, IdleWorkerOK, SameRangesKeepTied
<1>2. ASSUME NEW p \in Peer, NEW b \in BlockType, NEW w, w = worker.uri,
             worker' = [worker EXCEPT !.pc = "send", !.peer = p, !.block = b],
             uriRs[w] # Absent, b \in uriRs[w].block, p \in uriRs[w].owner,
             Store(w, [uriRs[w] EXCEPT !.block = @ \ {b}, !.syncing = @ \cup {SyncingRange(p, b)},
                                       !.alloc = TRUE]),
             UNCHANGED pending
      PROVE  TiedInv'
  <2>0. /\ w \in Uri /\ uriRs[w] \in SyncRsType
        /\ worker'.pc = "send" /\ worker'.uri = w /\ worker'.peer = p /\ worker'.block = b
    BY <1>0, <1>2 DEF WorkerType, EngineInv, TableInv, EntryOK, Consistent
  <2>1. /\ uriRs'[w] # Absent /\ uriRs'[w].alloc = TRUE
        /\ uriRs'[w].syncing = uriRs[w].syncing \cup {SyncingRange(p, b)}
        /\ \A u \in Uri : u # w => uriRs'[u] = uriRs[u]
    <3>1. [uriRs[w] EXCEPT !.block = @ \ {b}, !.syncing = @ \cup {SyncingRange(p, b)},
                           !.alloc = TRUE] \in SyncRsType
      <4>1. Consistent(uriRs[w])
        BY <1>2, <2>0 DEF EngineInv, TableInv, EntryOK
      <4> QED
        BY <1>2, <4>1, AssignConsistent DEF Consistent
    <3>2. uriRs'[w] = [uriRs[w] EXCEPT !.block = @ \ {b}, !.syncing = @ \cup {SyncingRange(p, b)},
                           !.alloc = TRUE]
      BY <1>2, <2>0 DEF Store, EngineInv, TableInv, TypeOK
    <3> QED
      BY <1>2, <2>0, <3>1, <3>2, AbsentAssumption DEF Store, SyncRsType, EngineInv, TableInv, TypeOK
  <2>2. ASSUME NEW u \in Uri, NEW q, NEW c, HasRange(u, q, c) PROVE HasRange(u, q, c)'
    BY <1>2, <2>1, <2>2 DEF HasRange
  <2>3. ~HasRange(w, p, b)
    <3>1. Consistent(uriRs[w]) /\ uriRs[w].hash # NoHash
      BY <1>2, <2>0 DEF EngineInv, TableInv, EntryOK, Consistent, EmptyRs
    <3>2. b \notin InFlight(uriRs[w])
      BY <1>2, <3>1 DEF Consistent, Partition
    <3>3. SyncingRange(p, b).block = b
      BY DEF SyncingRange
    <3> QED
      BY <3>2, <3>3 DEF InFlight, HasRange
  <2>4. ~Waits(p, w, b) /\ HasRange(w, p, b)'
    BY <1>2, <2>0, <2>1, <2>3 DEF TiedInv, HasRange
  <2>5. \A q, u, c : Waits(q, u, c)' = Waits(q, u, c)
    BY <1>2 DEF Waits
  <2>6. \A q \in Peer, u \in Uri, c \in BlockType : Waits(q, u, c)' => HasRange(u, q, c)'
    BY <2>2, <2>5 DEF TiedInv
  <2>7. \A q \in Peer : Distinct(pending'[<<q, "out">>])
    BY <1>2 DEF TiedInv
  <2>8. /\ HasRange(worker.uri, worker.peer, worker.block)'
        /\ ~Waits(worker.peer, worker.uri, worker.block)'
    BY <2>0, <2>4, <2>5
  <2>9. \A u \in Uri : uriRs'[u] # Absent /\ uriRs'[u].syncing # {} => uriRs'[u].alloc
    BY <2>0, <2>1 DEF TiedInv
  <2> QED
    BY <2>6, <2>7, <2>8, <2>9 DEF TiedInv
<1> QED
  BY <1>1, <1>2, PickIsSent

\* The request is sent: it waits now, and nothing else does that did not.
LEMMA SendKeepsTied ==
    ASSUME EngineInv, SteadyInv, TiedInv, SendRsReq
    PROVE  TiedInv'
<1> PICK w, p, b, s : w = worker.uri /\ p = worker.peer /\ b = worker.block /\ s = <<p, "out">>
  OBVIOUS
<1>1. /\ w \in Uri /\ p \in Peer /\ b \in BlockType /\ s \in Session
      /\ Request = [uri |-> w, block |-> b] /\ Request \in RequestType
      /\ pending' = [pending EXCEPT ![s] = Append(@, [uri |-> w, block |-> b])]
      /\ worker' = IdleWorker /\ uriRs' = uriRs
      /\ HasRange(w, p, b) /\ ~Waits(p, w, b)
  BY SendAppends DEF Request, Session, SendRsReq, TiedInv
<1>2. /\ pending[s] \in Seq(RequestType)
      /\ pending'[s] = Append(pending[s], [uri |-> w, block |-> b])
      /\ \A q \in Peer : q # p => pending'[<<q, "out">>] = pending[<<q, "out">>]
  BY <1>1 DEF EngineInv, EngineTypes, Session
<1>3. ASSUME NEW q \in Peer PROVE Distinct(pending'[<<q, "out">>])
  <2>1. Distinct(pending[<<q, "out">>])
    BY DEF TiedInv
  <2>2. CASE q = p
    <3>1. \A i \in DOMAIN pending[s] : pending[s][i] # [uri |-> w, block |-> b]
      BY <1>1 DEF Waits
    <3> QED
      BY <1>1, <1>2, <2>1, <2>2, <3>1, DistinctAppend
  <2> QED
    BY <1>2, <2>1, <2>2
<1>4. ASSUME NEW q \in Peer, NEW u \in Uri, NEW c \in BlockType, Waits(q, u, c)'
      PROVE  HasRange(u, q, c)'
  <2> PICK j \in DOMAIN pending'[<<q, "out">>] :
          pending'[<<q, "out">>][j] = [uri |-> u, block |-> c]
    BY <1>4 DEF Waits
  <2>1. CASE Waits(q, u, c)
    BY <1>1, <2>1 DEF TiedInv, HasRange
  <2>2. CASE ~Waits(q, u, c)
    <3>1. q = p
      BY <1>2, <2>2 DEF Waits
    <3>2. j = Len(pending[s]) + 1 /\ pending'[s][j] = [uri |-> w, block |-> b]
      <4>1. /\ Len(pending[s]) \in Nat /\ DOMAIN pending[s] = 1 .. Len(pending[s])
            /\ DOMAIN pending'[s] = 1 .. Len(pending[s]) + 1
            /\ \A i \in DOMAIN pending[s] : pending'[s][i] = pending[s][i]
            /\ pending'[s][Len(pending[s]) + 1] = [uri |-> w, block |-> b]
        <5>1. [uri |-> w, block |-> b] \in RequestType
          BY <1>1
        <5>2. PICK x \in RequestType : x = [uri |-> w, block |-> b]
          BY <5>1
        <5>3. /\ Len(pending[s]) \in Nat /\ DOMAIN pending[s] = 1 .. Len(pending[s])
              /\ DOMAIN Append(pending[s], x) = 1 .. Len(pending[s]) + 1
              /\ \A i \in DOMAIN pending[s] : Append(pending[s], x)[i] = pending[s][i]
              /\ Append(pending[s], x)[Len(pending[s]) + 1] = x
          BY <1>2, AppendPlace
        <5>4. pending'[s] = Append(pending[s], x)
          BY <1>2, <5>2
        <5> QED
          BY <5>2, <5>3, <5>4
      <4>2. j \notin DOMAIN pending[s]
        BY <2>2, <3>1, <4>1 DEF Waits
      <4> QED
        BY <3>1, <4>1, <4>2
    <3>3. u = w /\ c = b
      BY <3>1, <3>2
    <3> QED
      BY <1>1, <3>1, <3>3 DEF HasRange
  <2> QED
    BY <2>1, <2>2
<1>5. \A u \in Uri : uriRs'[u] # Absent /\ uriRs'[u].syncing # {} => uriRs'[u].alloc
  BY <1>1 DEF TiedInv
<1> QED
  BY <1>1, <1>3, <1>4, <1>5, IdleWorkerOK DEF TiedInv

\* The request at the head of a session is that of a range whose entry is about
\* the version that the peer serves.
LEMMA HeadAnswersRange ==
    ASSUME Steady, EngineInv, SteadyInv, TiedInv, NEW p \in Peer, pending[<<p, "out">>] # <<>>
    PROVE  \E u \in Uri, b \in BlockType :
              /\ Head(pending[<<p, "out">>]) = [uri |-> u, block |-> b]
              /\ Waits(p, u, b) /\ HasRange(u, p, b) /\ uriRs[u].alloc
              /\ srv[p][u] = VersionOf(uriRs[u]) /\ srv[p][u] \in Version
              /\ Answers(srv[p][u], b) /\ Replied(srv[p][u], b) = b
<1> DEFINE s == pending[<<p, "out">>]
<1>1. s \in Seq(RequestType) /\ s # <<>>
  BY DEF EngineInv, EngineTypes, Session
<1>2. 1 \in DOMAIN s /\ Head(s) = s[1] /\ Head(s) \in RequestType
  BY <1>1, LenProperties, EmptySeq, HeadTailProperties
<1>3. PICK u \in Uri, b \in BlockType : Head(s) = [uri |-> u, block |-> b]
  BY <1>2 DEF RequestType
<1>4. Waits(p, u, b) /\ HasRange(u, p, b)
  BY <1>2, <1>3 DEF Waits, TiedInv
<1>5. uriRs[u].alloc
  BY <1>4 DEF HasRange, TiedInv
<1>6. /\ srv[p][u] = VersionOf(uriRs[u]) /\ srv[p][u] \in Version
      /\ Answers(srv[p][u], b) /\ Replied(srv[p][u], b) = b
  <2>1. srv = Served
    BY DEF SteadyInv
  <2>2. /\ Served[p][u] = VersionOf(uriRs[u]) /\ Served[p][u] \in Version
        /\ Answers(Served[p][u], b) /\ Replied(Served[p][u], b) = b
    BY <1>4, HolderServes
  <2> QED
    BY <2>1, <2>2
<1> QED
  BY <1>3, <1>4, <1>5, <1>6

\* So the reply closes that range and nothing else: no crash, no reply that is
\* not looked for.
LEMMA ReplyMeetsRange ==
    ASSUME Steady, EngineInv, SteadyInv, TiedInv, NEW p \in Peer, HandleReplyResource(p, "out")
    PROVE  \E u \in Uri, b \in BlockType :
              /\ pending[<<p, "out">>] # <<>>
              /\ Head(pending[<<p, "out">>]) = [uri |-> u, block |-> b]
              /\ pending' = [pending EXCEPT ![<<p, "out">>] = Tail(@)]
              /\ Waits(p, u, b) /\ HasRange(u, p, b)
              /\ srv[p][u] = VersionOf(uriRs[u]) /\ srv[p][u] \in Version
              /\ SaveLocal(u, b, srv[p][u])
              /\ \/ IsLast(uriRs[u], p, b) /\ Store(u, Absent)
                 \/ ~IsLast(uriRs[u], p, b) /\ Store(u, Finish(uriRs[u], p, b))
              /\ UNCHANGED <<alive, worker>>
<1>0. pending[<<p, "out">>] # <<>> /\ pending' = [pending EXCEPT ![<<p, "out">>] = Tail(@)]
  BY DEF HandleReplyResource
<1>1. PICK u \in Uri, b \in BlockType :
         /\ Head(pending[<<p, "out">>]) = [uri |-> u, block |-> b]
         /\ Waits(p, u, b) /\ HasRange(u, p, b) /\ uriRs[u].alloc
         /\ srv[p][u] = VersionOf(uriRs[u]) /\ srv[p][u] \in Version
         /\ Answers(srv[p][u], b) /\ Replied(srv[p][u], b) = b
  BY <1>0, HeadAnswersRange
<1>2. /\ SaveLocal(u, b, srv[p][u]) /\ SyncingRangeDoneAndValid(p, u, b) /\ worker' = worker
  BY <1>1 DEF HandleReplyResource, CtxPeer
<1>3. /\ \/ IsLast(uriRs[u], p, b) /\ Store(u, Absent)
         \/ ~IsLast(uriRs[u], p, b) /\ Store(u, Finish(uriRs[u], p, b))
      /\ UNCHANGED alive
  BY <1>1, <1>2, RangeClosed DEF EngineInv
<1> QED
  BY <1>0, <1>1, <1>2, <1>3

\* The ranges other than the one that is closed stay.
LEMMA OtherRangesStay ==
    ASSUME EngineInv, NEW u \in Uri, NEW p, NEW b, HasRange(u, p, b),
           \/ IsLast(uriRs[u], p, b) /\ Store(u, Absent)
           \/ Store(u, Finish(uriRs[u], p, b))
    PROVE  /\ \A v \in Uri : \A q, c :
                 HasRange(v, q, c) /\ ~(v = u /\ q = p /\ c = b) => HasRange(v, q, c)'
           /\ \A v \in Uri : uriRs'[v] # Absent =>
                 uriRs[v] # Absent /\ uriRs'[v].syncing \subseteq uriRs[v].syncing
                                   /\ uriRs'[v].alloc = uriRs[v].alloc
<1>1. uriRs[u] \in SyncRsType /\ uriRs[u] # Absent /\ Consistent(uriRs[u])
  BY DEF HasRange, EngineInv, TableInv, EntryOK, Consistent
<1>2. PICK f : /\ uriRs'[u] = f /\ \A v \in Uri : v # u => uriRs'[v] = uriRs[v]
               /\ \/ IsLast(uriRs[u], p, b) /\ f = Absent
                  \/ f = Finish(uriRs[u], p, b)
  BY DEF Store, EngineInv, TableInv, TypeOK
<1>3. ASSUME f = Finish(uriRs[u], p, b)
      PROVE  /\ f # Absent /\ f.syncing = uriRs[u].syncing \ {SyncingRange(p, b)}
             /\ f.alloc = uriRs[u].alloc
  <2>1. Consistent(f)
    BY <1>1, <1>3, FinishConsistent DEF HasRange
  <2>2. f \in SyncRsType
    BY <2>1 DEF Consistent
  <2> QED
    BY <1>1, <1>3, <2>2, AbsentAssumption DEF Finish, SyncRsType
<1>4. ASSUME NEW q, NEW c, SyncingRange(q, c) = SyncingRange(p, b) PROVE q = p /\ c = b
  BY <1>4 DEF SyncingRange
<1>5. ASSUME NEW v \in Uri, NEW q, NEW c, HasRange(v, q, c), ~(v = u /\ q = p /\ c = b)
      PROVE  HasRange(v, q, c)'
  <2>1. CASE v # u
    BY <1>2, <1>5, <2>1 DEF HasRange
  <2>2. CASE v = u
    <3>1. SyncingRange(q, c) # SyncingRange(p, b) /\ SyncingRange(q, c) \in uriRs[u].syncing
      BY <1>4, <1>5, <2>2 DEF HasRange
    <3>2. f = Finish(uriRs[u], p, b)
      BY <1>2, <3>1 DEF IsLast
    <3> QED
      BY <1>2, <1>3, <2>2, <3>1, <3>2 DEF HasRange
  <2> QED
    BY <2>1, <2>2
<1>6. ASSUME NEW v \in Uri, uriRs'[v] # Absent
      PROVE  uriRs[v] # Absent /\ uriRs'[v].syncing \subseteq uriRs[v].syncing
                               /\ uriRs'[v].alloc = uriRs[v].alloc
  BY <1>1, <1>2, <1>3, <1>6
<1> QED
  BY <1>5, <1>6

\* A reply leaves the other requests and their ranges as they are.
LEMMA ReplyKeepsTied ==
    ASSUME Steady, EngineInv, SteadyInv, TiedInv, NEW p \in Peer, HandleReplyResource(p, "out")
    PROVE  TiedInv'
<1>0. PICK u \in Uri, b \in BlockType :
         /\ pending[<<p, "out">>] # <<>>
         /\ Head(pending[<<p, "out">>]) = [uri |-> u, block |-> b]
         /\ pending' = [pending EXCEPT ![<<p, "out">>] = Tail(@)]
         /\ Waits(p, u, b) /\ HasRange(u, p, b)
         /\ \/ IsLast(uriRs[u], p, b) /\ Store(u, Absent)
            \/ ~IsLast(uriRs[u], p, b) /\ Store(u, Finish(uriRs[u], p, b))
         /\ worker' = worker
  BY ReplyMeetsRange
<1>1. /\ \A v \in Uri : \A q, c :
            HasRange(v, q, c) /\ ~(v = u /\ q = p /\ c = b) => HasRange(v, q, c)'
      /\ \A v \in Uri : uriRs'[v] # Absent =>
            uriRs[v] # Absent /\ uriRs'[v].syncing \subseteq uriRs[v].syncing
                              /\ uriRs'[v].alloc = uriRs[v].alloc
  BY <1>0, OtherRangesStay
<1>2. /\ \A q \in Peer : Distinct(pending'[<<q, "out">>])
      /\ \A q \in Peer : \A v, c : Waits(q, v, c)' =>
            /\ Waits(q, v, c)
            /\ q = p => Head(pending[<<p, "out">>]) # [uri |-> v, block |-> c]
  BY <1>0, WaitedBeforeTail
<1>3. ASSUME NEW q \in Peer, NEW v \in Uri, NEW c \in BlockType, Waits(q, v, c)'
      PROVE  HasRange(v, q, c)'
  <2>1. HasRange(v, q, c) /\ ~(v = u /\ q = p /\ c = b)
    BY <1>0, <1>2, <1>3 DEF TiedInv
  <2> QED
    BY <1>1, <2>1
<1>4. ASSUME worker'.pc = "send"
      PROVE  /\ HasRange(worker.uri, worker.peer, worker.block)'
             /\ ~Waits(worker.peer, worker.uri, worker.block)'
  <2> PICK w : w = worker
    OBVIOUS
  <2>1. /\ HasRange(w.uri, w.peer, w.block) /\ ~Waits(w.peer, w.uri, w.block)
        /\ w.uri \in Uri /\ w.peer \in Peer
    BY <1>0, <1>4 DEF TiedInv, EngineInv, EngineTypes, WorkerOK
  <2>2. ~(w.uri = u /\ w.peer = p /\ w.block = b)
    BY <1>0, <2>1
  <2>3. HasRange(w.uri, w.peer, w.block)' /\ ~Waits(w.peer, w.uri, w.block)'
    BY <1>1, <1>2, <2>1, <2>2
  <2> QED
    BY <1>0, <2>3
<1>5. \A v \in Uri : uriRs'[v] # Absent /\ uriRs'[v].syncing # {} => uriRs'[v].alloc
  BY <1>1 DEF TiedInv
<1> QED
  BY <1>2, <1>3, <1>4, <1>5 DEF TiedInv

\* The tie between requests and ranges is kept by every step.
LEMMA TiedStep ==
    ASSUME Steady, OneContent, EngineInv, SteadyInv, TiedInv, [EngineNext]_engineVars
    PROVE  TiedInv'
<1>1. CASE QuietStep
  <2>1. \A u \in Uri : SameRanges(uriRs[u], uriRs'[u])
    BY <1>1, QuietKeepsRanges
  <2>2. worker.pc = "send" => worker.uri \in Uri
    BY DEF EngineInv, EngineTypes, WorkerOK
  <2> QED
    BY <1>1, <2>1, <2>2, SameRangesKeepTied DEF QuietStep
<1>2. CASE PickPeer
  BY <1>2, PickKeepsTied
<1>3. CASE SendRsReq
  BY <1>3, SendKeepsTied
<1>4. ASSUME NEW p \in Peer, HandleReplyResource(p, "out") PROVE TiedInv'
  BY <1>4, ReplyKeepsTied
<1>5. ASSUME NEW p \in Peer PROVE ~NoReply(p, "out")
  <2> SUFFICES ASSUME pending[<<p, "out">>] # <<>>
               PROVE  Answers(srv[p][Head(pending[<<p, "out">>]).uri],
                              Head(pending[<<p, "out">>]).block)
    BY DEF NoReply
  <2>1. PICK u \in Uri, b \in BlockType :
           /\ Head(pending[<<p, "out">>]) = [uri |-> u, block |-> b]
           /\ Answers(srv[p][u], b)
    BY HeadAnswersRange
  <2> QED
    BY <2>1
<1> QED
  BY <1>1, <1>2, <1>3, <1>4, <1>5, SteadyCases

\* The requests under way are those of the table's ranges.
THEOREM TiedInvariant == ASSUME Steady, OneContent PROVE EngineSafety => []TiedInv
<1>1. EngineInit => TiedInv
  <2> SUFFICES ASSUME EngineInit PROVE TiedInv
    OBVIOUS
  <2>1. \A p \in Peer : pending[<<p, "out">>] = <<>> /\ DOMAIN pending[<<p, "out">>] = {}
    BY DEF EngineInit, Session
  <2>2. worker.pc # "send" /\ \A u \in Uri : uriRs[u] = Absent
    BY IdleWorkerOK DEF EngineInit, Init
  <2> QED
    BY <2>1, <2>2 DEF TiedInv, Waits, Distinct
<1>2. EngineInv /\ SteadyInv /\ TiedInv /\ [EngineNext]_engineVars => TiedInv'
  BY TiedStep
<1> QED
  BY <1>1, <1>2, EngineInvariant, SteadyInvariant, PTL DEF EngineSafety

\* While sessions and peers' files do not change and the peers agree on the
\* content, no block is under way twice.
THEOREM RequestedOnce == ASSUME Steady, OneContent PROVE EngineSafety => []NoBlockRequestedTwice
<1>1. EngineInv /\ SteadyInv /\ TiedInv => NoBlockRequestedTwice
  <2> SUFFICES ASSUME EngineInv, SteadyInv, TiedInv, NEW s \in Session, NEW t \in Session,
                      NEW i \in DOMAIN pending[s], NEW j \in DOMAIN pending[t],
                      pending[s][i] = pending[t][j]
               PROVE  s = t /\ i = j
    BY DEF NoBlockRequestedTwice
  <2>1. ASSUME NEW x \in Session, NEW k \in DOMAIN pending[x]
        PROVE  \E p \in Peer, u \in Uri, b \in BlockType :
                  /\ x = <<p, "out">> /\ pending[x][k] = [uri |-> u, block |-> b]
                  /\ HasRange(u, p, b)
    <3>1. pending[x] \in Seq(RequestType) /\ pending[x] # <<>>
      BY <2>1 DEF EngineInv, EngineTypes
    <3>2. PICK p \in Peer : x = <<p, "out">>
      BY <3>1 DEF Session, SteadyInv
    <3>3. pending[x][k] \in RequestType
      BY <2>1, <3>1, LenProperties, ElementOfSeq
    <3>4. PICK u \in Uri, b \in BlockType : pending[x][k] = [uri |-> u, block |-> b]
      BY <3>3 DEF RequestType
    <3>5. HasRange(u, p, b)
      BY <2>1, <3>2, <3>4 DEF TiedInv, Waits
    <3> QED
      BY <3>2, <3>4, <3>5
  <2>2. PICK p \in Peer, u \in Uri, b \in BlockType :
            s = <<p, "out">> /\ pending[s][i] = [uri |-> u, block |-> b] /\ HasRange(u, p, b)
    BY <2>1
  <2>3. PICK q \in Peer, v \in Uri, c \in BlockType :
            t = <<q, "out">> /\ pending[t][j] = [uri |-> v, block |-> c] /\ HasRange(v, q, c)
    BY <2>1
  <2>4. u = v /\ b = c
    BY <2>2, <2>3
  <2>5. p = q
    <3>1. Consistent(uriRs[u])
      BY <2>2 DEF HasRange, EngineInv, TableInv, EntryOK
    <3>2. /\ SyncingRange(p, b) \in uriRs[u].syncing /\ SyncingRange(q, b) \in uriRs[u].syncing
          /\ SyncingRange(p, b).block = b /\ SyncingRange(q, b).block = b
          /\ SyncingRange(p, b).peer = p /\ SyncingRange(q, b).peer = q
      BY <2>2, <2>3, <2>4 DEF HasRange, SyncingRange
    <3>3. SyncingRange(p, b) = SyncingRange(q, b)
      BY <3>1, <3>2 DEF Consistent
    <3> QED
      BY <3>2, <3>3
  <2>6. s = t /\ Distinct(pending[s])
    BY <2>2, <2>3, <2>5 DEF TiedInv
  <2> QED
    BY <2>6 DEF Distinct
<1> QED
  BY <1>1, EngineInvariant, SteadyInvariant, TiedInvariant, PTL

\* Under the same conditions, only the read of an owner past the end of the
\* worker's copy can end the process.
THEOREM CrashOnOwnerIndex ==
    ASSUME Steady, OneContent PROVE EngineSafety => CrashesOnlyOnOwnerIndex
<1> DEFINE A == (alive /\ ~alive') =>
                    worker.pc = "pick" /\ worker.owner_size > Cardinality(worker.owner)
<1>1. ASSUME EngineInv, SteadyInv, TiedInv, [EngineNext]_engineVars PROVE A
  <2>1. CASE alive' = alive
    BY <2>1
  <2>2. CASE QuietStep
    BY <2>2 DEF QuietStep, Get, RegSyncRs, PickOutOfRange
  <2>3. CASE PickPeer \/ SendRsReq
    BY <2>3 DEF PickPeer, RegReqSyncRsAuto, SendRsReq
  <2>4. ASSUME NEW p \in Peer, HandleReplyResource(p, "out") \/ NoReply(p, "out") PROVE A
    <3>1. CASE HandleReplyResource(p, "out")
      BY <1>1, <2>1, <3>1, ReplyMeetsRange
    <3> QED
      BY <2>1, <2>4, <3>1 DEF NoReply
  <2> QED
    BY <1>1, <2>2, <2>3, <2>4, SteadyCases
<1>2. EngineInv /\ SteadyInv /\ TiedInv /\ [EngineNext]_engineVars => [A]_engineVars
  BY <1>1
<1> QED
  BY <1>2, EngineInvariant, SteadyInvariant, TiedInvariant, PTL
  DEF EngineSafety, CrashesOnlyOnOwnerIndex
-----------------------------------------------------------------------------
(***************************************************************************)
(* What is counted as fetched is on disk, while the peers' files do not    *)
(* change and writes do not fail.  Sessions may break, be opened again and *)
(* be opened by the peers: replies come late, twice, or to an address that *)
(* holds no range, and are saved all the same.                             *)
(***************************************************************************)
\* The peers' files stay as they are.
FilesStay == MaxChanges = 0

\* What is announced, and what an entry of the table is about, some peer serves.
FilesInv ==
    /\ changes = 0 /\ srv = Served
    /\ \A t \in main.todo : t.rs = Served[main.peer][t.uri]
    /\ \A u \in Uri : IsReal(u) =>
          \E p \in Peer : Served[p][u] # NoFile /\ Served[p][u] = VersionOf(uriRs[u])

\* The fetched blocks of entry e are in file f.
FetchedIn(e, f) ==
    \A b \in e.done :
        /\ f # NoFile /\ b.end <= f.len
        /\ \A o \in b.start .. b.end - 1 : f.data[o] = VersionOf(e)

\* They are, for every entry, and no file is longer than what the peers serve.
DiskInv ==
    \A u \in Uri :
        /\ IsReal(u) => FetchedIn(uriRs[u], disk[u])
        /\ disk[u] # NoFile =>
              \A p \in Peer : Served[p][u] # NoFile => disk[u].len <= Served[p][u].size

\* The entry f is e with the same content and the same blocks fetched, or an
\* empty one that a getter inserted.
Kept(e, f) ==
    IF f = Absent THEN e = Absent
    ELSE \/ f.hash = NoHash /\ f.done = {}
         \/ e # Absent /\ f.size = e.size /\ f.hash = e.hash /\ f.done = e.done

\* The entry of u is a new one, about a resource of the table index in hand.
Renewed(u) ==
    /\ uriRs'[u] # Absent /\ uriRs'[u].done = {}
    /\ main.pc = "refresh"
    /\ \E t \in main.todo : t.uri = u /\ VersionOf(uriRs'[u]) = t.rs

NoReplyIsHandled == \A p \in Peer, d \in Direction : ~HandleReplyResource(p, d)

\* Storing under one uri keeps the entries of the others.
LEMMA StoreKept ==
    ASSUME TableInv, NEW v \in Uri, NEW f, Store(v, f), Kept(uriRs[v], f), NEW u \in Uri
    PROVE  Kept(uriRs[u], uriRs'[u])
<1>1. uriRs'[v] = f /\ (u # v => uriRs'[u] = uriRs[u])
  BY DEF Store, TableInv, TypeOK
<1> QED
  BY <1>1 DEF Kept

\* Reading an entry keeps it.
LEMMA AtKept ==
    ASSUME TableInv, NEW v \in Uri, NEW e \in At(v)
    PROVE  e # Absent /\ Consistent(e) /\ e \in SyncRsType /\ Kept(uriRs[v], e)
<1>1. Consistent(e) /\ e \in SyncRsType /\ e # Absent
  BY AtOK, AbsentAssumption DEF EntryOK, Consistent
<1>2. CASE uriRs[v] = Absent
  BY <1>1, <1>2 DEF At, DefaultRs, Kept
<1>3. CASE uriRs[v] # Absent
  BY <1>1, <1>3 DEF At, Kept
<1> QED
  BY <1>1, <1>2, <1>3

\* A change of the entry's other fields keeps it.
LEMMA ChangeKept ==
    ASSUME TableInv, NEW v \in Uri, NEW e \in At(v), NEW f,
           Consistent(f), f.size = e.size, f.hash = e.hash, f.done = e.done
    PROVE  Kept(uriRs[v], f)
<1>1. f # Absent
  BY AbsentAssumption DEF Consistent
<1> QED
  BY <1>1, AtKept DEF Kept

\* Every step but the handling of a reply keeps an entry or makes it new.
LEMMA OnlyReplyFetches ==
    ASSUME EngineInv, [EngineNext]_engineVars, NoReplyIsHandled, NEW u \in Uri
    PROVE  Kept(uriRs[u], uriRs'[u]) \/ Renewed(u)
<1> USE DEF EngineInv, EngineTypes
<1>0. CASE uriRs' = uriRs
  BY <1>0 DEF Kept, TableInv, EntryOK, Consistent
<1>1. ASSUME NEW v \in Uri, Get(v) PROVE Kept(uriRs[u], uriRs'[u])
  BY <1>1, AtKept, StoreKept DEF Get
<1>2. CASE CopyRs \/ ReadOwnerSize \/ ReadBlockSize \/ ReadSyncingSize \/ PickOutOfRange
  BY <1>0, <1>1, <1>2
  DEF CopyRs, ReadOwnerSize, ReadBlockSize, ReadSyncingSize, PickOutOfRange, Crash, WorkerOK
<1>3. CASE PickPeer
  <2>0. worker.uri \in Uri
    BY <1>3 DEF PickPeer, WorkerOK
  <2>1. PICK p \in worker.owner, b \in Blocks :
           Assign(p, worker.uri, b) \/ NothingToAssign(p, worker.uri, b)
    BY <1>3 DEF PickPeer, RegReqSyncRsAuto
  <2>2. CASE Assign(p, worker.uri, b)
    <3> PICK e \in At(worker.uri) :
            /\ p \in e.owner /\ b \in e.block
            /\ Store(worker.uri, [e EXCEPT !.block = @ \ {b},
                                     !.syncing = @ \cup {SyncingRange(p, b)}, !.alloc = TRUE])
      BY <2>2 DEF Assign
    <3> DEFINE f == [e EXCEPT !.block = @ \ {b}, !.syncing = @ \cup {SyncingRange(p, b)},
                              !.alloc = TRUE]
    <3>1. Consistent(e) /\ e \in SyncRsType
      BY <2>0, AtKept
    <3>2. Consistent(f)
      BY <3>1, AssignConsistent
    <3>3. f.size = e.size /\ f.hash = e.hash /\ f.done = e.done
      BY <3>1 DEF SyncRsType
    <3> HIDE DEF f
    <3>4. Kept(uriRs[worker.uri], f)
      BY <2>0, <3>2, <3>3, ChangeKept
    <3> QED
      BY <2>0, <3>4, StoreKept DEF f
  <2>3. CASE NothingToAssign(p, worker.uri, b)
    BY <2>0, <2>3, AtKept, StoreKept DEF NothingToAssign
  <2> QED
    BY <2>1, <2>2, <2>3
<1>4. CASE SendFails
  <2>1. CASE Crash
    BY <1>0, <2>1 DEF Crash
  <2>2. ASSUME NEW p, UnregAllReqSyncRsByPeer(p, worker.uri), uriRs' # uriRs
        PROVE  Kept(uriRs[u], uriRs'[u])
    <3>0. worker.uri \in Uri
      BY <1>4 DEF SendFails, WorkerOK
    <3> PICK e \in At(worker.uri) : Store(worker.uri, Release(e, p))
      BY <2>2 DEF UnregAllReqSyncRsByPeer, Crash
    <3>1. Consistent(e) /\ e \in SyncRsType
      BY <3>0, AtKept
    <3>2. Consistent(Release(e, p))
      BY <3>1, ReleaseConsistent
    <3>3. /\ Release(e, p).size = e.size /\ Release(e, p).hash = e.hash
          /\ Release(e, p).done = e.done
      BY <3>1 DEF Release, SyncRsType
    <3> QED
      BY <3>0, <3>2, <3>3, ChangeKept, StoreKept
  <2> QED
    BY <1>0, <1>4, <2>1, <2>2 DEF SendFails
<1>5. CASE RefreshSyncingRs
  <2> PICK t \in main.todo : RegSyncRs(main.peer, t.uri, t.rs.hash, t.rs.size)
    BY <1>5 DEF RefreshSyncingRs
  <2>0. main.pc = "refresh" /\ main.peer \in Peer /\ t.uri \in Uri /\ t.rs \in Version
    BY <1>5 DEF RefreshSyncingRs, MainOK, MainType
  <2>1. /\ t.rs.hash \in Hash /\ t.rs.size \in Size
        /\ t.rs = [size |-> t.rs.size, hash |-> t.rs.hash]
    BY <2>0, VersionAssumption
  <2>2. ASSUME NEW a \in BOOLEAN, Store(t.uri, NewRs(main.peer, t.rs.hash, t.rs.size, a))
        PROVE  uriRs'[u] = uriRs[u] \/ Renewed(u)
    <3> DEFINE f == NewRs(main.peer, t.rs.hash, t.rs.size, a)
    <3>1. f # Absent
      BY <2>0, <2>1, NewRsConsistent, AbsentAssumption DEF Consistent
    <3>2. f.done = {} /\ VersionOf(f) = t.rs
      BY <2>1 DEF NewRs, VersionOf
    <3> HIDE DEF f
    <3>3. uriRs'[t.uri] = f /\ (u # t.uri => uriRs'[u] = uriRs[u])
      BY <2>0, <2>2 DEF Store, TableInv, TypeOK, f
    <3> QED
      BY <2>0, <3>1, <3>2, <3>3 DEF Renewed
  <2>3. CASE NewUri(main.peer, t.uri, t.rs.hash, t.rs.size)
    BY <2>2, <2>3 DEF NewUri, Kept, TableInv, EntryOK, Consistent
  <2>4. CASE BiggerRs(main.peer, t.uri, t.rs.hash, t.rs.size)
    <3>1. uriRs[t.uri].alloc \in BOOLEAN
      BY <2>0, <2>4 DEF BiggerRs, TableInv, TypeOK, SyncRsType
    <3> QED
      BY <2>2, <2>4, <3>1 DEF BiggerRs, Kept, TableInv, EntryOK, Consistent
  <2>5. CASE SameRs(main.peer, t.uri, t.rs.hash, t.rs.size)
    <3> DEFINE e == uriRs[t.uri]
               f == [e EXCEPT !.owner = @ \cup {main.peer}]
    <3>1. e # Absent /\ Consistent(e) /\ e.hash # NoHash /\ e \in At(t.uri) /\ Store(t.uri, f)
      BY <2>0, <2>1, <2>5, NoHashAssumption DEF SameRs, TableInv, EntryOK, At
    <3>2. Consistent(f)
      BY <2>0, <3>1, AddOwnerConsistent
    <3>3. f.size = e.size /\ f.hash = e.hash /\ f.done = e.done
      BY <3>1 DEF Consistent, SyncRsType
    <3> HIDE DEF f
    <3> QED
      BY <2>0, <3>1, <3>2, <3>3, ChangeKept, StoreKept
  <2> QED
    BY <1>0, <2>3, <2>4, <2>5 DEF RegSyncRs, OtherRs
<1> QED
  BY <1>0, <1>2, <1>3, <1>4, <1>5
  DEF EngineNext, Worker, Handler, Take, SendRsReq, SendWithoutSession, RefreshDone, AddReqTask,
      AddReqDone, HandleReplyTableIndex, ConnectWithTcp, TcpAccept, NoReply, EventCb, PeerChanges,
      engineVars, Direction, Crash, NoReplyIsHandled

\* Every offset below a size is an offset of the longest file.
LEMMA OffsetBound == ASSUME NEW s \in Size, NEW o \in Nat, o < s PROVE o \in Offset
<1> DEFINE m == CHOOSE n \in Size : \A t \in Size : t <= n
<1>1. m \in Size /\ s <= m
  BY SizeBoundAssumption
<1>2. m \in Nat /\ s \in Nat
  BY <1>1, SizeAssumption
<1> HIDE DEF m
<1>3. o \in 0 .. m
  BY <1>1, <1>2
<1> QED
  BY <1>3 DEF Offset, m

\* What saving a block does to a file.
LEMMA SavedFacts ==
    ASSUME NEW f \in FileType \cup {NoFile}, NEW b \in BlockType, NEW v \in Version
    PROVE  /\ Saved(f, b, v) # NoFile /\ Saved(f, b, v).len \in Nat
           /\ b.end <= Saved(f, b, v).len
           /\ f # NoFile => f.len <= Saved(f, b, v).len
           /\ Saved(f, b, v).len = b.end \/ (f # NoFile /\ Saved(f, b, v).len = f.len)
           /\ \A o \in Offset : b.start <= o /\ o < b.end => Saved(f, b, v).data[o] = v
           /\ \A o \in Offset : ~(b.start <= o /\ o < b.end) /\ f # NoFile =>
                 Saved(f, b, v).data[o] = f.data[o]
<1> DEFINE old == IF f = NoFile THEN [len |-> 0, data |-> [o \in Offset |-> NoFile]] ELSE f
           new == [len  |-> IF old.len < b.end THEN b.end ELSE old.len,
                   data |-> [o \in Offset |-> IF b.start <= o /\ o < b.end THEN v ELSE old.data[o]]]
<1>1. old.len \in Nat /\ (f # NoFile => old = f) /\ (f = NoFile => old.len = 0)
  BY DEF FileType
<1>2. Saved(f, b, v) = new /\ Saved(f, b, v) # NoFile
  BY SavedType, NoFileAssumption DEF Saved
<1> HIDE DEF old
<1>3. b.end \in Nat /\ b.start \in Nat
  BY DEF BlockType
<1>4. /\ new.len \in Nat /\ b.end <= new.len /\ old.len <= new.len
      /\ new.len = b.end \/ (new.len = old.len /\ (f = NoFile => new.len = b.end))
  BY <1>1, <1>3
<1>5. /\ \A o \in Offset : b.start <= o /\ o < b.end => new.data[o] = v
      /\ \A o \in Offset : ~(b.start <= o /\ o < b.end) => new.data[o] = old.data[o]
  OBVIOUS
<1> HIDE DEF new
<1> QED
  BY <1>1, <1>2, <1>4, <1>5

\* A fetched block of an entry lies within its file.
LEMMA FetchedWithin ==
    ASSUME EngineInv, NEW u \in Uri, IsReal(u), uriRs[u].size > 0, NEW c \in uriRs[u].done
    PROVE  c \in BlockType /\ c.start < c.end /\ c.end <= uriRs[u].size
<1>1. uriRs[u] \in SyncRsType /\ Partition(uriRs[u])
  BY DEF EngineInv, TableInv, EntryOK, Consistent, IsReal
<1>2. c \in Split(uriRs[u].size) /\ uriRs[u].size \in Nat
  BY <1>1, SizeAssumption DEF Partition, SyncRsType
<1> QED
  BY <1>2, SplitBlock

\* What a reply does: it saves its block, and closes the range of the address
\* it came from if there is one.
LEMMA ReplyEntry ==
    ASSUME EngineInv, NEW p \in Peer, NEW d \in Direction, HandleReplyResource(p, d)
    PROVE  \E u \in Uri, b \in BlockType :
              /\ srv[p][u] \in Version /\ b.end <= srv[p][u].size /\ srv[p][u].size > 0
              /\ SaveLocal(u, b, srv[p][u])
              /\ \A w \in Uri : w # u => uriRs'[w] = uriRs[w]
              /\ \/ uriRs'[u] = uriRs[u]
                 \/ /\ uriRs[u] # Absent
                    /\ SyncingRange(CtxPeer(p, d), b) \in uriRs[u].syncing
                    /\ \/ IsLast(uriRs[u], CtxPeer(p, d), b) /\ uriRs'[u] = Absent
                       \/ uriRs'[u] = Finish(uriRs[u], CtxPeer(p, d), b)
<1> DEFINE req == Head(pending[<<p, d>>])
           u == req.uri
           v == srv[p][u]
           b == Replied(v, req.block)
           a == CtxPeer(p, d)
<1>1. /\ pending[<<p, d>>] # <<>> /\ Answers(v, req.block) /\ SaveLocal(u, b, v)
      /\ SyncingRangeDoneAndValid(a, u, b)
  BY DEF HandleReplyResource
<1>2. req \in RequestType /\ v \in Version \cup {NoFile}
  BY <1>1, HeadRequest DEF EngineInv
<1>3. u \in Uri /\ req.block \in BlockType /\ v \in Version
  BY <1>1, <1>2 DEF RequestType, Answers
<1>4. b \in BlockType
  BY <1>3, RepliedType
<1>5. b.end <= v.size /\ v.size > 0
  <2>1. v.size \in Nat /\ req.block.start \in Nat /\ req.block.end \in Nat
    BY <1>3, VersionAssumption, SizeAssumption DEF BlockType
  <2>2. req.block.start < v.size
    BY <1>1 DEF Answers
  <2> QED
    BY <2>1, <2>2 DEF Replied, Block, LesserOf
<1> HIDE DEF b, v, u, a
<1>6. CASE uriRs' = uriRs
  BY <1>1, <1>3, <1>4, <1>5, <1>6 DEF v
<1>7. CASE uriRs' # uriRs
  <2>1. PICK e \in At(u) : RangeDone(e, a, u, b)
    BY <1>1, <1>7 DEF SyncingRangeDoneAndValid, Crash
  <2>2. e = uriRs[u] /\ uriRs[u] # Absent /\ SyncingRange(a, b) \in e.syncing
    BY <2>1 DEF RangeDone, At, DefaultRs
  <2>3. ASSUME NEW f, Store(u, f) PROVE uriRs'[u] = f /\ \A w \in Uri : w # u => uriRs'[w] = uriRs[w]
    BY <1>3, <2>3 DEF Store, EngineInv, TableInv, TypeOK
  <2>4. /\ \A w \in Uri : w # u => uriRs'[w] = uriRs[w]
        /\ (IsLast(e, a, b) /\ uriRs'[u] = Absent) \/ uriRs'[u] = Finish(e, a, b)
    BY <2>1, <2>3 DEF RangeDone, Erase
  <2> QED
    BY <1>1, <1>3, <1>4, <1>5, <2>2, <2>4 DEF v, a
<1> QED
  BY <1>6, <1>7

\* The files stay, and so does what they say of the table.
LEMMA FilesStep ==
    ASSUME FilesStay, EngineInv, FilesInv, [EngineNext]_engineVars
    PROVE  FilesInv'
<1> USE DEF EngineInv, EngineTypes
<1>1. UNCHANGED <<changes, srv>>
  <2>1. \A p \in Peer, u \in Uri, v \in Version \cup {NoFile} : ~PeerChanges(p, u, v)
    BY DEF PeerChanges, FilesStay, FilesInv
  <2>2. CASE Worker
    BY <2>2 DEF Worker, Take, CopyRs, ReadOwnerSize, ReadBlockSize, ReadSyncingSize, PickPeer,
                PickOutOfRange, SendRsReq, SendFails, SendWithoutSession, envVars
  <2>3. CASE Handler
    BY <2>3 DEF Handler, RefreshSyncingRs, RefreshDone, AddReqTask, AddReqDone, envVars
  <2>4. ASSUME NEW p \in Peer, HandleReplyTableIndex(p) \/ ConnectWithTcp(p) \/ TcpAccept(p)
        PROVE  UNCHANGED <<changes, srv>>
    BY <2>4 DEF HandleReplyTableIndex, ConnectWithTcp, TcpAccept, envVars
  <2>5. ASSUME NEW p \in Peer, NEW d \in Direction,
               HandleReplyResource(p, d) \/ NoReply(p, d) \/ EventCb(p, d)
        PROVE  UNCHANGED <<changes, srv>>
    BY <2>5 DEF HandleReplyResource, NoReply, EventCb, envVars
  <2>6. CASE UNCHANGED engineVars
    BY <2>6 DEF engineVars, envVars
  <2> QED
    BY <2>1, <2>2, <2>3, <2>4, <2>5, <2>6 DEF EngineNext, Direction
<1>2. \A t \in main'.todo : t.rs = Served[main'.peer][t.uri]
  <2>1. CASE main' = main
    BY <2>1 DEF FilesInv
  <2>2. CASE main' = EventLoop \/ main' = [EventLoop EXCEPT !.pc = "addreq"]
    <3>1. main'.todo = {}
      BY <2>2 DEF EventLoop
    <3> QED
      BY <3>1
  <2>3. CASE RefreshSyncingRs
    <3>1. PICK t : main' = [main EXCEPT !.todo = @ \ {t}]
      BY <2>3 DEF RefreshSyncingRs
    <3>2. main'.peer = main.peer /\ main'.todo \subseteq main.todo
      BY <3>1 DEF MainOK, MainType
    <3> QED
      BY <3>2 DEF FilesInv
  <2>4. CASE AddReqTask
    <3>1. PICK u \in Uri : main' = [main EXCEPT !.seen = @ \cup {u}]
      BY <2>4 DEF AddReqTask
    <3>2. main'.peer = main.peer /\ main'.todo = main.todo
      BY <3>1 DEF MainOK, MainType
    <3> QED
      BY <3>2 DEF FilesInv
  <2>5. ASSUME NEW p \in Peer, HandleReplyTableIndex(p)
        PROVE  \A t \in main'.todo : t.rs = Served[main'.peer][t.uri]
    <3> PICK need \in [Uri -> BOOLEAN] :
            main' = [pc |-> "refresh", peer |-> p, seen |-> {},
                     todo |-> {[uri |-> u, rs |-> srv[p][u]] : u \in {x \in Uri : need[x]}}]
      BY <2>5 DEF HandleReplyTableIndex
    <3> QED
      BY DEF FilesInv
  <2> QED
    BY <2>1, <2>2, <2>3, <2>4, <2>5, ZenonT(60)
    DEF EngineNext, Worker, Handler, Take, CopyRs, ReadOwnerSize, ReadBlockSize, ReadSyncingSize,
        PickPeer, PickOutOfRange, SendRsReq, SendFails, SendWithoutSession, RefreshDone, AddReqDone,
        HandleReplyResource, ConnectWithTcp, TcpAccept, NoReply, EventCb, PeerChanges, engineVars
<1>3. ASSUME NEW u \in Uri, IsReal(u)'
      PROVE  \E p \in Peer : Served[p][u] # NoFile /\ Served[p][u] = VersionOf(uriRs'[u])
  <2>0. uriRs'[u] # Absent /\ uriRs'[u].hash # NoHash
    BY <1>3 DEF IsReal
  <2>1. CASE uriRs[u] # Absent /\ uriRs'[u].size = uriRs[u].size /\ uriRs'[u].hash = uriRs[u].hash
    <3>1. IsReal(u) /\ VersionOf(uriRs'[u]) = VersionOf(uriRs[u])
      BY <2>0, <2>1 DEF IsReal, VersionOf
    <3> QED
      BY <3>1 DEF FilesInv
  <2>2. CASE NoReplyIsHandled
    <3>1. CASE Kept(uriRs[u], uriRs'[u])
      BY <2>0, <2>1, <3>1 DEF Kept
    <3>2. CASE Renewed(u)
      <4>1. PICK t \in main.todo : t.uri = u /\ VersionOf(uriRs'[u]) = t.rs
        BY <3>2 DEF Renewed
      <4>2. main.peer \in Peer /\ t.rs \in Version
        BY <3>2 DEF Renewed, MainOK, MainType
      <4>3. t.rs = Served[main.peer][u]
        BY <4>1 DEF FilesInv
      <4> QED
        BY <4>1, <4>2, <4>3, NoFileAssumption
    <3> QED
      BY <2>2, <3>1, <3>2, OnlyReplyFetches
  <2>3. ASSUME NEW p \in Peer, NEW d \in Direction, HandleReplyResource(p, d)
        PROVE  \E q \in Peer : Served[q][u] # NoFile /\ Served[q][u] = VersionOf(uriRs'[u])
    <3>1. PICK w \in Uri, b \in BlockType :
             /\ w # u => uriRs'[u] = uriRs[u]
             /\ \/ uriRs'[w] = uriRs[w]
                \/ uriRs'[w] = Absent
                \/ uriRs[w] # Absent /\ uriRs'[w] = Finish(uriRs[w], CtxPeer(p, d), b)
      BY <2>3, ReplyEntry
    <3>2. CASE uriRs'[u] = uriRs[u]
      BY <2>0, <2>1, <3>2
    <3>3. CASE uriRs[u] # Absent /\ uriRs'[u] = Finish(uriRs[u], CtxPeer(p, d), b)
      <4>1. uriRs[u] \in SyncRsType
        BY <3>3 DEF TableInv, EntryOK, Consistent
      <4> QED
        BY <2>1, <3>3, <4>1 DEF Finish, SyncRsType
    <3> QED
      BY <2>0, <3>1, <3>2, <3>3
  <2> QED
    BY <2>2, <2>3 DEF NoReplyIsHandled
<1> QED
  BY <1>1, <1>2, <1>3 DEF FilesInv, IsReal

\* While the peers' files stay, FilesInv holds.
THEOREM FilesInvariant == ASSUME FilesStay PROVE EngineSafety => []FilesInv
<1>1. EngineInit => FilesInv
  BY DEF EngineInit, Init, FilesInv, EventLoop, IsReal
<1>2. EngineInv /\ FilesInv /\ [EngineNext]_engineVars => FilesInv'
  BY FilesStep
<1> QED
  BY <1>1, <1>2, EngineInvariant, PTL DEF EngineSafety

\* The block of any reply is on disk afterwards, as the content of the entry,
\* beside the blocks that were there.
LEMMA ReplySaves ==
    ASSUME OneContent, ~WritesMayFail, EngineInv, FilesInv, DiskInv,
           NEW p \in Peer, NEW d \in Direction, HandleReplyResource(p, d)
    PROVE  \E u \in Uri, b \in BlockType :
              /\ \A w \in Uri : w # u => uriRs'[w] = uriRs[w] /\ disk'[w] = disk[w]
              /\ \/ uriRs'[u] = uriRs[u]
                 \/ /\ uriRs[u] # Absent
                    /\ SyncingRange(CtxPeer(p, d), b) \in uriRs[u].syncing
                    /\ \/ IsLast(uriRs[u], CtxPeer(p, d), b) /\ uriRs'[u] = Absent
                       \/ uriRs'[u] = Finish(uriRs[u], CtxPeer(p, d), b)
              /\ disk'[u] # NoFile /\ disk'[u].len \in Nat
              /\ \A q \in Peer : Served[q][u] # NoFile => disk'[u].len <= Served[q][u].size
              /\ IsReal(u) =>
                    /\ Served[p][u] = VersionOf(uriRs[u]) /\ Served[p][u] # NoFile
                    /\ uriRs[u].size > 0
                    /\ \A c \in uriRs[u].done \cup {b} :
                          /\ c.end <= disk'[u].len
                          /\ \A o \in c.start .. c.end - 1 : disk'[u].data[o] = VersionOf(uriRs[u])
<1>1. PICK u \in Uri, b \in BlockType :
         /\ srv[p][u] \in Version /\ b.end <= srv[p][u].size /\ srv[p][u].size > 0
         /\ SaveLocal(u, b, srv[p][u])
         /\ \A w \in Uri : w # u => uriRs'[w] = uriRs[w]
         /\ \/ uriRs'[u] = uriRs[u]
            \/ /\ uriRs[u] # Absent
               /\ SyncingRange(CtxPeer(p, d), b) \in uriRs[u].syncing
               /\ \/ IsLast(uriRs[u], CtxPeer(p, d), b) /\ uriRs'[u] = Absent
                  \/ uriRs'[u] = Finish(uriRs[u], CtxPeer(p, d), b)
  BY ReplyEntry
<1> DEFINE e == uriRs[u]
           v == Served[p][u]
           g == Saved(disk[u], b, v)
<1>2. v \in Version /\ v # NoFile /\ srv[p][u] = v
  BY <1>1, NoFileAssumption DEF FilesInv
<1>3. v.size \in Size /\ v.size \in Nat /\ v.size > 0 /\ b.end <= v.size
  BY <1>1, <1>2, VersionAssumption, SizeAssumption
<1>4. disk[u] \in FileType \cup {NoFile} /\ disk' = [disk EXCEPT ![u] = g]
  BY <1>1, <1>2 DEF SaveLocal, EngineInv, EngineTypes
<1>5. disk'[u] = g /\ \A w \in Uri : w # u => disk'[w] = disk[w]
  BY <1>4 DEF EngineInv, EngineTypes
<1>6. /\ g # NoFile /\ g.len \in Nat /\ b.end <= g.len
      /\ disk[u] # NoFile => disk[u].len <= g.len
      /\ g.len = b.end \/ (disk[u] # NoFile /\ g.len = disk[u].len)
      /\ \A o \in Offset : b.start <= o /\ o < b.end => g.data[o] = v
      /\ \A o \in Offset : ~(b.start <= o /\ o < b.end) /\ disk[u] # NoFile =>
            g.data[o] = disk[u].data[o]
  BY <1>2, <1>4, SavedFacts
<1>7. ASSUME NEW q \in Peer, Served[q][u] # NoFile PROVE g.len <= Served[q][u].size
  <2>1. Served[q][u] = v
    BY <1>2, <1>7, Zenon DEF OneContent
  <2>2. disk[u] # NoFile => disk[u].len <= v.size
    BY <1>7, <2>1 DEF DiskInv
  <2> QED
    BY <1>3, <1>6, <2>1, <2>2
<1>8. ASSUME IsReal(u) PROVE v = VersionOf(e) /\ e.size = v.size /\ FetchedIn(e, disk[u])
  <2>1. PICK q \in Peer : Served[q][u] # NoFile /\ Served[q][u] = VersionOf(e)
    BY <1>8 DEF FilesInv
  <2>2. Served[q][u] = v
    BY <1>2, <2>1, Zenon DEF OneContent
  <2> QED
    BY <1>8, <2>1, <2>2 DEF VersionOf, DiskInv
<1>9. ASSUME IsReal(u), NEW c \in e.done \cup {b}
      PROVE  c.end <= g.len /\ \A o \in c.start .. c.end - 1 : g.data[o] = v
  <2>0. e.size \in Nat /\ e.size > 0 /\ e.size = v.size /\ v = VersionOf(e)
    BY <1>3, <1>8, <1>9
  <2>1. c \in BlockType /\ c.end <= v.size /\ c.start \in Nat /\ c.end \in Nat
    BY <1>1, <1>3, <1>9, <2>0, FetchedWithin DEF BlockType
  <2>2. ASSUME NEW o \in c.start .. c.end - 1 PROVE o \in Offset /\ o \in Nat
    BY <1>3, <2>1, OffsetBound
  <2>3. CASE c = b
    <3>1. \A o \in c.start .. c.end - 1 : b.start <= o /\ o < b.end
      BY <2>1, <2>3
    <3> QED
      BY <1>6, <2>2, <2>3, <3>1
  <2>4. CASE c \in e.done
    <3>1. disk[u] # NoFile /\ c.end <= disk[u].len /\ \A o \in c.start .. c.end - 1 : disk[u].data[o] = v
      BY <1>8, <1>9, <2>0, <2>4 DEF FetchedIn
    <3>2. disk[u].len \in Nat
      BY <1>4, <3>1 DEF FileType
    <3>3. c.end <= g.len
      BY <1>6, <2>1, <3>1, <3>2
    <3>4. ASSUME NEW o \in c.start .. c.end - 1 PROVE g.data[o] = v
      BY <1>6, <2>2, <3>1
    <3> QED
      BY <3>3, <3>4
  <2> QED
    BY <1>9, <2>3, <2>4
<1> HIDE DEF g, v
<1>10. ASSUME IsReal(u)
       PROVE  /\ Served[p][u] = VersionOf(e) /\ Served[p][u] # NoFile /\ e.size > 0
              /\ \A c \in e.done \cup {b} :
                    /\ c.end <= disk'[u].len
                    /\ \A o \in c.start .. c.end - 1 : disk'[u].data[o] = VersionOf(e)
  BY <1>2, <1>3, <1>5, <1>8, <1>9, <1>10 DEF v
<1> QED
  BY <1>1, <1>5, <1>6, <1>7, <1>10

\* Every step keeps what was fetched.
LEMMA DiskStep ==
    ASSUME OneContent, ~WritesMayFail, EngineInv, FilesInv, DiskInv, [EngineNext]_engineVars
    PROVE  DiskInv'
<1>1. CASE NoReplyIsHandled
  <2>1. disk' = disk
    BY <1>1
    DEF EngineNext, Worker, Handler, Take, CopyRs, ReadOwnerSize, ReadBlockSize, ReadSyncingSize,
        PickPeer, PickOutOfRange, SendRsReq, SendFails, SendWithoutSession, RefreshSyncingRs,
        RefreshDone, AddReqTask, AddReqDone, HandleReplyTableIndex, NoReply, ConnectWithTcp,
        TcpAccept, EventCb, PeerChanges, engineVars, Direction, NoReplyIsHandled
  <2> SUFFICES ASSUME NEW u \in Uri, IsReal(u)' PROVE FetchedIn(uriRs'[u], disk[u])
    BY <2>1 DEF DiskInv
  <2>2. CASE uriRs'[u].done = {}
    BY <2>2 DEF FetchedIn
  <2>3. CASE uriRs'[u].done # {}
    <3>1. /\ uriRs[u] # Absent /\ uriRs'[u].size = uriRs[u].size
          /\ uriRs'[u].hash = uriRs[u].hash /\ uriRs'[u].done = uriRs[u].done
      BY <1>1, <2>3, OnlyReplyFetches DEF Kept, Renewed, IsReal
    <3>2. IsReal(u) /\ VersionOf(uriRs'[u]) = VersionOf(uriRs[u])
      BY <3>1 DEF IsReal, VersionOf
    <3> QED
      BY <3>1, <3>2 DEF DiskInv, FetchedIn
  <2> QED
    BY <2>2, <2>3
<1>2. ASSUME NEW p \in Peer, NEW d \in Direction, HandleReplyResource(p, d) PROVE DiskInv'
  <2>1. PICK u \in Uri, b \in BlockType :
           /\ \A w \in Uri : w # u => uriRs'[w] = uriRs[w] /\ disk'[w] = disk[w]
           /\ \/ uriRs'[u] = uriRs[u]
              \/ /\ uriRs[u] # Absent
                 /\ \/ uriRs'[u] = Absent
                    \/ uriRs'[u] = Finish(uriRs[u], CtxPeer(p, d), b)
           /\ disk'[u] # NoFile
           /\ \A q \in Peer : Served[q][u] # NoFile => disk'[u].len <= Served[q][u].size
           /\ IsReal(u) =>
                 \A c \in uriRs[u].done \cup {b} :
                    /\ c.end <= disk'[u].len
                    /\ \A o \in c.start .. c.end - 1 : disk'[u].data[o] = VersionOf(uriRs[u])
    BY <1>2, ReplySaves
  <2>2. ASSUME NEW v \in Uri, v # u
        PROVE  /\ IsReal(v)' => FetchedIn(uriRs'[v], disk'[v])
               /\ disk'[v] # NoFile =>
                     \A q \in Peer : Served[q][v] # NoFile => disk'[v].len <= Served[q][v].size
    <3>1. uriRs'[v] = uriRs[v] /\ disk'[v] = disk[v]
      BY <2>1, <2>2
    <3> QED
      BY <3>1 DEF DiskInv, IsReal
  <2>3. ASSUME IsReal(u)' PROVE FetchedIn(uriRs'[u], disk'[u])
    <3>1. /\ uriRs[u] # Absent /\ uriRs'[u].done \subseteq uriRs[u].done \cup {b}
          /\ uriRs'[u].size = uriRs[u].size /\ uriRs'[u].hash = uriRs[u].hash
      <4>1. CASE uriRs'[u] = uriRs[u]
        BY <2>3, <4>1 DEF IsReal
      <4>2. CASE uriRs[u] # Absent /\ uriRs'[u] = Finish(uriRs[u], CtxPeer(p, d), b)
        <5>1. uriRs[u] \in SyncRsType
          BY <4>2 DEF EngineInv, TableInv, EntryOK, Consistent
        <5> QED
          BY <4>2, <5>1 DEF Finish, SyncRsType
      <4> QED
        BY <2>1, <2>3, <4>1, <4>2 DEF IsReal
    <3>2. IsReal(u) /\ VersionOf(uriRs'[u]) = VersionOf(uriRs[u])
      BY <2>3, <3>1 DEF IsReal, VersionOf
    <3> QED
      BY <2>1, <3>1, <3>2 DEF FetchedIn
  <2> QED
    BY <2>1, <2>2, <2>3 DEF DiskInv
<1> QED
  BY <1>1, <1>2 DEF NoReplyIsHandled

\* What the table counts as fetched stays on disk.
THEOREM DiskInvariant ==
    ASSUME FilesStay, OneContent, ~WritesMayFail PROVE EngineSafety => []DiskInv
<1>1. EngineInit => DiskInv
  BY DEF EngineInit, Init, DiskInv, IsReal
<1>2. EngineInv /\ FilesInv /\ DiskInv /\ [EngineNext]_engineVars => DiskInv'
  BY DiskStep
<1> QED
  BY <1>1, <1>2, EngineInvariant, FilesInvariant, PTL DEF EngineSafety

\* While the peers' files do not change, the peers agree on the content and
\* writes do not fail, the bytes of a fetched block are in the local file,
\* however sessions break and however late the replies come.
THEOREM FetchedSaved ==
    ASSUME FilesStay, OneContent, ~WritesMayFail PROVE EngineSafety => []FetchedIsSaved
<1>1. DiskInv => FetchedIsSaved
  BY DEF DiskInv, FetchedIn, FetchedIsSaved
<1> QED
  BY <1>1, DiskInvariant, PTL

\* Under the same conditions, an entry leaves the table when the local file has
\* all of its content, if no size overflows the constructor's counter: the hash
\* that the code computes but does not act on would be the right one.
THEOREM ErasedIsComplete ==
    ASSUME FilesStay, OneContent, ~WritesMayFail, \A s \in Size : CountFits(s)
    PROVE  EngineSafety => ErasedWhenHashValid
<1> DEFINE A == \A u \in Uri :
                   (IsReal(u) /\ uriRs'[u] = Absent) => Holds(disk'[u], VersionOf(uriRs[u]))
<1>1. ASSUME EngineInv, FilesInv, DiskInv, [EngineNext]_engineVars PROVE A
  <2> SUFFICES ASSUME NEW u \in Uri, IsReal(u), uriRs'[u] = Absent
               PROVE  Holds(disk'[u], VersionOf(uriRs[u]))
    OBVIOUS
  <2> DEFINE e == uriRs[u]
  <2>0. e # Absent /\ e \in SyncRsType /\ e.size \in Nat
    BY <1>1, SizeAssumption DEF IsReal, EngineInv, TableInv, EntryOK, Consistent, SyncRsType
  <2>1. \E b \in InFlight(e) : e.done \cup {b} = Split(e.size)
    <3>1. EntryStep(e, Absent)
      BY <1>1, <2>0, EngineStepIsOpen, OpenNextIsEntryStep DEF EngineInv
    <3> QED
      BY <3>1, AbsentAssumption DEF EntryStep, Continues
  <2>2. PICK p \in Peer, d \in Direction : HandleReplyResource(p, d)
    BY <1>1, <2>0, OnlyReplyFetches DEF Kept, Renewed, NoReplyIsHandled
  <2>3. PICK v \in Uri, b \in BlockType :
           /\ \A w \in Uri : w # v => uriRs'[w] = uriRs[w] /\ disk'[w] = disk[w]
           /\ \/ uriRs'[v] = uriRs[v]
              \/ /\ uriRs[v] # Absent
                 /\ SyncingRange(CtxPeer(p, d), b) \in uriRs[v].syncing
                 /\ \/ IsLast(uriRs[v], CtxPeer(p, d), b) /\ uriRs'[v] = Absent
                    \/ uriRs'[v] = Finish(uriRs[v], CtxPeer(p, d), b)
           /\ disk'[v] # NoFile /\ disk'[v].len \in Nat
           /\ \A q \in Peer : Served[q][v] # NoFile => disk'[v].len <= Served[q][v].size
           /\ IsReal(v) =>
                 /\ Served[p][v] = VersionOf(uriRs[v]) /\ Served[p][v] # NoFile
                 /\ uriRs[v].size > 0
                 /\ \A c \in uriRs[v].done \cup {b} :
                       /\ c.end <= disk'[v].len
                       /\ \A o \in c.start .. c.end - 1 : disk'[v].data[o] = VersionOf(uriRs[v])
    BY <1>1, <2>2, ReplySaves
  <2>4. u = v
    BY <2>0, <2>3
  <2>5. IsLast(e, CtxPeer(p, d), b)
    <3>1. ASSUME SyncingRange(CtxPeer(p, d), b) \in e.syncing PROVE Finish(e, CtxPeer(p, d), b) # Absent
      <4>1. Consistent(e)
        BY <1>1, <2>0 DEF EngineInv, TableInv, EntryOK
      <4> QED
        BY <3>1, <4>1, FinishConsistent, AbsentAssumption DEF Consistent
    <3> QED
      BY <2>0, <2>3, <2>4, <3>1
  <2>6. e.done \cup {b} = Split(e.size)
    <3>1. InFlight(e) = {b}
      BY <2>5 DEF IsLast, InFlight, SyncingRange
    <3> QED
      BY <2>1, <3>1
  <2>7. /\ Served[p][u] # NoFile /\ Served[p][u].size = e.size /\ e.size > 0
        /\ disk'[u] # NoFile /\ disk'[u].len \in Nat /\ disk'[u].len <= e.size
    BY <2>3, <2>4 DEF VersionOf
  <2>8. ASSUME NEW o \in 0 .. e.size - 1
        PROVE  disk'[u].data[o] = VersionOf(e) /\ o < disk'[u].len
    <3>1. o \in Nat /\ o < e.size
      BY <2>0
    <3>2. PICK c \in Split(e.size) : c.start <= o /\ o < c.end
      <4>1. CountFits(e.size)
        BY <2>0 DEF SyncRsType
      <4> QED
        BY <2>0, <3>1, <4>1, SplitCovers
    <3>3. c.start \in Nat /\ c.end \in Nat /\ o \in c.start .. c.end - 1
      BY <2>0, <3>1, <3>2, SplitType DEF BlockType
    <3>4. c \in e.done \cup {b}
      BY <2>6
    <3>5. disk'[u].data[o] = VersionOf(e) /\ c.end <= disk'[u].len
      BY <2>3, <2>4, <3>3, <3>4
    <3> QED
      BY <2>7, <3>1, <3>2, <3>3, <3>5
  <2>9. disk'[u].len = e.size
    <3>1. e.size - 1 \in 0 .. e.size - 1
      BY <2>0, <2>7
    <3>2. e.size - 1 < disk'[u].len
      BY <2>8, <3>1
    <3> QED
      BY <2>0, <2>7, <3>2
  <2>10. VersionOf(e).size = e.size
    BY DEF VersionOf
  <2> QED
    BY <2>7, <2>8, <2>9, <2>10 DEF Holds
<1>2. EngineInv /\ FilesInv /\ DiskInv /\ [EngineNext]_engineVars => [A]_engineVars
  BY <1>1
<1> QED
  BY <1>2, EngineInvariant, FilesInvariant, DiskInvariant, PTL DEF EngineSafety, ErasedWhenHashValid
=============================================================================
