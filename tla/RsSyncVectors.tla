---------------------------- MODULE RsSyncVectors ---------------------------
(***************************************************************************)
(* The sync table of RsSyncManager with its vectors as they are: block is  *)
(* a stack of waiting blocks, syncing and owner are searched from the end  *)
(* and an element is erased in place.  A sequence can hold an element      *)
(* twice and keeps its order, which the sets of RsSyncManager cannot show. *)
(* uriRs, alive and adv are the variables of RsSyncManager.                *)
(***************************************************************************)
EXTENDS SyncRs, SequencesExt

CONSTANTS Peer, Uri, Hash, NoHash, Size, Absent

ASSUME VectorSizesAssumption == Size \subseteq Nat

VARIABLES uriRs, alive, adv

vars == <<uriRs, alive, adv>>

SyncingRange(p, b) == [peer |-> p, block |-> b]

\* The constructor pushes the blocks in ascending order.
SplitSeq(s) ==
    IF s <= BLOCK_SIZE
    THEN <<Block(0, s)>>
    ELSE [k \in 1 .. Cardinality(Split(s)) |->
             Block((k - 1) * BLOCK_SIZE, LesserOf(s, k * BLOCK_SIZE))]

NewRs(p, h, s) ==
    [size |-> s, hash |-> h, owner |-> <<p>>, block |-> SplitSeq(s),
     syncing |-> <<>>, done |-> {}, alloc |-> FALSE]

DefaultRs(junk) ==
    [size |-> junk, hash |-> NoHash, owner |-> <<>>, block |-> <<>>,
     syncing |-> <<>>, done |-> {}, alloc |-> FALSE]

At(u) == IF uriRs[u] = Absent THEN {DefaultRs(junk) : junk \in Size} ELSE {uriRs[u]}

Store(u, e) == uriRs' = [uriRs EXCEPT ![u] = e]

Crash == alive' = FALSE /\ uriRs' = uriRs

Init ==
    /\ uriRs = [u \in Uri |-> Absent]
    /\ alive = TRUE
    /\ adv = {}

\* The index a reverse search for x in the vector v stops at, 0 if none.
LastIndexOf(v, x) == Max({0} \cup {i \in DOMAIN v : v[i] = x})
-----------------------------------------------------------------------------
PushOwner(e, p) ==
    IF \E i \in DOMAIN e.owner : e.owner[i] = p THEN e ELSE [e EXCEPT !.owner = Append(@, p)]

Update(e, p, h, s) ==
    IF e.size < s THEN [NewRs(p, h, s) EXCEPT !.alloc = e.alloc]
    ELSE IF e.size = s /\ e.hash = h THEN PushOwner(e, p)
    ELSE e

RegSyncRs(p, u, h, s) ==
    /\ alive
    /\ Store(u, IF uriRs[u] = Absent THEN NewRs(p, h, s) ELSE Update(uriRs[u], p, h, s))
    /\ adv' = adv \cup {[peer |-> p, uri |-> u, hash |-> h, size |-> s]}
    /\ UNCHANGED alive

\* The last waiting block moves to the end of syncing.
RegReqSyncRsAuto(p, u) ==
    /\ alive
    /\ \E e \in At(u) :
          Store(u, IF e.block # <<>> /\ \E i \in DOMAIN e.owner : e.owner[i] = p
                   THEN [e EXCEPT !.block = Front(@),
                                  !.syncing = Append(@, SyncingRange(p, Last(e.block))),
                                  !.alloc = TRUE]
                   ELSE e)
    /\ UNCHANGED <<alive, adv>>

\* The range at i is erased and its block b waits again, as the next to go.
Return(e, b, i) == [e EXCEPT !.block = Append(@, b), !.syncing = RemoveAt(@, i)]

UnregReqSyncRsByBlock(p, b, u) ==
    /\ alive
    /\ \E e \in At(u) :
          LET i == LastIndexOf(e.syncing, SyncingRange(p, b))
          IN \/ ~e.alloc /\ Crash
             \/ e.alloc /\ i = 0 /\ UNCHANGED <<uriRs, alive>>
             \/ /\ e.alloc /\ i # 0
                /\ Store(u, Return(e, b, i))
                /\ UNCHANGED alive
    /\ UNCHANGED adv

\* What is left of a vector when the elements outside the positions I are erased:
\* the one sequence of the others in their order.
Keep(v, I) ==
    {[k \in 1 .. Cardinality(I) |-> v[f[k]]] :
        f \in {g \in Bijection(1 .. Cardinality(I), I) :
                 \A j, k \in 1 .. Cardinality(I) : j < k => g[j] < g[k]}}

\* The blocks of the ranges that a reverse loop meets, last first.
BlocksBack(ranges) == [k \in DOMAIN ranges |-> Reverse(ranges)[k].block]

\* The entry when the ranges back are returned and kept and others remain.
Released(e, back, kept, others) ==
    [e EXCEPT !.block = @ \o BlocksBack(back), !.syncing = kept, !.owner = others]

\* Both reverse loops of unregAllReqSyncRsByPeer.
Release(e, p, u) ==
    LET Mine == {i \in DOMAIN e.syncing : e.syncing[i].peer = p}
    IN \E back \in Keep(e.syncing, Mine),
          kept \in Keep(e.syncing, DOMAIN e.syncing \ Mine),
          others \in Keep(e.owner, {i \in DOMAIN e.owner : e.owner[i] # p}) :
          Store(u, Released(e, back, kept, others))

UnregAllReqSyncRsByPeer(p, u) ==
    /\ alive
    /\ \E e \in At(u) :
          \/ ~e.alloc /\ Crash
          \/ e.alloc /\ Release(e, p, u) /\ UNCHANGED alive
    /\ UNCHANGED adv

\* Mutant: the range after the one that was found is erased.
FinishErasingLast(e, i) == [e EXCEPT !.syncing = Front(@), !.done = @ \cup {e.syncing[i].block}]

Finish(e, i) == [e EXCEPT !.syncing = RemoveAt(@, i), !.done = @ \cup {e.syncing[i].block}]

\* The check for completion comes after the erase of the range.
SyncingRangeDoneAndValid(p, u, b) ==
    /\ alive
    /\ \E e \in At(u) :
          LET i == LastIndexOf(e.syncing, SyncingRange(p, b))
          IN \/ ~e.alloc /\ Crash
             \/ e.alloc /\ i = 0 /\ UNCHANGED <<uriRs, alive>>
             \/ /\ e.alloc /\ i # 0
                /\ LET f == Finish(e, i)
                   IN Store(u, IF f.block = <<>> /\ f.syncing = <<>> THEN Absent ELSE f)
                /\ UNCHANGED alive
    /\ UNCHANGED adv

Get(u) ==
    /\ alive
    /\ \E e \in At(u) : Store(u, e)
    /\ UNCHANGED <<alive, adv>>
-----------------------------------------------------------------------------
\* The entry of RsSyncManager that an entry stands for.
AsSets(e) ==
    [size |-> e.size, hash |-> e.hash, owner |-> ToSet(e.owner), block |-> ToSet(e.block),
     syncing |-> ToSet(e.syncing), done |-> e.done, alloc |-> e.alloc]

Table == INSTANCE RsSyncManager WITH
    uriRs <- [u \in Uri |-> IF uriRs[u] = Absent THEN Absent ELSE AsSets(uriRs[u])]

\* The entries of the map, as they are and as sets, differ from "no entry".
RsType == [size : Size, hash : Hash \cup {NoHash}, owner : Seq(Peer),
           block : Seq(Table!Blocks), syncing : Seq([peer : Peer, block : Table!Blocks]),
           done : SUBSET Table!Blocks, alloc : BOOLEAN]

ASSUME VectorAbsentAssumption == Absent \notin RsType /\ Absent \notin Table!SyncRsType

Next ==
    \E u \in Uri :
        \/ Get(u)
        \/ \E p \in Peer :
              \/ \E h \in Hash, s \in Size : RegSyncRs(p, u, h, s)
              \/ RegReqSyncRsAuto(p, u)
              \/ \E b \in Table!Blocks :
                    UnregReqSyncRsByBlock(p, b, u) \/ SyncingRangeDoneAndValid(p, u, b)
              \/ UnregAllReqSyncRsByPeer(p, u)

Spec == Init /\ [][Next]_vars
-----------------------------------------------------------------------------
\* Every operation on the vectors is the operation on sets that RsSyncManager
\* specifies, so what is proved of the sets holds of the vectors.
ImplementsTable == Table!Spec
=============================================================================
