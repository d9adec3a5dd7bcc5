------------------------- MODULE RsSyncVectorsProofs ------------------------
(***************************************************************************)
(* Proof that RsSyncVectors implements RsSyncManager, for every set of     *)
(* peers, uris, hashes and sizes.  The invariant it needs is that no       *)
(* vector holds a block twice: an erase in place removes one element, the  *)
(* operation on sets removes the value.                                    *)
(***************************************************************************)
EXTENDS RsSyncVectors, SplitProofs, FiniteSetTheorems

\* No element of the vector occurs twice.
Once(v) == \A i, j \in DOMAIN v : v[i] = v[j] => i = j

\* The vector w has elements of v at positions in I, each position once.
Selects(w, v, I) ==
    \E f \in [DOMAIN w -> I] :
        /\ \A k \in DOMAIN w : w[k] = v[f[k]]
        /\ \A j, k \in DOMAIN w : f[j] = f[k] => j = k

\* A block is at one place of the entry's two vectors of blocks.
RsOK(e) ==
    /\ e \in RsType
    /\ Once(e.block)
    /\ \A i, j \in DOMAIN e.syncing : e.syncing[i].block = e.syncing[j].block => i = j
    /\ \A i \in DOMAIN e.block, j \in DOMAIN e.syncing : e.block[i] # e.syncing[j].block

\* The inductive invariant.
VectorsInv ==
    /\ uriRs \in [Uri -> RsType \cup {Absent}]
    /\ \A u \in Uri : uriRs[u] # Absent => RsOK(uriRs[u])
-----------------------------------------------------------------------------
\* Erasing an element moves those behind it up.
LEMMA Removed ==
    ASSUME NEW S, NEW v \in Seq(S), NEW i \in DOMAIN v
    PROVE  /\ RemoveAt(v, i) \in Seq(S)
           /\ Len(RemoveAt(v, i)) = Len(v) - 1
           /\ \A k \in 1 .. Len(v) - 1 :
                 RemoveAt(v, i)[k] = IF k < i THEN v[k] ELSE v[k + 1]
<1>1. i \in 1 .. Len(v) /\ Len(v) \in Nat
  OBVIOUS
<1>2. /\ SubSeq(v, 1, i - 1) \in Seq(S) /\ Len(SubSeq(v, 1, i - 1)) = i - 1
      /\ \A k \in 1 .. i - 1 : SubSeq(v, 1, i - 1)[k] = v[k]
  BY <1>1
<1>3. /\ SubSeq(v, i + 1, Len(v)) \in Seq(S) /\ Len(SubSeq(v, i + 1, Len(v))) = Len(v) - i
      /\ \A k \in 1 .. Len(v) - i : SubSeq(v, i + 1, Len(v))[k] = v[k + i]
  BY <1>1
<1> DEFINE a == SubSeq(v, 1, i - 1)
           c == SubSeq(v, i + 1, Len(v))
<1>4. RemoveAt(v, i) = a \o c
  BY DEF RemoveAt
<1>5. a \in Seq(S) /\ c \in Seq(S)
  BY <1>2, <1>3
<1> HIDE DEF a, c
<1>6. /\ a \o c \in Seq(S) /\ Len(a \o c) = Len(a) + Len(c)
      /\ \A k \in 1 .. Len(a) + Len(c) :
            (a \o c)[k] = IF k <= Len(a) THEN a[k] ELSE c[k - Len(a)]
  BY <1>5
<1>7. Len(a) = i - 1 /\ Len(c) = Len(v) - i
  BY <1>2, <1>3 DEF a, c
<1>8. ASSUME NEW k \in 1 .. Len(v) - 1
      PROVE  (a \o c)[k] = IF k < i THEN v[k] ELSE v[k + 1]
  <2>1. CASE k < i
    <3>1. k \in 1 .. i - 1 /\ k <= Len(a) /\ k \in 1 .. Len(a) + Len(c)
      BY <1>1, <1>7, <2>1
    <3> QED
      BY <1>2, <1>6, <2>1, <3>1 DEF a
  <2>2. CASE ~(k < i)
    <3>1. /\ k - (i - 1) \in 1 .. Len(v) - i /\ ~(k <= Len(a)) /\ k \in 1 .. Len(a) + Len(c)
          /\ k - Len(a) = k - (i - 1) /\ (k - (i - 1)) + i = k + 1
      BY <1>1, <1>7, <2>2
    <3>2. (a \o c)[k] = c[k - (i - 1)]
      BY <1>6, <3>1
    <3>3. c[k - (i - 1)] = v[(k - (i - 1)) + i]
      BY <1>3, <3>1 DEF c
    <3> QED
      BY <2>2, <3>1, <3>2, <3>3
  <2> QED
    BY <2>1, <2>2
<1>9. Len(a) + Len(c) = Len(v) - 1
  BY <1>1, <1>7
<1>10. a \o c \in Seq(S) /\ Len(a \o c) = Len(v) - 1
  BY <1>6, <1>9
<1> QED
  BY <1>4, <1>8, <1>10

\* If the elements differ, the erased value is gone and nothing else.
LEMMA RemovedOnce ==
    ASSUME NEW S, NEW v \in Seq(S), Once(v), NEW i \in DOMAIN v
    PROVE  /\ ToSet(RemoveAt(v, i)) = ToSet(v) \ {v[i]}
           /\ Selects(RemoveAt(v, i), v, DOMAIN v \ {i})
<1> DEFINE w == RemoveAt(v, i)
<1>1. /\ w \in Seq(S) /\ Len(w) = Len(v) - 1
      /\ \A k \in 1 .. Len(v) - 1 : w[k] = IF k < i THEN v[k] ELSE v[k + 1]
  BY Removed
<1> HIDE DEF w
<1>2. DOMAIN w = 1 .. Len(v) - 1 /\ DOMAIN v = 1 .. Len(v) /\ Len(v) \in Nat /\ i \in 1 .. Len(v)
  BY <1>1
<1>3. ASSUME NEW j \in DOMAIN w PROVE \E k \in DOMAIN v : k # i /\ w[j] = v[k]
  <2>1. CASE j < i
    BY <1>1, <1>2, <2>1
  <2>2. CASE ~(j < i)
    <3>1. j + 1 \in DOMAIN v /\ j + 1 # i /\ w[j] = v[j + 1]
      BY <1>1, <1>2, <2>2
    <3> QED
      BY <3>1
  <2> QED
    BY <2>1, <2>2
<1>4. ASSUME NEW k \in DOMAIN v, k # i PROVE \E j \in DOMAIN w : w[j] = v[k]
  <2>1. CASE k < i
    BY <1>1, <1>2, <2>1
  <2>2. CASE ~(k < i)
    <3>1. k - 1 \in DOMAIN w /\ w[k - 1] = v[k]
      BY <1>1, <1>2, <1>4, <2>2
    <3> QED
      BY <3>1
  <2> QED
    BY <2>1, <2>2
<1>5. ToSet(w) = ToSet(v) \ {v[i]}
  BY <1>3, <1>4 DEF ToSet, Once
<1> DEFINE f == [k \in DOMAIN w |-> IF k < i THEN k ELSE k + 1]
<1>6. /\ f \in [DOMAIN w -> DOMAIN v \ {i}]
      /\ \A k \in DOMAIN w : w[k] = v[f[k]]
      /\ \A j, k \in DOMAIN w : f[j] = f[k] => j = k
  BY <1>1, <1>2
<1> HIDE DEF f
<1>7. Selects(w, v, DOMAIN v \ {i})
  BY <1>6 DEF Selects
<1> QED
  BY <1>5, <1>7 DEF w

\* The reverse search finds the only place of x, or nothing.
LEMMA SearchFinds ==
    ASSUME NEW S, NEW v \in Seq(S), Once(v), NEW x
    PROVE  /\ LastIndexOf(v, x) = 0 <=> x \notin ToSet(v)
           /\ LastIndexOf(v, x) # 0 => LastIndexOf(v, x) \in DOMAIN v /\ v[LastIndexOf(v, x)] = x
<1>0. DOMAIN v = 1 .. Len(v) /\ Len(v) \in Nat
  OBVIOUS
<1>1. CASE x \notin ToSet(v)
  <2>1. {0} \cup {i \in DOMAIN v : v[i] = x} = {0}
    BY <1>1 DEF ToSet
  <2> QED
    BY <1>1, <2>1 DEF LastIndexOf, Max
<1>2. CASE x \in ToSet(v)
  <2>1. PICK k \in DOMAIN v : v[k] = x
    BY <1>2 DEF ToSet
  <2>2. {0} \cup {i \in DOMAIN v : v[i] = x} = {0, k}
    BY <2>1 DEF Once
  <2>3. k \in Nat /\ k > 0
    BY <1>0
  <2>4. Max({0, k}) = k
    BY <2>3 DEF Max
  <2>5. LastIndexOf(v, x) = k
    BY <2>2, <2>4 DEF LastIndexOf
  <2> QED
    BY <1>2, <2>1, <2>3, <2>5
<1> QED
  BY <1>1, <1>2

\* What is kept of a vector are its elements at the positions kept, each once.
LEMMA Kept ==
    ASSUME NEW S, NEW v \in Seq(S), NEW I \in SUBSET DOMAIN v, NEW w \in Keep(v, I)
    PROVE  /\ w \in Seq(S)
           /\ ToSet(w) = {v[i] : i \in I}
           /\ Selects(w, v, I)
<1> DEFINE n == Cardinality(I)
<1>1. n \in Nat
  <2>1. DOMAIN v = 1 .. Len(v) /\ Len(v) \in Nat
    OBVIOUS
  <2>2. IsFiniteSet(DOMAIN v)
    BY <2>1, FS_Interval
  <2> QED
    BY <2>2, FS_Subset, FS_CardinalityType
<1>2. PICK f \in Bijection(1 .. n, I) : w = [k \in 1 .. n |-> v[f[k]]]
  BY DEF Keep
<1> HIDE DEF n
<1>3. /\ f \in [1 .. n -> I]
      /\ \A j, k \in 1 .. n : f[j] = f[k] => j = k
      /\ \A i \in I : \E k \in 1 .. n : f[k] = i
  BY <1>2 DEF Bijection, Injection, Surjection, IsInjective
<1>4. w \in Seq(S) /\ DOMAIN w = 1 .. n /\ \A k \in 1 .. n : w[k] = v[f[k]]
  BY <1>1, <1>2, <1>3
<1>5. ToSet(w) = {v[i] : i \in I}
  BY <1>3, <1>4 DEF ToSet
<1>6. /\ f \in [DOMAIN w -> I]
      /\ \A k \in DOMAIN w : w[k] = v[f[k]]
      /\ \A j, k \in DOMAIN w : f[j] = f[k] => j = k
  BY <1>3, <1>4
<1>7. Selects(w, v, I)
  BY <1>6 DEF Selects
<1> QED
  BY <1>4, <1>5, <1>7
\* An element added at the end.
LEMMA Appended ==
    ASSUME NEW S, NEW v \in Seq(S), NEW x \in S
    PROVE  /\ Append(v, x) \in Seq(S)
           /\ ToSet(Append(v, x)) = ToSet(v) \cup {x}
           /\ \A i \in DOMAIN Append(v, x) :
                 (i \in DOMAIN v /\ Append(v, x)[i] = v[i]) \/ (i = Len(v) + 1 /\ Append(v, x)[i] = x)
<1> DEFINE w == Append(v, x)
<1>1. /\ w \in Seq(S) /\ DOMAIN w = 1 .. Len(v) + 1 /\ DOMAIN v = 1 .. Len(v) /\ Len(v) \in Nat
      /\ w[Len(v) + 1] = x /\ \A i \in 1 .. Len(v) : w[i] = v[i]
  OBVIOUS
<1> HIDE DEF w
<1>2. \A i \in DOMAIN w : (i \in DOMAIN v /\ w[i] = v[i]) \/ (i = Len(v) + 1 /\ w[i] = x)
  BY <1>1
<1>3. Len(v) + 1 \in DOMAIN w /\ \A i \in DOMAIN v : i \in DOMAIN w /\ w[i] = v[i]
  BY <1>1
<1>4. ToSet(w) = ToSet(v) \cup {x}
  BY <1>1, <1>2, <1>3 DEF ToSet
<1> QED
  BY <1>1, <1>2, <1>4 DEF w

\* The last element taken off.
LEMMA Popped ==
    ASSUME NEW S, NEW v \in Seq(S), Once(v), v # <<>>
    PROVE  /\ Front(v) \in Seq(S) /\ Last(v) \in ToSet(v) /\ Last(v) \in S
           /\ Len(v) \in DOMAIN v /\ Last(v) = v[Len(v)]
           /\ ToSet(Front(v)) = ToSet(v) \ {Last(v)}
           /\ \A i \in DOMAIN Front(v) : i \in DOMAIN v /\ i # Len(v) /\ Front(v)[i] = v[i]
<1> DEFINE n == Len(v)
           w == Front(v)
<1>1. n \in Nat \ {0} /\ DOMAIN v = 1 .. n /\ Last(v) = v[n] /\ v[n] \in S
  BY DEF Last
<1>2. /\ w \in Seq(S) /\ DOMAIN w = 1 .. n - 1 /\ \A i \in 1 .. n - 1 : w[i] = v[i]
  BY <1>1 DEF Front
<1> HIDE DEF w, n
<1>3. n \in DOMAIN v /\ \A i \in DOMAIN w : i \in DOMAIN v /\ i # n /\ w[i] = v[i]
  BY <1>1, <1>2
<1>4. \A i \in DOMAIN v : i = n \/ (i \in DOMAIN w /\ w[i] = v[i])
  BY <1>1, <1>2
<1>5. ToSet(w) = ToSet(v) \ {v[n]} /\ v[n] \in ToSet(v)
  BY <1>3, <1>4 DEF ToSet, Once
<1> QED
  BY <1>1, <1>2, <1>3, <1>5 DEF n, w
-----------------------------------------------------------------------------
\* The constructor's vector has the blocks of the closed form, each once.
LEMMA SplitSeqOK ==
    ASSUME NEW s \in Nat
    PROVE  /\ SplitSeq(s) \in Seq(Split(s))
           /\ ToSet(SplitSeq(s)) = Split(s)
           /\ Once(SplitSeq(s))
<1>0. BLOCK_SIZE \in Nat \ {0}
  BY KByteAssumption DEF BLOCK_SIZE
<1>1. CASE s <= BLOCK_SIZE
  <2>1. SplitSeq(s) = <<Block(0, s)>> /\ Split(s) = {Block(0, s)}
    BY <1>1 DEF SplitSeq, Split
  <2> QED
    BY <2>1 DEF ToSet, Once
<1>2. CASE ~(s <= BLOCK_SIZE)
  <2> DEFINE B(j) == Block(j * BLOCK_SIZE, LesserOf(s, (j + 1) * BLOCK_SIZE))
             q == (s - 1) \div BLOCK_SIZE
             m == LesserOf(NumBlocks(s), q + 1)
  <2>1. NumBlocks(s) \in Nat
    BY KByteAssumption, UintModAssumption DEF NumBlocks
  <2>2. q \in Nat /\ q * BLOCK_SIZE <= s - 1 /\ s - 1 < q * BLOCK_SIZE + BLOCK_SIZE
    BY <1>0, <1>2, DivBounds
  <2> HIDE DEF q
  <2>3. ASSUME NEW j \in Nat PROVE j * BLOCK_SIZE < s <=> j <= q
    <3>1. j * BLOCK_SIZE \in Nat /\ q * BLOCK_SIZE \in Nat
      BY <1>0, <2>2
    <3>2. j <= q => j * BLOCK_SIZE <= q * BLOCK_SIZE
      BY <1>0, <2>2, MultiplesOrdered
    <3>3. j * BLOCK_SIZE < q * BLOCK_SIZE + BLOCK_SIZE => j <= q
      BY <1>0, <2>2, MultiplesOrdered
    <3> QED
      BY <1>0, <2>2, <3>1, <3>2, <3>3
  <2>4. m \in Nat /\ {j \in 0 .. NumBlocks(s) - 1 : j * BLOCK_SIZE < s} = 0 .. m - 1
    <3>1. m \in Nat /\ \A j \in Nat : j < m <=> j < NumBlocks(s) /\ j <= q
      BY <2>1, <2>2 DEF LesserOf
    <3> QED
      BY <2>1, <2>3, <3>1
  <2> HIDE DEF m
  <2>5. Split(s) = {B(j) : j \in 0 .. m - 1}
    BY <1>2, <2>4 DEF Split
  <2>6. ASSUME NEW j \in 0 .. m - 1, NEW k \in 0 .. m - 1, B(j) = B(k) PROVE j = k
    <3>1. j \in Nat /\ k \in Nat
      BY <2>4
    <3>2. j * BLOCK_SIZE = k * BLOCK_SIZE
      BY <2>6 DEF Block
    <3>3. j * BLOCK_SIZE \in Nat /\ j * BLOCK_SIZE < k * BLOCK_SIZE + BLOCK_SIZE
          /\ k * BLOCK_SIZE < j * BLOCK_SIZE + BLOCK_SIZE
      BY <1>0, <3>1, <3>2
    <3>4. j <= k /\ k <= j
      BY <1>0, <3>1, <3>3, MultiplesOrdered
    <3> QED
      BY <3>1, <3>4
  <2>7. Cardinality(Split(s)) = m
    <3> DEFINE f == [j \in 0 .. m - 1 |-> B(j)]
    <3>1. f \in Surjection(0 .. m - 1, Split(s))
      BY <2>5 DEF Surjection
    <3>2. f \in Injection(0 .. m - 1, Split(s))
      BY <2>5, <2>6 DEF Injection, IsInjective
    <3>3. IsFiniteSet(0 .. m - 1) /\ Cardinality(0 .. m - 1) = m
      BY <2>4, FS_Interval
    <3> QED
      BY <3>1, <3>2, <3>3, FS_Surjection
  <2>8. SplitSeq(s) = [k \in 1 .. m |-> B(k - 1)]
    <3>1. SplitSeq(s) = [k \in 1 .. m |->
                           Block((k - 1) * BLOCK_SIZE, LesserOf(s, k * BLOCK_SIZE))]
      BY <1>2, <2>7 DEF SplitSeq
    <3>2. \A k \in 1 .. m : (k - 1) + 1 = k
      BY <2>4
    <3> QED
      BY <3>1, <3>2
  <2>9. \A k \in 1 .. m : k - 1 \in 0 .. m - 1
    BY <2>4
  <2>10. \A j \in 0 .. m - 1 : j + 1 \in 1 .. m /\ (j + 1) - 1 = j
    BY <2>4
  <2> HIDE DEF B
  <2>11. SplitSeq(s) \in Seq(Split(s))
    BY <2>4, <2>5, <2>8, <2>9
  <2>12. ToSet(SplitSeq(s)) = Split(s)
    BY <2>5, <2>8, <2>9, <2>10 DEF ToSet
  <2>13. Once(SplitSeq(s))
    BY <2>4, <2>6, <2>8, <2>9 DEF Once
  <2> QED
    BY <2>11, <2>12, <2>13
<1> QED
  BY <1>1, <1>2
-----------------------------------------------------------------------------
\* Both modules cut a file in the same way.
LEMMA SameSplit == \A s \in Size : Table!Split(s) = Split(s)
BY DEF Table!Split, Split, Table!Block, Block, Table!LesserOf, LesserOf, Table!NumBlocks, NumBlocks,
       Table!BLOCK_SIZE, BLOCK_SIZE

\* The blocks that occur are blocks.
LEMMA BlocksTyped == Table!Blocks \subseteq BlockType
<1>1. \A s \in Size : Split(s) \subseteq BlockType
  BY SplitType, VectorSizesAssumption
<1> QED
  BY <1>1, SameSplit DEF Table!Blocks, Table!NoBlock, Table!Block, BlockType

\* The elements of a vector.
LEMMA ToSetType ==
    ASSUME NEW S, NEW v \in Seq(S)
    PROVE  ToSet(v) \subseteq S
BY DEF ToSet

\* An empty vector is one without elements.
LEMMA ToSetEmpty ==
    ASSUME NEW S, NEW v \in Seq(S)
    PROVE  v = <<>> <=> ToSet(v) = {}
<1>1. v = <<>> => ToSet(v) = {}
  BY DEF ToSet
<1>2. ASSUME v # <<>> PROVE 1 \in DOMAIN v
  BY <1>2
<1> QED
  BY <1>1, <1>2 DEF ToSet

\* An entry stands for an entry of RsSyncManager with the same fields, as sets.
LEMMA SetsEntry ==
    ASSUME NEW e \in RsType
    PROVE  /\ AsSets(e) \in Table!SyncRsType /\ AsSets(e) # Absent /\ e # Absent
           /\ AsSets(e) = [size |-> e.size, hash |-> e.hash, owner |-> ToSet(e.owner),
                        block |-> ToSet(e.block), syncing |-> ToSet(e.syncing),
                        done |-> e.done, alloc |-> e.alloc]
<1>1. /\ e.size \in Size /\ e.hash \in Hash \cup {NoHash} /\ e.owner \in Seq(Peer)
      /\ e.block \in Seq(Table!Blocks) /\ e.syncing \in Seq([peer : Peer, block : Table!Blocks])
      /\ e.done \subseteq Table!Blocks /\ e.alloc \in BOOLEAN
      /\ e = [size |-> e.size, hash |-> e.hash, owner |-> e.owner, block |-> e.block,
              syncing |-> e.syncing, done |-> e.done, alloc |-> e.alloc]
  BY DEF RsType
<1>2. /\ ToSet(e.owner) \subseteq Peer /\ ToSet(e.block) \subseteq Table!Blocks
      /\ ToSet(e.syncing) \subseteq [peer : Peer, block : Table!Blocks]
  BY <1>1, ToSetType
<1>3. AsSets(e) = [size |-> e.size, hash |-> e.hash, owner |-> ToSet(e.owner),
                block |-> ToSet(e.block), syncing |-> ToSet(e.syncing), done |-> e.done,
                alloc |-> e.alloc]
  BY DEF AsSets
<1>4. AsSets(e) \in Table!SyncRsType
  BY <1>1, <1>2, <1>3, BlocksTyped
  DEF Table!SyncRsType, Table!RangeType, Table!BlockType, BlockType
<1> QED
  BY <1>3, <1>4, VectorAbsentAssumption

\* The fields of the entry it stands for.
LEMMA SetsFields ==
    ASSUME NEW e \in RsType
    PROVE  /\ AsSets(e).size = e.size /\ AsSets(e).hash = e.hash /\ AsSets(e).done = e.done
           /\ AsSets(e).alloc = e.alloc /\ AsSets(e).owner = ToSet(e.owner)
           /\ AsSets(e).block = ToSet(e.block) /\ AsSets(e).syncing = ToSet(e.syncing)
BY DEF AsSets

\* Storing an entry stores the entry it stands for.
LEMMA StoreMaps ==
    ASSUME VectorsInv, NEW u \in Uri, NEW e \in RsType, Store(u, e)
    PROVE  Table!Store(u, AsSets(e))
<1>1. uriRs' = [uriRs EXCEPT ![u] = e] /\ uriRs \in [Uri -> RsType \cup {Absent}] /\ e # Absent
  BY SetsEntry DEF Store, VectorsInv
<1> QED
  BY <1>1 DEF Table!Store

\* Erasing an entry erases the one it stands for.
LEMMA EraseMaps ==
    ASSUME VectorsInv, NEW u \in Uri, Store(u, Absent)
    PROVE  Table!Store(u, Absent)
<1>1. uriRs' = [uriRs EXCEPT ![u] = Absent] /\ uriRs \in [Uri -> RsType \cup {Absent}]
  BY DEF Store, VectorsInv
<1> QED
  BY <1>1 DEF Table!Store

\* A default entry has nothing in it.
LEMMA DefaultOK ==
    ASSUME NEW junk \in Size
    PROVE  RsOK(DefaultRs(junk)) /\ AsSets(DefaultRs(junk)) = Table!DefaultRs(junk)
<1> DEFINE e == DefaultRs(junk)
<1>1. /\ e.size = junk /\ e.hash = NoHash /\ e.owner = <<>> /\ e.block = <<>>
      /\ e.syncing = <<>> /\ e.done = {} /\ e.alloc = FALSE
  BY DEF DefaultRs
<1>2. e \in RsType
  BY DEF DefaultRs, RsType
<1>3. ToSet(<<>>) = {}
  BY DEF ToSet
<1> HIDE DEF e
<1>4. AsSets(e) = Table!DefaultRs(junk)
  BY <1>1, <1>2, <1>3, SetsEntry DEF Table!DefaultRs
<1>5. RsOK(e)
  BY <1>1, <1>2 DEF RsOK, Once
<1> QED
  BY <1>4, <1>5 DEF e

\* What uriRs[uri] denotes stands for what it denotes in RsSyncManager.
LEMMA AtMaps ==
    ASSUME VectorsInv, NEW u \in Uri, NEW e \in At(u)
    PROVE  RsOK(e) /\ e \in RsType /\ AsSets(e) \in Table!At(u)
<1>1. CASE uriRs[u] = Absent
  BY <1>1, DefaultOK DEF At, Table!At, RsOK
<1>2. CASE uriRs[u] # Absent
  <2>1. e = uriRs[u] /\ RsOK(e) /\ e \in RsType
    BY <1>2 DEF At, VectorsInv, RsOK
  <2>2. AsSets(e) # Absent
    BY <2>1, SetsEntry
  <2> QED
    BY <1>2, <2>1, <2>2 DEF Table!At
<1> QED
  BY <1>1, <1>2

\* Storing a good entry keeps the invariant.
LEMMA StoreKeeps ==
    ASSUME VectorsInv, NEW u \in Uri, NEW e, RsOK(e) \/ e = Absent, Store(u, e)
    PROVE  VectorsInv'
<1>1. uriRs' \in [Uri -> RsType \cup {Absent}]
  BY DEF VectorsInv, RsOK, Store
<1>2. ASSUME NEW w \in Uri, uriRs'[w] # Absent PROVE RsOK(uriRs'[w])
  BY <1>2 DEF VectorsInv, Store
<1> QED
  BY <1>1, <1>2 DEF VectorsInv
-----------------------------------------------------------------------------
\* A new entry waits for all of its blocks.
LEMMA NewRsMaps ==
    ASSUME NEW p \in Peer, NEW h \in Hash, NEW s \in Size, NEW a \in BOOLEAN
    PROVE  LET f == [NewRs(p, h, s) EXCEPT !.alloc = a]
           IN /\ RsOK(f) /\ AsSets(f) = Table!NewRs(p, h, s, a)
              /\ a = FALSE => f = NewRs(p, h, s)
<1> DEFINE f == [NewRs(p, h, s) EXCEPT !.alloc = a]
<1>1. /\ SplitSeq(s) \in Seq(Split(s)) /\ ToSet(SplitSeq(s)) = Split(s) /\ Once(SplitSeq(s))
  BY SplitSeqOK, VectorSizesAssumption
<1>2. Split(s) \subseteq Table!Blocks
  BY SameSplit DEF Table!Blocks
<1>3. SplitSeq(s) \in Seq(Table!Blocks)
  BY <1>1, <1>2
<1>4. NewRs(p, h, s) \in RsType
  BY <1>3 DEF NewRs, RsType
<1>9. a = FALSE => f = NewRs(p, h, s)
  <2>1. NewRs(p, h, s).alloc = FALSE
    BY DEF NewRs
  <2> QED
    BY <1>4, <2>1 DEF RsType
<1>5. /\ f \in RsType
      /\ f.size = s /\ f.hash = h /\ f.owner = <<p>> /\ f.block = SplitSeq(s)
      /\ f.syncing = <<>> /\ f.done = {} /\ f.alloc = a
  BY <1>4 DEF RsType, NewRs
<1> HIDE DEF f
<1>6. RsOK(f)
  BY <1>1, <1>5 DEF RsOK
<1>7. ToSet(<<p>>) = {p} /\ ToSet(<<>>) = {}
  BY DEF ToSet
<1>8. AsSets(f) = Table!NewRs(p, h, s, a)
  BY <1>1, <1>5, <1>7, SameSplit DEF AsSets, Table!NewRs
<1> QED
  BY <1>6, <1>8, <1>9 DEF f

\* A further owner.
LEMMA PushOwnerMaps ==
    ASSUME NEW e, RsOK(e), NEW p \in Peer
    PROVE  RsOK(PushOwner(e, p)) /\ AsSets(PushOwner(e, p)) = [AsSets(e) EXCEPT !.owner = @ \cup {p}]
<1> DEFINE f == PushOwner(e, p)
           E == AsSets(e)
           F == AsSets(f)
<1>0. e \in RsType /\ e.owner \in Seq(Peer)
  BY DEF RsOK, RsType
<1>1. CASE p \in ToSet(e.owner)
  <2>1. f = e
    BY <1>1 DEF PushOwner, ToSet
  <2>2. E \in Table!SyncRsType /\ p \in E.owner
    BY <1>0, <1>1, SetsEntry
  <2> HIDE DEF E
  <2>3. E = [E EXCEPT !.owner = @ \cup {p}]
    BY <2>2 DEF Table!SyncRsType
  <2> QED
    BY <2>1, <2>3 DEF E
<1>2. CASE p \notin ToSet(e.owner)
  <2> DEFINE o == Append(e.owner, p)
  <2>1. f = [e EXCEPT !.owner = o]
    BY <1>2 DEF PushOwner, ToSet
  <2>2. o \in Seq(Peer) /\ ToSet(o) = ToSet(e.owner) \cup {p}
    BY <1>0, Appended
  <2> HIDE DEF o, f
  <2>3. /\ f \in RsType /\ f.owner = o
        /\ f.size = e.size /\ f.hash = e.hash /\ f.block = e.block /\ f.syncing = e.syncing
        /\ f.done = e.done /\ f.alloc = e.alloc
    BY <1>0, <2>1, <2>2 DEF RsType
  <2>4. RsOK(f)
    BY <2>3 DEF RsOK
  <2>5. E \in Table!SyncRsType /\ F \in Table!SyncRsType
    BY <1>0, <2>3, SetsEntry
  <2>6. /\ F.owner = E.owner \cup {p} /\ F.size = E.size /\ F.hash = E.hash /\ F.block = E.block
        /\ F.syncing = E.syncing /\ F.done = E.done /\ F.alloc = E.alloc
    BY <2>2, <2>3 DEF AsSets
  <2> HIDE DEF E, F
  <2>7. F = [E EXCEPT !.owner = @ \cup {p}]
    BY <2>5, <2>6 DEF Table!SyncRsType
  <2> QED
    BY <2>4, <2>7 DEF E, F, f
<1> QED
  BY <1>1, <1>2

\* The last waiting block moves to the end of syncing.
LEMMA AssignMaps ==
    ASSUME NEW e, RsOK(e), NEW p \in Peer, e.block # <<>>
    PROVE  LET b == Last(e.block)
               f == [e EXCEPT !.block = Front(@), !.syncing = Append(@, SyncingRange(p, Last(e.block))),
                              !.alloc = TRUE]
           IN /\ RsOK(f) /\ b \in ToSet(e.block) /\ b \in Table!Blocks
              /\ AsSets(f) = [AsSets(e) EXCEPT !.block = @ \ {b},
                                              !.syncing = @ \cup {Table!SyncingRange(p, b)},
                                              !.alloc = TRUE]
<1> DEFINE b == Last(e.block)
           n == Len(e.block)
           r == SyncingRange(p, b)
           w == Front(e.block)
           y == Append(e.syncing, r)
           f == [e EXCEPT !.block = w, !.syncing = y, !.alloc = TRUE]
           E == AsSets(e)
           F == AsSets(f)
           RT == [peer : Peer, block : Table!Blocks]
<1>0. /\ e \in RsType /\ e.block \in Seq(Table!Blocks) /\ e.syncing \in Seq(RT) /\ Once(e.block)
      /\ \A i, j \in DOMAIN e.syncing : e.syncing[i].block = e.syncing[j].block => i = j
      /\ \A i \in DOMAIN e.block, j \in DOMAIN e.syncing : e.block[i] # e.syncing[j].block
  BY DEF RsOK, RsType
<1>1. /\ w \in Seq(Table!Blocks) /\ b \in ToSet(e.block) /\ b \in Table!Blocks
      /\ n \in DOMAIN e.block /\ b = e.block[n]
      /\ ToSet(w) = ToSet(e.block) \ {b}
      /\ \A i \in DOMAIN w : i \in DOMAIN e.block /\ i # n /\ w[i] = e.block[i]
  BY <1>0, Popped
<1>2. r \in RT /\ r.block = b /\ r = Table!SyncingRange(p, b)
  BY <1>1 DEF SyncingRange, Table!SyncingRange
<1> HIDE DEF w, r, b, n, RT
<1>3. /\ y \in Seq(RT) /\ ToSet(y) = ToSet(e.syncing) \cup {r}
      /\ \A i \in DOMAIN y : (i \in DOMAIN e.syncing /\ y[i] = e.syncing[i])
                            \/ (i = Len(e.syncing) + 1 /\ y[i] = r)
  BY <1>0, <1>2, Appended
<1> HIDE DEF y
<1>4. /\ f \in RsType /\ f.block = w /\ f.syncing = y
      /\ f.alloc = TRUE /\ f.size = e.size /\ f.hash = e.hash /\ f.owner = e.owner /\ f.done = e.done
  BY <1>0, <1>1, <1>3 DEF RsType, RT
<1> HIDE DEF f
<1>5. Once(w)
  BY <1>0, <1>1 DEF Once
<1>6. ASSUME NEW i \in DOMAIN y, NEW j \in DOMAIN y, y[i].block = y[j].block PROVE i = j
  BY <1>0, <1>1, <1>2, <1>3, <1>6
<1>7. ASSUME NEW i \in DOMAIN w, NEW j \in DOMAIN y PROVE w[i] # y[j].block
  <2>1. i \in DOMAIN e.block /\ i # n /\ w[i] = e.block[i] /\ w[i] # b
    BY <1>0, <1>1 DEF Once
  <2> QED
    BY <1>0, <1>2, <1>3, <2>1
<1>8. RsOK(f)
  BY <1>4, <1>5, <1>6, <1>7 DEF RsOK
<1>9. E \in Table!SyncRsType /\ F \in Table!SyncRsType
  BY <1>0, <1>4, SetsEntry
<1>10. /\ F.owner = E.owner /\ F.size = E.size /\ F.hash = E.hash /\ F.block = E.block \ {b}
       /\ F.syncing = E.syncing \cup {r} /\ F.done = E.done /\ F.alloc = TRUE
  BY <1>1, <1>3, <1>4 DEF AsSets
<1> HIDE DEF E, F
<1>11. F = [E EXCEPT !.block = @ \ {b}, !.syncing = @ \cup {r}, !.alloc = TRUE]
  BY <1>9, <1>10 DEF Table!SyncRsType
<1> QED
  BY <1>1, <1>2, <1>8, <1>11 DEF E, F, f, b, w, y, r
\* The range of block b is at i, and y are the others.
FoundAt(e, p, b, i, y) ==
    /\ i \in DOMAIN e.syncing /\ e.syncing[i] = SyncingRange(p, b)
    /\ e.syncing[i].block = b /\ b \in Table!Blocks
    /\ y \in Seq([peer : Peer, block : Table!Blocks])
    /\ ToSet(y) = ToSet(e.syncing) \ {SyncingRange(p, b)}
    /\ \A j, k \in DOMAIN y : y[j].block = y[k].block => j = k
    /\ \A j \in DOMAIN y : y[j].block # b
    /\ \A j \in DOMAIN y : \E k \in DOMAIN e.syncing : y[j] = e.syncing[k]

\* What the reverse search finds and the erase leaves.
LEMMA FoundRange ==
    ASSUME NEW e, RsOK(e), NEW p, NEW b,
           NEW i, i = LastIndexOf(e.syncing, SyncingRange(p, b)), i # 0,
           NEW y, y = RemoveAt(e.syncing, i)
    PROVE  FoundAt(e, p, b, i, y)
<1> DEFINE r == SyncingRange(p, b)
           v == e.syncing
           RT == [peer : Peer, block : Table!Blocks]
<1>0. v \in Seq(RT) /\ \A j, k \in DOMAIN v : v[j].block = v[k].block => j = k
  BY DEF RsOK, RsType
<1> HIDE DEF v
<1>1. Once(v)
  BY <1>0 DEF Once
<1>2. i \in DOMAIN v /\ v[i] = r
  BY <1>0, <1>1, SearchFinds DEF v
<1>3. r.block = b
  BY DEF SyncingRange
<1>4. b \in Table!Blocks
  <2> HIDE DEF RT, r
  <2>1. v[i] \in RT
    BY <1>0, <1>2
  <2>2. v[i].block \in Table!Blocks
    BY <2>1 DEF RT
  <2> QED
    BY <1>2, <1>3, <2>2
<1> HIDE DEF r, RT
<1>5. ToSet(y) = ToSet(v) \ {r} /\ Selects(y, v, DOMAIN v \ {i}) /\ y \in Seq(RT)
  BY <1>0, <1>1, <1>2, RemovedOnce, Removed DEF v
<1>6. PICK f \in [DOMAIN y -> DOMAIN v \ {i}] :
         /\ \A k \in DOMAIN y : y[k] = v[f[k]]
         /\ \A j, k \in DOMAIN y : f[j] = f[k] => j = k
  BY <1>5 DEF Selects
<1>7. \A j \in DOMAIN y : f[j] \in DOMAIN v /\ f[j] # i
  BY <1>6
<1>8. \A j, k \in DOMAIN y : y[j].block = y[k].block => j = k
  BY <1>0, <1>6, <1>7
<1>9. \A j \in DOMAIN y : y[j].block # b
  BY <1>0, <1>2, <1>3, <1>6, <1>7
<1>10. \A j \in DOMAIN y : \E k \in DOMAIN v : y[j] = v[k]
  BY <1>6, <1>7
<1> QED
  BY <1>2, <1>3, <1>4, <1>5, <1>8, <1>9, <1>10 DEF v, r, RT, FoundAt

\* What RsSyncManager makes of the entry E when a range is returned.
Returned(E, p, b) ==
    [E EXCEPT !.block = @ \cup {b}, !.syncing = @ \ {Table!SyncingRange(p, b)}]

\* A returned range is the last waiting block.
LEMMA ReturnMaps ==
    ASSUME NEW e, RsOK(e), NEW p, NEW b, LastIndexOf(e.syncing, SyncingRange(p, b)) # 0
    PROVE  LET f == Return(e, b, LastIndexOf(e.syncing, SyncingRange(p, b)))
           IN RsOK(f) /\ AsSets(f) = Returned(AsSets(e), p, b)
<1>i. PICK i : i = LastIndexOf(e.syncing, SyncingRange(p, b))
  OBVIOUS
<1>y. PICK y : y = RemoveAt(e.syncing, i)
  OBVIOUS
<1>n. i # 0
  BY <1>i
<1>f. FoundAt(e, p, b, i, y)
  BY <1>i, <1>y, <1>n, FoundRange
<1> DEFINE r == SyncingRange(p, b)
           w == Append(e.block, b)
           f == Return(e, b, i)
           E == AsSets(e)
           F == AsSets(f)
           RT == [peer : Peer, block : Table!Blocks]
<1>0. /\ e \in RsType /\ e.block \in Seq(Table!Blocks) /\ Once(e.block)
      /\ \A k \in DOMAIN e.block, j \in DOMAIN e.syncing : e.block[k] # e.syncing[j].block
  BY DEF RsOK, RsType
<1>1. /\ i \in DOMAIN e.syncing /\ e.syncing[i].block = b /\ b \in Table!Blocks /\ y \in Seq(RT)
      /\ ToSet(y) = ToSet(e.syncing) \ {r}
      /\ \A j, k \in DOMAIN y : y[j].block = y[k].block => j = k
      /\ \A j \in DOMAIN y : y[j].block # b
      /\ \A j \in DOMAIN y : \E k \in DOMAIN e.syncing : y[j] = e.syncing[k]
  BY <1>f DEF FoundAt
<1>2. r = Table!SyncingRange(p, b)
  BY DEF SyncingRange, Table!SyncingRange
<1> HIDE DEF r, RT
<1>3. /\ w \in Seq(Table!Blocks) /\ ToSet(w) = ToSet(e.block) \cup {b}
      /\ \A k \in DOMAIN w : (k \in DOMAIN e.block /\ w[k] = e.block[k])
                            \/ (k = Len(e.block) + 1 /\ w[k] = b)
  BY <1>0, <1>1, Appended
<1>11. f = [e EXCEPT !.block = w, !.syncing = y]
  BY <1>y DEF Return
<1> HIDE DEF w, f
<1>4. /\ f \in RsType /\ f.block = w /\ f.syncing = y
      /\ f.alloc = e.alloc /\ f.size = e.size /\ f.hash = e.hash /\ f.owner = e.owner
      /\ f.done = e.done
  BY <1>0, <1>1, <1>3, <1>11 DEF RsType, RT
<1>5. Once(w)
  BY <1>0, <1>1, <1>3 DEF Once
<1>6. \A k \in DOMAIN w, j \in DOMAIN y : w[k] # y[j].block
  BY <1>0, <1>1, <1>3
<1>7. RsOK(f)
  BY <1>1, <1>4, <1>5, <1>6 DEF RsOK
<1>8. E \in Table!SyncRsType /\ F \in Table!SyncRsType
  BY <1>0, <1>4, SetsEntry
<1>9. /\ F.owner = E.owner /\ F.size = E.size /\ F.hash = E.hash /\ F.block = E.block \cup {b}
      /\ F.syncing = E.syncing \ {r} /\ F.done = E.done /\ F.alloc = E.alloc
  BY <1>1, <1>3, <1>4 DEF AsSets
<1> HIDE DEF E, F
<1>10. F = [E EXCEPT !.block = @ \cup {b}, !.syncing = @ \ {r}]
  BY <1>8, <1>9 DEF Table!SyncRsType
<1>12. F = Returned(E, p, b)
  BY <1>2, <1>10 DEF Returned
<1> QED
  BY <1>i, <1>7, <1>12 DEF E, F, f

\* A fetched block leaves the requested ones.
LEMMA FinishMaps ==
    ASSUME NEW e, RsOK(e), NEW p, NEW b, LastIndexOf(e.syncing, SyncingRange(p, b)) # 0
    PROVE  LET f == Finish(e, LastIndexOf(e.syncing, SyncingRange(p, b)))
           IN /\ RsOK(f)
              /\ AsSets(f) = Table!Finish(AsSets(e), p, b)
              /\ f.block = e.block
              /\ ToSet(f.syncing) = ToSet(e.syncing) \ {Table!SyncingRange(p, b)}
<1>i. PICK i : i = LastIndexOf(e.syncing, SyncingRange(p, b))
  OBVIOUS
<1>y. PICK y : y = RemoveAt(e.syncing, i)
  OBVIOUS
<1>n. i # 0
  BY <1>i
<1>f. FoundAt(e, p, b, i, y)
  BY <1>i, <1>y, <1>n, FoundRange
<1> DEFINE r == SyncingRange(p, b)
           d == e.done \cup {b}
           f == Finish(e, i)
           E == AsSets(e)
           F == AsSets(f)
           RT == [peer : Peer, block : Table!Blocks]
<1>0. /\ e \in RsType /\ Once(e.block)
      /\ \A k \in DOMAIN e.block, j \in DOMAIN e.syncing : e.block[k] # e.syncing[j].block
  BY DEF RsOK, RsType
<1>1. /\ e.syncing[i].block = b /\ b \in Table!Blocks /\ y \in Seq(RT)
      /\ ToSet(y) = ToSet(e.syncing) \ {r}
      /\ \A j, k \in DOMAIN y : y[j].block = y[k].block => j = k
      /\ \A j \in DOMAIN y : \E k \in DOMAIN e.syncing : y[j] = e.syncing[k]
  BY <1>f DEF FoundAt
<1>2. r = Table!SyncingRange(p, b)
  BY DEF SyncingRange, Table!SyncingRange
<1>3. f = [e EXCEPT !.syncing = y, !.done = d]
  BY <1>1, <1>y DEF Finish
<1>4. d \in SUBSET Table!Blocks
  BY <1>0, <1>1 DEF RsType
<1> HIDE DEF r, RT, f, d
<1>5. /\ f \in RsType /\ f.block = e.block /\ f.syncing = y
      /\ f.alloc = e.alloc /\ f.size = e.size /\ f.hash = e.hash /\ f.owner = e.owner
      /\ f.done = d
  BY <1>0, <1>1, <1>3, <1>4 DEF RsType, RT
<1>6. \A k \in DOMAIN e.block, j \in DOMAIN y : e.block[k] # y[j].block
  BY <1>0, <1>1
<1>7. RsOK(f)
  BY <1>0, <1>1, <1>5, <1>6 DEF RsOK
<1>8. E \in Table!SyncRsType /\ F \in Table!SyncRsType
  BY <1>0, <1>5, SetsEntry
<1>9. /\ F.owner = E.owner /\ F.size = E.size /\ F.hash = E.hash /\ F.block = E.block
      /\ F.syncing = E.syncing \ {r} /\ F.done = E.done \cup {b} /\ F.alloc = E.alloc
  BY <1>1, <1>5 DEF AsSets, d
<1> HIDE DEF E, F
<1>10. F = [E EXCEPT !.syncing = @ \ {r}, !.done = @ \cup {b}]
  BY <1>8, <1>9 DEF Table!SyncRsType
<1>11. F = Table!Finish(E, p, b)
  BY <1>2, <1>10 DEF Table!Finish
<1> QED
  BY <1>i, <1>1, <1>2, <1>5, <1>7, <1>11 DEF E, F, f, r
-----------------------------------------------------------------------------
\* Two vectors of different elements, one behind the other.
LEMMA Joined ==
    ASSUME NEW S, NEW v \in Seq(S), NEW z \in Seq(S)
    PROVE  /\ v \o z \in Seq(S)
           /\ ToSet(v \o z) = ToSet(v) \cup ToSet(z)
           /\ (Once(v) /\ Once(z) /\ ToSet(v) \cap ToSet(z) = {}) => Once(v \o z)
<1> DEFINE w == v \o z
           m == Len(v)
           n == Len(z)
<1>1. /\ w \in Seq(S) /\ DOMAIN w = 1 .. m + n /\ DOMAIN v = 1 .. m /\ DOMAIN z = 1 .. n
      /\ m \in Nat /\ n \in Nat
      /\ \A k \in 1 .. m + n : w[k] = IF k <= m THEN v[k] ELSE z[k - m]
  OBVIOUS
<1> HIDE DEF w, m, n
<1>2. ASSUME NEW k \in DOMAIN w
      PROVE  \/ k <= m /\ k \in DOMAIN v /\ w[k] = v[k]
             \/ ~(k <= m) /\ k - m \in DOMAIN z /\ w[k] = z[k - m]
  BY <1>1
<1>3. \A k \in DOMAIN v : k \in DOMAIN w /\ w[k] = v[k]
  BY <1>1
<1>4. ASSUME NEW k \in DOMAIN z PROVE k + m \in DOMAIN w /\ w[k + m] = z[k]
  <2>1. k + m \in 1 .. m + n /\ ~(k + m <= m) /\ (k + m) - m = k
    BY <1>1
  <2> QED
    BY <1>1, <2>1
<1>5. ToSet(w) = ToSet(v) \cup ToSet(z)
  BY <1>2, <1>3, <1>4 DEF ToSet
<1>6. ASSUME Once(v), Once(z), ToSet(v) \cap ToSet(z) = {},
             NEW j \in DOMAIN w, NEW k \in DOMAIN w, w[j] = w[k]
      PROVE  j = k
  <2>1. \A x \in DOMAIN v, q \in DOMAIN z : v[x] # z[q]
    BY <1>6 DEF ToSet
  <2>2. CASE j <= m /\ k <= m
    BY <1>2, <1>6, <2>2 DEF Once
  <2>3. CASE ~(j <= m) /\ ~(k <= m)
    <3>1. j - m = k - m
      BY <1>2, <1>6, <2>3 DEF Once
    <3> QED
      BY <1>1, <3>1
  <2> QED
    BY <1>2, <1>6, <2>1, <2>2, <2>3
<1>7. (Once(v) /\ Once(z) /\ ToSet(v) \cap ToSet(z) = {}) => Once(w)
  BY <1>6 DEF Once
<1> QED
  BY <1>1, <1>5, <1>7 DEF w

\* The blocks of the ranges back, last first.
LEMMA BlocksReturned ==
    ASSUME NEW v \in Seq([peer : Peer, block : Table!Blocks]),
           \A j, k \in DOMAIN v : v[j].block = v[k].block => j = k,
           NEW I \in SUBSET DOMAIN v, NEW back \in Keep(v, I),
           NEW z, z = BlocksBack(back)
    PROVE  /\ z \in Seq(Table!Blocks) /\ Once(z)
           /\ ToSet(z) = {v[i].block : i \in I}
<1> DEFINE RT == [peer : Peer, block : Table!Blocks]
           n == Len(back)
<1>1. back \in Seq(RT) /\ ToSet(back) = {v[i] : i \in I} /\ Selects(back, v, I)
  BY Kept
<1> HIDE DEF RT
<1>2. n \in Nat /\ DOMAIN back = 1 .. n /\ \A k \in 1 .. n : back[k] \in RT
  BY <1>1
<1> HIDE DEF n
<1>3. \A k \in 1 .. n : (n - k) + 1 \in 1 .. n /\ (n - ((n - k) + 1)) + 1 = k
  BY <1>2
<1>4. \A k \in 1 .. n : Reverse(back)[k] = back[(n - k) + 1]
  BY <1>3 DEF Reverse, n
<1>5. DOMAIN z = 1 .. n /\ \A k \in 1 .. n : z[k] = back[(n - k) + 1].block
  BY <1>2, <1>4 DEF BlocksBack
<1>6. z \in Seq(Table!Blocks)
  <2>1. \A k \in 1 .. n : back[k].block \in Table!Blocks
    BY <1>2 DEF RT
  <2>2. z = [k \in 1 .. n |-> z[k]] /\ \A k \in 1 .. n : z[k] \in Table!Blocks
    BY <1>2, <1>3, <1>5, <2>1 DEF BlocksBack
  <2> QED
    BY <1>2, <2>2
<1>7. PICK f \in [DOMAIN back -> I] :
         /\ \A k \in DOMAIN back : back[k] = v[f[k]]
         /\ \A j, k \in DOMAIN back : f[j] = f[k] => j = k
  BY <1>1 DEF Selects
<1>8. \A k \in 1 .. n : f[k] \in DOMAIN v /\ back[k] = v[f[k]]
  BY <1>2, <1>7
<1>9. ASSUME NEW j \in 1 .. n, NEW k \in 1 .. n, z[j] = z[k] PROVE j = k
  <2>1. back[(n - j) + 1].block = back[(n - k) + 1].block
    BY <1>5, <1>9
  <2>2. (n - j) + 1 = (n - k) + 1
    <3> DEFINE p == (n - j) + 1
               q == (n - k) + 1
    <3>1. p \in 1 .. n /\ q \in 1 .. n
      BY <1>3
    <3>2. back[p].block = back[q].block
      BY <2>1
    <3> HIDE DEF p, q
    <3>3. /\ f[p] \in DOMAIN v /\ back[p] = v[f[p]]
          /\ f[q] \in DOMAIN v /\ back[q] = v[f[q]]
      BY <1>8, <3>1
    <3>4. f[p] = f[q]
      BY <3>2, <3>3
    <3>5. p = q
      BY <1>2, <1>7, <3>1, <3>4
    <3> QED
      BY <3>5 DEF p, q
  <2> QED
    BY <1>2, <2>2
<1>10. ToSet(z) = {v[i].block : i \in I}
  <2>1. ASSUME NEW i \in I PROVE \E k \in DOMAIN z : z[k] = v[i].block
    <3>1. v[i] \in ToSet(back)
      BY <1>1
    <3>2. PICK k \in 1 .. n : back[k] = v[i]
      BY <1>2, <3>1 DEF ToSet
    <3>3. (n - k) + 1 \in DOMAIN z /\ z[(n - k) + 1] = v[i].block
      BY <1>3, <1>5, <3>2
    <3> QED
      BY <3>3
  <2>2. ASSUME NEW k \in DOMAIN z PROVE \E i \in I : z[k] = v[i].block
    <3>1. k \in 1 .. n /\ (n - k) + 1 \in DOMAIN back
      BY <1>2, <1>3, <1>5
    <3>2. f[(n - k) + 1] \in I /\ z[k] = v[f[(n - k) + 1]].block
      BY <1>5, <1>7, <3>1
    <3> QED
      BY <3>2
  <2>3. \A x \in ToSet(z) : x \in {v[i].block : i \in I}
    BY <2>2 DEF ToSet
  <2>4. \A x \in {v[i].block : i \in I} : x \in ToSet(z)
    BY <2>1 DEF ToSet
  <2> QED
    BY <2>3, <2>4
<1> QED
  BY <1>5, <1>6, <1>9, <1>10 DEF Once

\* The ranges of peer p, the other ranges and the other owners.
PartsOf(e, p, back, kept, others) ==
    LET Mine == {i \in DOMAIN e.syncing : e.syncing[i].peer = p}
    IN /\ back \in Keep(e.syncing, Mine)
       /\ kept \in Keep(e.syncing, DOMAIN e.syncing \ Mine)
       /\ others \in Keep(e.owner, {i \in DOMAIN e.owner : e.owner[i] # p})

\* Dropping a peer returns its ranges, and the peer is no owner any more.
LEMMA ReleaseMaps ==
    ASSUME NEW e, RsOK(e), NEW p, NEW back, NEW kept, NEW others,
           PartsOf(e, p, back, kept, others)
    PROVE  /\ RsOK(Released(e, back, kept, others))
           /\ AsSets(Released(e, back, kept, others)) = Table!Release(AsSets(e), p)
<1> DEFINE RT == [peer : Peer, block : Table!Blocks]
           v == e.syncing
           Mine == {i \in DOMAIN v : v[i].peer = p}
           Rest == DOMAIN v \ Mine
           Own == {i \in DOMAIN e.owner : e.owner[i] # p}
           f == Released(e, back, kept, others)
           E == AsSets(e)
           F == AsSets(f)
<1>0. /\ e \in RsType /\ e.block \in Seq(Table!Blocks) /\ Once(e.block)
      /\ v \in Seq(RT) /\ e.owner \in Seq(Peer)
      /\ \A i, j \in DOMAIN v : v[i].block = v[j].block => i = j
      /\ \A i \in DOMAIN e.block, j \in DOMAIN v : e.block[i] # v[j].block
  BY DEF RsOK, RsType
<1>1. back \in Keep(v, Mine) /\ kept \in Keep(v, Rest) /\ others \in Keep(e.owner, Own)
  BY DEF PartsOf
<1>2. PICK z : z = BlocksBack(back)
  OBVIOUS
<1>3. Mine \in SUBSET DOMAIN v /\ Rest \in SUBSET DOMAIN v /\ Own \in SUBSET DOMAIN e.owner
  OBVIOUS
<1> HIDE DEF Mine, Rest, Own
<1>4. z \in Seq(Table!Blocks) /\ Once(z) /\ ToSet(z) = {v[i].block : i \in Mine}
  <2> HIDE DEF v
  <2>1. v \in Seq([peer : Peer, block : Table!Blocks])
    BY <1>0
  <2>2. \A j, k \in DOMAIN v : v[j].block = v[k].block => j = k
    BY <1>0
  <2> QED
    BY <1>1, <1>2, <1>3, <2>1, <2>2, BlocksReturned
<1>5. kept \in Seq(RT) /\ ToSet(kept) = {v[i] : i \in Rest} /\ Selects(kept, v, Rest)
  BY <1>0, <1>1, <1>3, Kept
<1>6. others \in Seq(Peer) /\ ToSet(others) = {e.owner[i] : i \in Own}
  BY <1>0, <1>1, <1>3, Kept
<1> DEFINE w == e.block \o z
<1>7. ToSet(e.block) \cap ToSet(z) = {}
  BY <1>0, <1>3, <1>4 DEF ToSet
<1>8. w \in Seq(Table!Blocks) /\ Once(w) /\ ToSet(w) = ToSet(e.block) \cup ToSet(z)
  BY <1>0, <1>4, <1>7, Joined
<1>9. f = [e EXCEPT !.block = w, !.syncing = kept, !.owner = others]
  BY <1>2 DEF Released
<1> HIDE DEF w, RT, f
<1>10. /\ f \in RsType /\ f.block = w /\ f.syncing = kept /\ f.owner = others
       /\ f.alloc = e.alloc /\ f.size = e.size /\ f.hash = e.hash /\ f.done = e.done
  BY <1>0, <1>5, <1>6, <1>8, <1>9 DEF RsType, RT
<1>11. PICK g \in [DOMAIN kept -> Rest] :
          /\ \A k \in DOMAIN kept : kept[k] = v[g[k]]
          /\ \A j, k \in DOMAIN kept : g[j] = g[k] => j = k
  BY <1>5 DEF Selects
<1>12. \A k \in DOMAIN kept : g[k] \in DOMAIN v /\ g[k] \notin Mine /\ kept[k] = v[g[k]]
  BY <1>11 DEF Rest
<1>13. \A j, k \in DOMAIN kept : kept[j].block = kept[k].block => j = k
  BY <1>0, <1>11, <1>12
<1>14. ASSUME NEW i \in DOMAIN w, NEW k \in DOMAIN kept PROVE w[i] # kept[k].block
  <2>1. w[i] \in ToSet(e.block) \/ w[i] \in ToSet(z)
    BY <1>8 DEF ToSet
  <2>2. CASE w[i] \in ToSet(e.block)
    BY <1>0, <1>12, <2>2 DEF ToSet
  <2>3. CASE w[i] \in ToSet(z)
    <3>1. PICK j \in Mine : w[i] = v[j].block
      BY <1>4, <2>3
    <3>2. j \in DOMAIN v /\ j # g[k]
      BY <1>3, <1>12, <3>1
    <3> QED
      BY <1>0, <1>12, <3>1, <3>2
  <2> QED
    BY <2>1, <2>2, <2>3
<1>15. RsOK(f)
  <2>1. Once(f.block)
    BY <1>8, <1>10
  <2>2. \A i, j \in DOMAIN f.syncing : f.syncing[i].block = f.syncing[j].block => i = j
    BY <1>10, <1>13
  <2>3. \A i \in DOMAIN f.block, j \in DOMAIN f.syncing : f.block[i] # f.syncing[j].block
    BY <1>10, <1>14
  <2>4. f \in RsType
    BY <1>10
  <2> QED
    BY <2>1, <2>2, <2>3, <2>4, Zenon DEF RsOK
<1>16. E \in Table!SyncRsType /\ F \in Table!SyncRsType
  BY <1>0, <1>10, SetsEntry
<1>17. /\ F.owner = ToSet(others) /\ F.size = E.size /\ F.hash = E.hash
       /\ F.block = E.block \cup ToSet(z) /\ F.syncing = ToSet(kept)
       /\ F.done = E.done /\ F.alloc = E.alloc
  BY <1>8, <1>10 DEF AsSets
<1>18. E.owner = ToSet(e.owner) /\ E.syncing = ToSet(v)
  BY DEF AsSets
<1> HIDE DEF E, F, v
<1>19. ToSet(others) = E.owner \ {p}
  BY <1>6, <1>18 DEF ToSet, Own
<1>20. ToSet(kept) = {r \in E.syncing : r.peer # p}
  BY <1>5, <1>18 DEF ToSet, Rest, Mine
<1>21. ToSet(z) = Table!RequestedFrom(E, p)
  <2>1. Table!RequestedFrom(E, p) = {r.block : r \in {q \in E.syncing : q.peer = p}}
    BY DEF Table!RequestedFrom
  <2>2. ASSUME NEW i \in Mine PROVE v[i].block \in Table!RequestedFrom(E, p)
    <3>1. i \in DOMAIN v /\ v[i].peer = p
      BY DEF Mine
    <3>2. v[i] \in E.syncing
      BY <1>18, <3>1 DEF ToSet
    <3> QED
      BY <2>1, <3>1, <3>2
  <2>3. ASSUME NEW x \in Table!RequestedFrom(E, p) PROVE \E i \in Mine : x = v[i].block
    <3>1. PICK r \in E.syncing : r.peer = p /\ x = r.block
      BY <2>1
    <3>2. PICK i \in DOMAIN v : r = v[i]
      BY <1>18, <3>1 DEF ToSet
    <3> QED
      BY <3>1, <3>2 DEF Mine
  <2> QED
    BY <1>4, <2>2, <2>3
<1>22. F = [E EXCEPT !.block = @ \cup Table!RequestedFrom(E, p),
                     !.syncing = {r \in @ : r.peer # p}, !.owner = @ \ {p}]
  BY <1>16, <1>17, <1>19, <1>20, <1>21 DEF Table!SyncRsType
<1>23. F = Table!Release(E, p)
  BY <1>22 DEF Table!Release
<1> QED
  BY <1>15, <1>23 DEF E, F, f
-----------------------------------------------------------------------------
\* Storing a good entry, in both.
LEMMA StoreBoth ==
    ASSUME VectorsInv, NEW u \in Uri, NEW e, RsOK(e), Store(u, e)
    PROVE  VectorsInv' /\ Table!Store(u, AsSets(e))
<1>1. VectorsInv'
  BY StoreKeeps
<1>2. e \in RsType
  BY DEF RsOK
<1> QED
  BY <1>1, <1>2, StoreMaps

\* regSyncRs.
LEMMA RegSyncRsMaps ==
    ASSUME VectorsInv, NEW p \in Peer, NEW u \in Uri, NEW h \in Hash, NEW s \in Size,
           RegSyncRs(p, u, h, s)
    PROVE  VectorsInv' /\ Table!RegSyncRs(p, u, h, s)
<1>0. PICK e : e = uriRs[u]
  OBVIOUS
<1>1. /\ alive /\ alive' = alive
      /\ adv' = adv \cup {[peer |-> p, uri |-> u, hash |-> h, size |-> s]}
      /\ Store(u, IF e = Absent THEN NewRs(p, h, s) ELSE Update(e, p, h, s))
  BY <1>0 DEF RegSyncRs
<1>2. CASE e = Absent
  <2> DEFINE f == [NewRs(p, h, s) EXCEPT !.alloc = FALSE]
  <2>1. RsOK(f) /\ AsSets(f) = Table!NewRs(p, h, s, FALSE) /\ f = NewRs(p, h, s)
    BY NewRsMaps
  <2> HIDE DEF f
  <2>3. Store(u, f)
    BY <1>1, <1>2, <2>1
  <2>4. VectorsInv' /\ Table!Store(u, AsSets(f))
    BY <2>1, <2>3, StoreBoth
  <2>5. Table!NewUri(p, u, h, s)
    BY <1>0, <1>2, <2>1, <2>4 DEF Table!NewUri
  <2> QED
    BY <1>1, <2>4, <2>5 DEF Table!RegSyncRs
<1>3. CASE e # Absent
  <2>0. RsOK(e) /\ e \in RsType /\ e.size \in Nat /\ s \in Nat /\ e.alloc \in BOOLEAN
    BY <1>0, <1>3, VectorSizesAssumption DEF VectorsInv, RsOK, RsType
  <2>1. AsSets(e) # Absent /\ AsSets(e).size = e.size /\ AsSets(e).hash = e.hash
        /\ AsSets(e).alloc = e.alloc
    BY <2>0, SetsEntry, SetsFields
  <2>2. CASE e.size < s
    <3> DEFINE f == [NewRs(p, h, s) EXCEPT !.alloc = e.alloc]
    <3>1. RsOK(f) /\ AsSets(f) = Table!NewRs(p, h, s, e.alloc)
      BY <2>0, NewRsMaps
    <3>2. Store(u, f)
      BY <1>1, <1>3, <2>2 DEF Update
    <3> HIDE DEF f
    <3>3. VectorsInv' /\ Table!Store(u, AsSets(f))
      BY <3>1, <3>2, StoreBoth
    <3>4. Table!BiggerRs(p, u, h, s)
      BY <1>0, <1>3, <2>1, <2>2, <3>1, <3>3 DEF Table!BiggerRs, Table!Store
    <3> QED
      BY <1>1, <3>3, <3>4 DEF Table!RegSyncRs
  <2>3. CASE e.size = s /\ e.hash = h
    <3>1. Store(u, PushOwner(e, p))
      BY <1>1, <1>3, <2>0, <2>3 DEF Update
    <3>2. RsOK(PushOwner(e, p)) /\ AsSets(PushOwner(e, p)) = [AsSets(e) EXCEPT !.owner = @ \cup {p}]
      BY <2>0, PushOwnerMaps
    <3>3. VectorsInv' /\ Table!Store(u, AsSets(PushOwner(e, p)))
      BY <3>1, <3>2, StoreBoth
    <3>4. Table!SameRs(p, u, h, s)
      BY <1>0, <1>3, <2>1, <2>3, <3>2, <3>3 DEF Table!SameRs, Table!Store
    <3> QED
      BY <1>1, <3>3, <3>4 DEF Table!RegSyncRs
  <2>4. CASE ~(e.size < s) /\ ~(e.size = s /\ e.hash = h)
    <3>1. uriRs' = uriRs
      BY <1>0, <1>1, <1>3, <2>4 DEF Update, Store, VectorsInv
    <3>2. e.size > s \/ (e.size = s /\ e.hash # h)
      BY <2>0, <2>4
    <3>3. Table!OtherRs(p, u, h, s)
      BY <1>0, <1>3, <2>1, <3>1, <3>2 DEF Table!OtherRs
    <3>4. VectorsInv'
      BY <3>1 DEF VectorsInv
    <3> QED
      BY <1>1, <3>3, <3>4 DEF Table!RegSyncRs
  <2> QED
    BY <2>2, <2>3, <2>4
<1> QED
  BY <1>2, <1>3
\* Storing what is there, or a default entry, as a getter does.
LEMMA GetMaps ==
    ASSUME VectorsInv, NEW u \in Uri, Get(u)
    PROVE  VectorsInv' /\ Table!Get(u)
<1>1. PICK e \in At(u) : Store(u, e)
  BY DEF Get
<1>2. RsOK(e) /\ AsSets(e) \in Table!At(u)
  BY AtMaps
<1>3. VectorsInv' /\ Table!Store(u, AsSets(e))
  BY <1>1, <1>2, StoreBoth
<1> QED
  BY <1>2, <1>3 DEF Get, Table!Get

\* regReqSyncRsAuto hands out the last waiting block, or nothing.
LEMMA RegReqSyncRsAutoMaps ==
    ASSUME VectorsInv, NEW p \in Peer, NEW u \in Uri, RegReqSyncRsAuto(p, u)
    PROVE  VectorsInv' /\ \E b \in Table!Blocks : Table!RegReqSyncRsAuto(p, u, b)
<1> DEFINE Can(e) == e.block # <<>> /\ \E i \in DOMAIN e.owner : e.owner[i] = p
<1>1. PICK e \in At(u) :
         Store(u, IF Can(e)
                  THEN [e EXCEPT !.block = Front(@),
                                 !.syncing = Append(@, SyncingRange(p, Last(e.block))),
                                 !.alloc = TRUE]
                  ELSE e)
  BY DEF RegReqSyncRsAuto
<1>2. RsOK(e) /\ e \in RsType /\ AsSets(e) \in Table!At(u)
  BY AtMaps
<1>3. AsSets(e).owner = ToSet(e.owner) /\ AsSets(e).block = ToSet(e.block)
  BY <1>2, SetsFields
<1>4. CASE Can(e)
  <2> DEFINE f == [e EXCEPT !.block = Front(@),
                            !.syncing = Append(@, SyncingRange(p, Last(e.block))),
                            !.alloc = TRUE]
             b == Last(e.block)
  <2>1. /\ RsOK(f) /\ b \in ToSet(e.block) /\ b \in Table!Blocks
        /\ AsSets(f) = [AsSets(e) EXCEPT !.block = @ \ {b},
                                        !.syncing = @ \cup {Table!SyncingRange(p, b)},
                                        !.alloc = TRUE]
    BY <1>2, <1>4, AssignMaps
  <2>2. Store(u, f)
    BY <1>1, <1>4
  <2> HIDE DEF f, b
  <2>3. VectorsInv' /\ Table!Store(u, AsSets(f))
    BY <2>1, <2>2, StoreBoth
  <2>4. p \in AsSets(e).owner /\ b \in AsSets(e).block
    BY <1>3, <1>4, <2>1 DEF ToSet
  <2>5. Table!Assign(p, u, b)
    BY <1>2, <2>1, <2>3, <2>4 DEF Table!Assign
  <2>6. Table!RegReqSyncRsAuto(p, u, b)
    BY <2>5 DEF RegReqSyncRsAuto, Table!RegReqSyncRsAuto
  <2> QED
    BY <2>1, <2>3, <2>6
<1>5. CASE ~Can(e)
  <2>1. Store(u, e)
    BY <1>1, <1>5
  <2>2. VectorsInv' /\ Table!Store(u, AsSets(e))
    BY <1>2, <2>1, StoreBoth
  <2>3. p \notin AsSets(e).owner \/ AsSets(e).block = {}
    <3>1. ToSet(<<>>) = {}
      BY DEF ToSet
    <3> QED
      BY <1>3, <1>5, <3>1 DEF ToSet
  <2>4. Table!NothingToAssign(p, u, Table!NoBlock)
    BY <1>2, <2>2, <2>3 DEF Table!NothingToAssign
  <2>5. Table!RegReqSyncRsAuto(p, u, Table!NoBlock)
    BY <2>4 DEF RegReqSyncRsAuto, Table!RegReqSyncRsAuto
  <2>6. Table!NoBlock \in Table!Blocks
    BY DEF Table!Blocks
  <2> QED
    BY <2>2, <2>5, <2>6
<1> QED
  BY <1>4, <1>5

\* A range is found by the search exactly if it is in the set of ranges.
LEMMA SearchMaps ==
    ASSUME NEW e, RsOK(e), NEW p, NEW b
    PROVE  /\ LastIndexOf(e.syncing, SyncingRange(p, b)) # 0
               <=> Table!SyncingRange(p, b) \in AsSets(e).syncing
           /\ AsSets(e).alloc = e.alloc
<1> DEFINE v == e.syncing
<1>1. /\ e \in RsType /\ v \in Seq([peer : Peer, block : Table!Blocks])
      /\ \A i, j \in DOMAIN v : v[i].block = v[j].block => i = j
  BY DEF RsOK, RsType
<1>2. Once(v)
  BY <1>1 DEF Once
<1>3. AsSets(e).syncing = ToSet(v) /\ AsSets(e).alloc = e.alloc
  BY <1>1, SetsFields
<1>4. SyncingRange(p, b) = Table!SyncingRange(p, b)
  BY DEF SyncingRange, Table!SyncingRange
<1> HIDE DEF v
<1>5. LastIndexOf(v, SyncingRange(p, b)) = 0 <=> SyncingRange(p, b) \notin ToSet(v)
  BY <1>1, <1>2, SearchFinds
<1> QED
  BY <1>3, <1>4, <1>5 DEF v

\* The death of the process.
LEMMA CrashMaps ==
    ASSUME VectorsInv, Crash
    PROVE  VectorsInv' /\ Table!Crash
BY DEF VectorsInv, Crash, Table!Crash

\* unregReqSyncRsByBlock.
LEMMA UnregReqSyncRsByBlockMaps ==
    ASSUME VectorsInv, NEW p \in Peer, NEW u \in Uri, NEW b \in Table!Blocks,
           UnregReqSyncRsByBlock(p, b, u)
    PROVE  VectorsInv' /\ Table!UnregReqSyncRsByBlock(p, b, u)
<1>1. PICK e \in At(u) :
         LET i == LastIndexOf(e.syncing, SyncingRange(p, b))
         IN \/ ~e.alloc /\ Crash
            \/ e.alloc /\ i = 0 /\ UNCHANGED <<uriRs, alive>>
            \/ /\ e.alloc /\ i # 0
               /\ Store(u, Return(e, b, i))
               /\ UNCHANGED alive
  BY DEF UnregReqSyncRsByBlock
<1>2. RsOK(e) /\ e \in RsType /\ AsSets(e) \in Table!At(u)
  BY AtMaps
<1>8. PICK i : i = LastIndexOf(e.syncing, SyncingRange(p, b))
  OBVIOUS
<1> DEFINE E == AsSets(e)
           r == Table!SyncingRange(p, b)
<1>3. (i # 0 <=> r \in E.syncing) /\ E.alloc = e.alloc
  BY <1>2, <1>8, SearchMaps
<1>4. alive /\ adv' = adv
  BY DEF UnregReqSyncRsByBlock
<1> HIDE DEF E, r
<1>5. CASE ~e.alloc /\ Crash
  <2>1. VectorsInv' /\ Table!Crash
    BY <1>5, CrashMaps
  <2>2. Table!ReverseLoopCrashes(E)
    BY <1>3, <1>5 DEF Table!ReverseLoopCrashes
  <2> QED
    BY <1>2, <1>4, <2>1, <2>2 DEF Table!UnregReqSyncRsByBlock, E
<1>6. CASE e.alloc /\ i = 0 /\ UNCHANGED <<uriRs, alive>>
  <2>1. ~Table!ReverseLoopCrashes(E) /\ r \notin E.syncing
    BY <1>3, <1>6 DEF Table!ReverseLoopCrashes
  <2>2. VectorsInv'
    BY <1>6 DEF VectorsInv
  <2> QED
    BY <1>2, <1>4, <1>6, <2>1, <2>2 DEF Table!UnregReqSyncRsByBlock, E, r
<1>7. CASE /\ e.alloc /\ i # 0
           /\ Store(u, Return(e, b, i))
           /\ UNCHANGED alive
  <2>f. PICK f : f = Return(e, b, i)
    OBVIOUS
  <2>1. RsOK(f) /\ AsSets(f) = [E EXCEPT !.block = @ \cup {b}, !.syncing = @ \ {r}]
    <3>1. LastIndexOf(e.syncing, SyncingRange(p, b)) # 0
      BY <1>7, <1>8
    <3>2. RsOK(Return(e, b, i)) /\ AsSets(Return(e, b, i)) = Returned(AsSets(e), p, b)
      BY <1>2, <1>8, <3>1, ReturnMaps
    <3> QED
      BY <2>f, <3>2 DEF E, r, Returned
  <2>2. Store(u, f)
    BY <1>7, <2>f
  <2>3. VectorsInv' /\ Table!Store(u, AsSets(f))
    BY <2>1, <2>2, StoreBoth
  <2>4. ~Table!ReverseLoopCrashes(E) /\ r \in E.syncing
    BY <1>3, <1>7 DEF Table!ReverseLoopCrashes
  <2> QED
    BY <1>2, <1>4, <1>7, <2>1, <2>3, <2>4 DEF Table!UnregReqSyncRsByBlock, E, r
<1> QED
  BY <1>1, <1>5, <1>6, <1>7, <1>8

\* unregAllReqSyncRsByPeer.
LEMMA UnregAllReqSyncRsByPeerMaps ==
    ASSUME VectorsInv, NEW p \in Peer, NEW u \in Uri, UnregAllReqSyncRsByPeer(p, u)
    PROVE  VectorsInv' /\ Table!UnregAllReqSyncRsByPeer(p, u)
<1>1. PICK e \in At(u) :
         (~e.alloc /\ Crash) \/ (e.alloc /\ Release(e, p, u) /\ UNCHANGED alive)
  BY DEF UnregAllReqSyncRsByPeer
<1>2. RsOK(e) /\ e \in RsType /\ AsSets(e) \in Table!At(u)
  BY AtMaps
<1> DEFINE E == AsSets(e)
<1>3. E.alloc = e.alloc
  BY <1>2, SetsFields
<1>4. alive /\ adv' = adv
  BY DEF UnregAllReqSyncRsByPeer
<1> HIDE DEF E
<1>5. CASE ~e.alloc /\ Crash
  <2>1. VectorsInv' /\ Table!Crash
    BY <1>5, CrashMaps
  <2>2. Table!ReverseLoopCrashes(E)
    BY <1>3, <1>5 DEF Table!ReverseLoopCrashes
  <2> QED
    BY <1>2, <1>4, <2>1, <2>2 DEF Table!UnregAllReqSyncRsByPeer, E
<1>6. CASE e.alloc /\ Release(e, p, u) /\ UNCHANGED alive
  <2>1. PICK back, kept, others :
           PartsOf(e, p, back, kept, others) /\ Store(u, Released(e, back, kept, others))
    BY <1>6 DEF Release, PartsOf
  <2>2. PICK f : f = Released(e, back, kept, others)
    OBVIOUS
  <2>3. /\ RsOK(Released(e, back, kept, others))
        /\ AsSets(Released(e, back, kept, others)) = Table!Release(AsSets(e), p)
    BY <1>2, <2>1, ReleaseMaps
  <2>4. RsOK(f) /\ AsSets(f) = Table!Release(E, p)
    BY <2>2, <2>3 DEF E
  <2>5. VectorsInv' /\ Table!Store(u, AsSets(f))
    BY <2>1, <2>2, <2>4, StoreBoth
  <2>6. ~Table!ReverseLoopCrashes(E)
    BY <1>3, <1>6 DEF Table!ReverseLoopCrashes
  <2> QED
    BY <1>2, <1>4, <1>6, <2>4, <2>5, <2>6 DEF Table!UnregAllReqSyncRsByPeer, E
<1> QED
  BY <1>1, <1>5, <1>6
\* syncingRangeDoneAndValid: the entry is erased when nothing is left, which the
\* code sees after the erase of the range and the sets before it.
LEMMA SyncingRangeDoneAndValidMaps ==
    ASSUME VectorsInv, NEW p \in Peer, NEW u \in Uri, NEW b \in Table!Blocks,
           SyncingRangeDoneAndValid(p, u, b)
    PROVE  VectorsInv' /\ Table!SyncingRangeDoneAndValid(p, u, b)
<1>1. PICK e \in At(u) :
         LET i == LastIndexOf(e.syncing, SyncingRange(p, b))
         IN \/ ~e.alloc /\ Crash
            \/ e.alloc /\ i = 0 /\ UNCHANGED <<uriRs, alive>>
            \/ /\ e.alloc /\ i # 0
               /\ LET f == Finish(e, i)
                  IN Store(u, IF f.block = <<>> /\ f.syncing = <<>> THEN Absent ELSE f)
               /\ UNCHANGED alive
  BY DEF SyncingRangeDoneAndValid
<1>2. RsOK(e) /\ e \in RsType /\ AsSets(e) \in Table!At(u)
  BY AtMaps
<1>3. PICK i : i = LastIndexOf(e.syncing, SyncingRange(p, b))
  OBVIOUS
<1> DEFINE E == AsSets(e)
           r == Table!SyncingRange(p, b)
<1>4. (i # 0 <=> r \in E.syncing) /\ E.alloc = e.alloc
  BY <1>2, <1>3, SearchMaps
<1>5. E.block = ToSet(e.block) /\ E.syncing = ToSet(e.syncing)
  BY <1>2, SetsFields
<1>6. alive /\ adv' = adv
  BY DEF SyncingRangeDoneAndValid
<1> HIDE DEF E, r
<1>7. CASE ~e.alloc /\ Crash
  <2>1. VectorsInv' /\ Table!Crash
    BY <1>7, CrashMaps
  <2>2. Table!ReverseLoopCrashes(E)
    BY <1>4, <1>7 DEF Table!ReverseLoopCrashes
  <2> QED
    BY <1>2, <1>6, <2>1, <2>2 DEF Table!SyncingRangeDoneAndValid, E
<1>8. CASE e.alloc /\ i = 0 /\ UNCHANGED <<uriRs, alive>>
  <2>1. ~Table!ReverseLoopCrashes(E) /\ r \notin E.syncing
    BY <1>4, <1>8 DEF Table!ReverseLoopCrashes
  <2>2. VectorsInv'
    BY <1>8 DEF VectorsInv
  <2> QED
    BY <1>2, <1>6, <1>8, <2>1, <2>2 DEF Table!SyncingRangeDoneAndValid, E, r
<1>9. CASE /\ e.alloc /\ i # 0
           /\ LET f == Finish(e, i)
              IN Store(u, IF f.block = <<>> /\ f.syncing = <<>> THEN Absent ELSE f)
           /\ UNCHANGED alive
  <2>1. PICK f : f = Finish(e, i)
    OBVIOUS
  <2>2. /\ RsOK(f) /\ AsSets(f) = Table!Finish(E, p, b) /\ f.block = e.block
        /\ ToSet(f.syncing) = E.syncing \ {r}
    <3>1. LastIndexOf(e.syncing, SyncingRange(p, b)) # 0
      BY <1>3, <1>9
    <3>2. /\ RsOK(Finish(e, i)) /\ AsSets(Finish(e, i)) = Table!Finish(AsSets(e), p, b)
          /\ Finish(e, i).block = e.block
          /\ ToSet(Finish(e, i).syncing) = ToSet(e.syncing) \ {Table!SyncingRange(p, b)}
      BY <1>2, <1>3, <3>1, FinishMaps
    <3> QED
      BY <1>5, <2>1, <3>2 DEF E, r
  <2>3. f.block \in Seq(Table!Blocks) /\ f.syncing \in Seq([peer : Peer, block : Table!Blocks])
    BY <2>2 DEF RsOK, RsType
  <2>4. f.block = <<>> <=> ToSet(f.block) = {}
    BY <2>3, ToSetEmpty
  <2>5. f.syncing = <<>> <=> ToSet(f.syncing) = {}
    BY <2>3, ToSetEmpty
  <2>6. r \in E.syncing /\ ~Table!ReverseLoopCrashes(E)
    BY <1>4, <1>9 DEF Table!ReverseLoopCrashes
  <2>7. (f.block = <<>> /\ f.syncing = <<>>) <=> Table!IsLast(E, p, b)
    BY <1>5, <2>2, <2>4, <2>5, <2>6 DEF Table!IsLast, r
  <2>8. CASE f.block = <<>> /\ f.syncing = <<>>
    <3>1. Store(u, Absent)
      BY <1>9, <2>1, <2>8
    <3>2. VectorsInv' /\ Table!Erase(u)
      BY <3>1, StoreKeeps, EraseMaps DEF Table!Erase
    <3>3. Table!RangeDone(E, p, u, b)
      BY <2>6, <2>7, <2>8, <3>2 DEF Table!RangeDone, r
    <3> QED
      BY <1>2, <1>6, <1>9, <2>6, <3>2, <3>3 DEF Table!SyncingRangeDoneAndValid, E
  <2>9. CASE ~(f.block = <<>> /\ f.syncing = <<>>)
    <3>1. Store(u, f)
      BY <1>9, <2>1, <2>9
    <3>2. VectorsInv' /\ Table!Store(u, AsSets(f))
      BY <2>2, <3>1, StoreBoth
    <3>3. Table!RangeDone(E, p, u, b)
      BY <2>2, <2>6, <2>7, <2>9, <3>2 DEF Table!RangeDone, r
    <3> QED
      BY <1>2, <1>6, <1>9, <2>6, <3>2, <3>3 DEF Table!SyncingRangeDoneAndValid, E
  <2> QED
    BY <2>8, <2>9
<1> QED
  BY <1>1, <1>3, <1>7, <1>8, <1>9
-----------------------------------------------------------------------------
\* Every step of the vectors is a step of the sets or a stutter.
LEMMA StepMaps ==
    ASSUME VectorsInv, [Next]_vars
    PROVE  VectorsInv' /\ [Table!Next]_(Table!vars)
<1>1. CASE Next
  <2>1. PICK u \in Uri :
           \/ Get(u)
           \/ \E p \in Peer :
                 \/ \E h \in Hash, s \in Size : RegSyncRs(p, u, h, s)
                 \/ RegReqSyncRsAuto(p, u)
                 \/ \E b \in Table!Blocks :
                       UnregReqSyncRsByBlock(p, b, u) \/ SyncingRangeDoneAndValid(p, u, b)
                 \/ UnregAllReqSyncRsByPeer(p, u)
    BY <1>1 DEF Next
  <2>2. CASE Get(u)
    BY <2>2, GetMaps DEF Table!Next
  <2>3. ASSUME NEW p \in Peer, NEW h \in Hash, NEW s \in Size, RegSyncRs(p, u, h, s)
        PROVE  VectorsInv' /\ Table!Next
    BY <2>3, RegSyncRsMaps DEF Table!Next
  <2>4. ASSUME NEW p \in Peer, RegReqSyncRsAuto(p, u)
        PROVE  VectorsInv' /\ Table!Next
    BY <2>4, RegReqSyncRsAutoMaps DEF Table!Next
  <2>5. ASSUME NEW p \in Peer, NEW b \in Table!Blocks, UnregReqSyncRsByBlock(p, b, u)
        PROVE  VectorsInv' /\ Table!Next
    BY <2>5, UnregReqSyncRsByBlockMaps DEF Table!Next
  <2>6. ASSUME NEW p \in Peer, NEW b \in Table!Blocks, SyncingRangeDoneAndValid(p, u, b)
        PROVE  VectorsInv' /\ Table!Next
    BY <2>6, SyncingRangeDoneAndValidMaps DEF Table!Next
  <2>7. ASSUME NEW p \in Peer, UnregAllReqSyncRsByPeer(p, u)
        PROVE  VectorsInv' /\ Table!Next
    BY <2>7, UnregAllReqSyncRsByPeerMaps DEF Table!Next
  <2> QED
    BY <2>1, <2>2, <2>3, <2>4, <2>5, <2>6, <2>7
<1>2. CASE UNCHANGED vars
  BY <1>2 DEF vars, VectorsInv, Table!vars
<1> QED
  BY <1>1, <1>2

\* The invariant: no block is twice among the waiting and requested blocks of an
\* entry, although push_back and erase are all that the code does.
THEOREM VectorsInvariant == Spec => []VectorsInv
<1>1. Init => VectorsInv
  BY DEF Init, VectorsInv
<1>2. VectorsInv /\ [Next]_vars => VectorsInv'
  BY StepMaps
<1> QED
  BY <1>1, <1>2, PTL DEF Spec

\* The vectors of rs_sync_mamanger.cpp implement the sync table on sets: every
\* run of the vectors is a run of RsSyncManager, so its theorems hold of them.
THEOREM VectorsImplementTable == Spec => ImplementsTable
<1>1. Init => Table!Init
  BY DEF Init, Table!Init
<1>2. VectorsInv /\ [Next]_vars => [Table!Next]_(Table!vars)
  BY StepMaps
<1> QED
  BY <1>1, <1>2, VectorsInvariant, PTL DEF Spec, ImplementsTable, Table!Spec
=============================================================================
