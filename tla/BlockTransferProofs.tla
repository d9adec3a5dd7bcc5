------------------------- MODULE BlockTransferProofs ------------------------
(***************************************************************************)
(* Proofs about BlockTransfer for every file size, block size and width of *)
(* the counter: the constructor's loop computes the closed form Split,     *)
(* whose blocks tile the file; the reader stays inside its buffer; what is *)
(* sent and saved are the bytes of the requested blocks.                   *)
(***************************************************************************)
EXTENDS BlockTransfer, SplitProofs, SequenceTheorems, FiniteSetTheorems, FunctionTheorems

\* The first n blocks are cut, each at its place.
Cut(n) ==
    /\ n \in Nat /\ block \in Seq(BlockType) /\ Len(block) = n
    /\ n <= NumBlocks(size)
    /\ \A k \in 1 .. n : /\ block[k] = Block((k - 1) * BLOCK_SIZE, LesserOf(size, k * BLOCK_SIZE))
                         /\ (k - 1) * BLOCK_SIZE < size

\* The loop of the constructor: after i rounds it has cut i blocks and has not
\* reached the end; it stops at the end of the file or when the count is used up.
CtorInv ==
    /\ size \in Nat /\ pc \in {"start", "loop", "done"}
    /\ pc = "start" => block = <<>> /\ i = 0 /\ offset = 0
    /\ pc = "loop" => /\ size > BLOCK_SIZE /\ num = NumBlocks(size)
                      /\ Cut(i) /\ offset = i * BLOCK_SIZE /\ offset < size
    /\ pc = "done" =>
          \/ size <= BLOCK_SIZE /\ block = <<Block(0, size)>>
          \/ /\ size > BLOCK_SIZE /\ Cut(Len(block))
             /\ Len(block) >= NumBlocks(size) \/ Len(block) * BLOCK_SIZE >= size
-----------------------------------------------------------------------------
\* The block size and the count are numbers.
LEMMA Numbers ==
    ASSUME NEW s \in Nat
    PROVE  BLOCK_SIZE \in Nat \ {0} /\ NumBlocks(s) \in Nat
<1>1. BLOCK_SIZE \in Nat \ {0}
  BY KByteAssumption DEF BLOCK_SIZE
<1>2. (s \div KByte) * KByte + 1 \in Nat
  <2>1. s \div KByte \in Nat
    BY KByteAssumption, DivBounds
  <2> QED
    BY <2>1, KByteAssumption
<1>3. NumBlocks(s) \in Nat
  BY <1>2, UintModAssumption DEF NumBlocks
<1> QED
  BY <1>1, <1>3

\* One round of the loop cuts the next block.
LEMMA IterateCuts ==
    ASSUME CtorInv, Iterate
    PROVE  CtorInv'
<1> DEFINE end == LesserOf(size, offset + BLOCK_SIZE)
           b == Block(offset, end)
<1>1. /\ pc = "loop" /\ i < num /\ block' = Append(block, b) /\ offset' = end
      /\ pc' = IF end >= size THEN "done" ELSE "loop"
      /\ i' = i + 1 /\ size' = size /\ num' = num
  BY DEF Iterate
<1>2. /\ size \in Nat /\ size > BLOCK_SIZE /\ num = NumBlocks(size) /\ num \in Nat
      /\ i \in Nat /\ Len(block) = i /\ offset = i * BLOCK_SIZE /\ offset < size
      /\ BLOCK_SIZE \in Nat \ {0} /\ block \in Seq(BlockType) /\ offset \in Nat
  <2>1. size \in Nat /\ size > BLOCK_SIZE /\ num = NumBlocks(size) /\ Cut(i)
        /\ offset = i * BLOCK_SIZE /\ offset < size
    BY <1>1 DEF CtorInv
  <2>2. BLOCK_SIZE \in Nat \ {0} /\ num \in Nat
    BY <2>1, Numbers
  <2>3. i \in Nat /\ Len(block) = i /\ block \in Seq(BlockType)
    BY <2>1 DEF Cut
  <2>4. i * BLOCK_SIZE \in Nat
    BY <2>2, <2>3
  <2> QED
    BY <2>1, <2>2, <2>3, <2>4
<1>3. (i + 1) * BLOCK_SIZE = offset + BLOCK_SIZE /\ ((i + 1) - 1) * BLOCK_SIZE = offset
  BY <1>2
<1>4. end \in Nat /\ end <= size /\ (end < size => end = offset + BLOCK_SIZE)
      /\ (end >= size => offset + BLOCK_SIZE >= size)
  BY <1>2 DEF LesserOf
<1>5. b \in BlockType
  BY <1>2, <1>4 DEF Block, BlockType
<1>6. /\ block' \in Seq(BlockType) /\ Len(block') = i + 1
      /\ \A k \in 1 .. i : block'[k] = block[k]
      /\ block'[i + 1] = b
  BY <1>1, <1>2, <1>5, AppendProperties, LenProperties
<1>7. b = Block(((i + 1) - 1) * BLOCK_SIZE, LesserOf(size, (i + 1) * BLOCK_SIZE))
  BY <1>3
<1>8. ASSUME NEW k \in 1 .. i + 1
      PROVE  /\ block'[k] = Block((k - 1) * BLOCK_SIZE, LesserOf(size, k * BLOCK_SIZE))
             /\ (k - 1) * BLOCK_SIZE < size
  <2>1. CASE k = i + 1
    BY <1>2, <1>3, <1>6, <1>7, <2>1
  <2>2. CASE k \in 1 .. i
    BY <1>1, <1>6, <2>2 DEF CtorInv, Cut
  <2> QED
    BY <1>2, <2>1, <2>2
<1> HIDE DEF b, end
<1>9. Cut(i)'
  <2>1. i' = i + 1 /\ i' \in Nat /\ i' <= NumBlocks(size')
    BY <1>1, <1>2
  <2>2. block' \in Seq(BlockType) /\ Len(block') = i'
    BY <1>6, <2>1
  <2>3. ASSUME NEW k \in 1 .. i'
        PROVE  /\ block'[k] = Block((k - 1) * BLOCK_SIZE, LesserOf(size', k * BLOCK_SIZE))
               /\ (k - 1) * BLOCK_SIZE < size'
    BY <1>1, <1>8, <2>1
  <2> QED
    BY <2>1, <2>2, <2>3 DEF Cut
<1>10. Len(block') = i' /\ size' > BLOCK_SIZE /\ size' \in Nat /\ num' = NumBlocks(size')
  BY <1>1, <1>2, <1>6
<1>11. i' * BLOCK_SIZE = offset + BLOCK_SIZE
  BY <1>1, <1>3
<1>12. CASE end >= size
  <2>1. pc' = "done" /\ Len(block') * BLOCK_SIZE >= size'
    BY <1>1, <1>4, <1>10, <1>11, <1>12
  <2>2. Cut(Len(block))'
    BY <1>9, <1>10
  <2> QED
    BY <1>10, <2>1, <2>2 DEF CtorInv
<1>13. CASE ~(end >= size)
  <2>1. pc' = "loop" /\ offset' = i' * BLOCK_SIZE /\ offset' < size'
    BY <1>1, <1>2, <1>4, <1>11, <1>13
  <2> QED
    BY <1>9, <1>10, <2>1 DEF CtorInv
<1> QED
  BY <1>12, <1>13

\* The other steps of the constructor.
LEMMA CtorStep ==
    ASSUME CtorInv, [Next]_vars
    PROVE  CtorInv'
<1>1. CASE OneBlock
  <2>1. pc' = "done" /\ size' = size /\ size <= BLOCK_SIZE /\ block' = Append(<<>>, Block(0, size))
    BY <1>1 DEF OneBlock, CtorInv
  <2>2. block' = <<Block(0, size')>>
    BY <2>1
  <2> QED
    BY <2>1, <2>2 DEF CtorInv
<1>2. CASE StartLoop
  <2>1. /\ pc' = "loop" /\ size' = size /\ size > BLOCK_SIZE /\ num' = NumBlocks(size)
        /\ i' = 0 /\ offset' = 0 /\ block' = <<>> /\ size \in Nat
    BY <1>2 DEF StartLoop, CtorInv
  <2>2. BLOCK_SIZE \in Nat \ {0} /\ NumBlocks(size) \in Nat
    BY <2>1, Numbers
  <2>3. Len(block') = 0 /\ block' \in Seq(BlockType)
    BY <2>1
  <2>4. Cut(i)'
    BY <2>1, <2>2, <2>3 DEF Cut
  <2>5. offset' = i' * BLOCK_SIZE /\ offset' < size'
    BY <2>1, <2>2
  <2> QED
    BY <2>1, <2>4, <2>5 DEF CtorInv
<1>3. CASE Iterate
  BY <1>3, IterateCuts
<1>4. CASE RunOut
  <2>1. /\ pc' = "done" /\ size' = size /\ block' = block /\ i >= num /\ pc = "loop"
    BY <1>4 DEF RunOut
  <2>2. /\ size \in Nat /\ size > BLOCK_SIZE /\ num = NumBlocks(size) /\ Cut(i)
    BY <2>1 DEF CtorInv
  <2>3. Len(block) = i
    BY <2>2 DEF Cut
  <2>4. Cut(Len(block))'
    BY <2>1, <2>2, <2>3 DEF Cut
  <2> QED
    BY <2>1, <2>2, <2>3, <2>4 DEF CtorInv
<1>5. CASE UNCHANGED vars
  BY <1>5 DEF vars, CtorInv, Cut
<1> QED
  BY <1>1, <1>2, <1>3, <1>4, <1>5 DEF Next

\* Only the constructor changes the entry.
LEMMA TableStep ==
    ASSUME [TransferNext]_transferVars
    PROVE  [Next]_vars
BY DEF TransferNext, transferVars, vars, Ctor, SendRsReq, HandleReqResource, HandleReplyResource,
       SaveDone, SaveUnopened, tableVars

\* The invariant of the constructor's loop holds while the blocks are transferred.
THEOREM CtorInvariant == TransferSpec => []CtorInv
<1>1. TransferInit => CtorInv
  BY SizeAssumption DEF TransferInit, Init, CtorInv
<1>2. CtorInv /\ [TransferNext]_transferVars => CtorInv'
  BY TableStep, CtorStep
<1> QED
  BY <1>1, <1>2, PTL DEF TransferSpec
-----------------------------------------------------------------------------
\* The place of each block of a finished entry, one block or several.
LEMMA DoneBlocks ==
    ASSUME CtorInv, pc = "done"
    PROVE  /\ size \in Nat /\ block \in Seq(BlockType) /\ Len(block) \in Nat
           /\ \A k \in 1 .. Len(block) : /\ block[k] \in BlockType
                                         /\ block[k].start = (k - 1) * BLOCK_SIZE
                                         /\ block[k].end # 0 => block[k].start < block[k].end
                                         /\ block[k].end <= k * BLOCK_SIZE
                                         /\ block[k].end <= size
<1>0. size \in Nat /\ BLOCK_SIZE \in Nat \ {0}
  BY Numbers DEF CtorInv
<1>1. CASE size <= BLOCK_SIZE /\ block = <<Block(0, size)>>
  <2>1. Block(0, size) \in BlockType /\ Block(0, size).start = 0 /\ Block(0, size).end = size
    BY <1>0 DEF Block, BlockType
  <2>2. block \in Seq(BlockType) /\ Len(block) = 1 /\ block[1] = Block(0, size)
    BY <1>1, <2>1
  <2>3. (1 - 1) * BLOCK_SIZE = 0 /\ 1 * BLOCK_SIZE = BLOCK_SIZE
    BY <1>0
  <2>4. ASSUME NEW k \in 1 .. Len(block)
        PROVE  k = 1
    BY <2>2
  <2> QED
    BY <1>0, <1>1, <2>1, <2>2, <2>3, <2>4
<1>2. CASE Cut(Len(block))
  <2>1. block \in Seq(BlockType) /\ Len(block) \in Nat
    BY <1>2 DEF Cut
  <2>2. ASSUME NEW k \in 1 .. Len(block)
        PROVE  /\ block[k] \in BlockType
               /\ block[k].start = (k - 1) * BLOCK_SIZE
               /\ block[k].end # 0 => block[k].start < block[k].end
               /\ block[k].end <= k * BLOCK_SIZE
               /\ block[k].end <= size
    <3>1. /\ block[k] = Block((k - 1) * BLOCK_SIZE, LesserOf(size, k * BLOCK_SIZE))
          /\ (k - 1) * BLOCK_SIZE < size
      BY <1>2 DEF Cut
    <3>2. block[k].start = (k - 1) * BLOCK_SIZE /\ block[k].end = LesserOf(size, k * BLOCK_SIZE)
      BY <3>1 DEF Block
    <3>3. block[k] \in BlockType
      BY <2>1
    <3>4. /\ k * BLOCK_SIZE \in Nat /\ (k - 1) * BLOCK_SIZE \in Nat
          /\ (k - 1) * BLOCK_SIZE < k * BLOCK_SIZE
      BY <1>0, <2>1
    <3> QED
      BY <1>0, <3>1, <3>2, <3>3, <3>4 DEF LesserOf
  <2> QED
    BY <1>0, <2>1, <2>2
<1> QED
  BY <1>1, <1>2 DEF CtorInv

\* Two blocks of a finished entry start at different places.
LEMMA StartsDiffer ==
    ASSUME CtorInv, pc = "done", NEW k \in 1 .. Len(block), NEW l \in 1 .. Len(block), k < l
    PROVE  /\ block[k].end <= block[l].start
           /\ block[k].start < block[l].start
<1>1. BLOCK_SIZE \in Nat \ {0} /\ Len(block) \in Nat
  BY DoneBlocks, Numbers
<1>2. k \in Nat \ {0} /\ l \in Nat \ {0} /\ k - 1 \in Nat /\ l - 1 \in Nat /\ k <= l - 1
  BY <1>1
<1>3. k * BLOCK_SIZE <= (l - 1) * BLOCK_SIZE
  BY <1>1, <1>2, MultiplesOrdered
<1>4. (k - 1) * BLOCK_SIZE + BLOCK_SIZE = k * BLOCK_SIZE /\ (k - 1) * BLOCK_SIZE \in Nat
      /\ (l - 1) * BLOCK_SIZE \in Nat /\ k * BLOCK_SIZE \in Nat
  BY <1>1, <1>2
<1>5. /\ block[k].start = (k - 1) * BLOCK_SIZE /\ block[l].start = (l - 1) * BLOCK_SIZE
      /\ block[k].end <= k * BLOCK_SIZE /\ block[k].end \in Nat
  BY DoneBlocks DEF BlockType
<1> QED
  BY <1>1, <1>3, <1>4, <1>5, SMTT(30)

\* The constructor has cut the blocks of the closed form.
LEMMA CutsSplit ==
    ASSUME CtorInv, pc = "done"
    PROVE  Blocks = Split(size)
<1>0. size \in Nat /\ BLOCK_SIZE \in Nat \ {0} /\ NumBlocks(size) \in Nat
  BY Numbers DEF CtorInv
<1>1. CASE size <= BLOCK_SIZE /\ block = <<Block(0, size)>>
  <2>1. Len(block) = 1 /\ block[1] = Block(0, size) /\ 1 .. 1 = {1}
    BY <1>1
  <2>2. Blocks = {Block(0, size)}
    BY <2>1 DEF Blocks
  <2> QED
    BY <1>1, <2>2 DEF Split
<1>2. CASE /\ size > BLOCK_SIZE /\ Cut(Len(block))
           /\ Len(block) >= NumBlocks(size) \/ Len(block) * BLOCK_SIZE >= size
  <2> DEFINE n == Len(block)
             Nth(j) == Block(j * BLOCK_SIZE, LesserOf(size, (j + 1) * BLOCK_SIZE))
             J == {j \in 0 .. NumBlocks(size) - 1 : j * BLOCK_SIZE < size}
  <2>1. n \in Nat /\ n <= NumBlocks(size)
    BY <1>2 DEF Cut
  <2>2. Split(size) = {Nth(j) : j \in J}
    BY <1>0, <1>2 DEF Split
  <2>3. ASSUME NEW k \in 1 .. n
        PROVE  k - 1 \in J /\ block[k] = Nth(k - 1)
    <3>1. /\ block[k] = Block((k - 1) * BLOCK_SIZE, LesserOf(size, k * BLOCK_SIZE))
          /\ (k - 1) * BLOCK_SIZE < size
      BY <1>2 DEF Cut
    <3>2. k - 1 \in 0 .. NumBlocks(size) - 1 /\ (k - 1) + 1 = k
      BY <1>0, <2>1
    <3> QED
      BY <3>1, <3>2
  <2>4. ASSUME NEW j \in J
        PROVE  j + 1 \in 1 .. n
    <3>1. j \in Nat /\ j < NumBlocks(size) /\ j * BLOCK_SIZE < size
      BY <1>0
    <3>2. CASE n * BLOCK_SIZE >= size
      <4>1. CASE n <= j
        <5>1. n * BLOCK_SIZE <= j * BLOCK_SIZE
          BY <1>0, <2>1, <3>1, <4>1, MultiplesOrdered
        <5>2. n * BLOCK_SIZE \in Nat /\ j * BLOCK_SIZE \in Nat
          BY <1>0, <2>1, <3>1
        <5> QED
          BY <1>0, <3>1, <3>2, <5>1, <5>2
      <4> QED
        BY <2>1, <3>1, <4>1
    <3>3. CASE n >= NumBlocks(size)
      BY <1>0, <2>1, <3>1, <3>3
    <3> QED
      BY <1>2, <3>2, <3>3
  <2>5. ASSUME NEW j \in J
        PROVE  \E k \in 1 .. n : Nth(j) = block[k]
    <3>1. j + 1 \in 1 .. n /\ (j + 1) - 1 = j
      BY <1>0, <2>4
    <3>2. block[j + 1] = Nth((j + 1) - 1)
      BY <2>3, <3>1
    <3> QED
      BY <3>1, <3>2
  <2> HIDE DEF n, Nth, J
  <2>6. {block[k] : k \in 1 .. n} = {Nth(j) : j \in J}
    BY <2>3, <2>5
  <2> QED
    BY <2>2, <2>6 DEF Blocks, n
<1> QED
  BY <1>1, <1>2 DEF CtorInv

\* The loop of the constructor computes the closed form of the cut, block by
\* block, for every size, also one whose block count overflows.
THEOREM LoopCorrect == TransferSpec => []LoopComputesSplit
<1>1. ASSUME CtorInv, pc = "done"
      PROVE  {block[k] : k \in 1 .. Len(block)} = Split(size) /\ Cardinality(Split(size)) = Len(block)
  <2>1. Blocks = Split(size)
    BY <1>1, CutsSplit
  <2>2. Len(block) \in Nat /\ block \in Seq(BlockType)
    BY <1>1, DoneBlocks
  <2>3. \A k, l \in 1 .. Len(block) : k # l => block[k] # block[l]
    <3>1. ASSUME NEW k \in 1 .. Len(block), NEW l \in 1 .. Len(block), k < l
          PROVE  block[k] # block[l]
      <4>1. block[k].start < block[l].start
        BY <1>1, <3>1, StartsDiffer
      <4>2. block[k].start \in Nat
        BY <1>1, DoneBlocks DEF BlockType
      <4> QED
        BY <4>1, <4>2
    <3> QED
      BY <2>2, <3>1
  <2>4. block \in [1 .. Len(block) -> Blocks]
    BY <2>2 DEF Blocks
  <2>5. \A b \in Blocks : \E k \in 1 .. Len(block) : block[k] = b
    BY DEF Blocks
  <2>6. block \in Bijection(1 .. Len(block), Blocks)
    BY <2>3, <2>4, <2>5, Fun_IsBij
  <2>7. ExistsBijection(1 .. Len(block), Blocks)
    BY <2>6 DEF ExistsBijection
  <2>8. Cardinality(Blocks) = Len(block)
    BY <2>2, <2>7, FS_CountingElements
  <2> QED
    BY <2>1, <2>8 DEF Blocks
<1>2. CtorInv => LoopComputesSplit
  BY <1>1 DEF LoopComputesSplit
<1> QED
  BY <1>2, CtorInvariant, PTL

\* The blocks of a file below 4 GiB hold each of its offsets once: 2^32 is a
\* multiple of SIZE_1KByte, so the block count of such a file does not overflow.
THEOREM BlocksTile ==
    ASSUME KByte > 1, NEW m \in Nat, UintMod = m * KByte
    PROVE  TransferSpec => []BlocksTileFile
<1>1. ASSUME CtorInv, pc = "done", size < UintMod, NEW o \in 0 .. size - 1
      PROVE  Cardinality({k \in 1 .. Len(block) : o \in Offsets(k)}) = 1
  <2>1. size \in Nat /\ o \in Nat /\ o < size /\ Len(block) \in Nat
    BY <1>1, DoneBlocks
  <2>2. CountFits(size)
    BY <1>1, <2>1, SmallFileFits
  <2>3. PICK b \in Split(size) : b.start <= o /\ o < b.end
    BY <2>1, <2>2, SplitCovers
  <2>4. PICK k \in 1 .. Len(block) : b = block[k]
    BY <1>1, CutsSplit DEF Blocks
  <2>5. ASSUME NEW l \in 1 .. Len(block)
        PROVE  o \in Offsets(l) <=> block[l].start <= o /\ o < block[l].end
    <3>1. block[l] \in BlockType
      BY <1>1, DoneBlocks
    <3> QED
      BY <2>1, <3>1 DEF Offsets, BlockType
  <2>6. ASSUME NEW l \in 1 .. Len(block), o \in Offsets(l)
        PROVE  l = k
    <3>1. block[l].start <= o /\ o < block[l].end /\ block[k].start <= o /\ o < block[k].end
      BY <2>3, <2>4, <2>5, <2>6
    <3>2. block[l] \in BlockType /\ block[k] \in BlockType
      BY <1>1, DoneBlocks
    <3>3. ~(l < k) /\ ~(k < l)
      BY <1>1, <2>1, <3>1, <3>2, StartsDiffer DEF BlockType
    <3> QED
      BY <2>1, <3>3
  <2>7. {l \in 1 .. Len(block) : o \in Offsets(l)} = {k}
    BY <2>3, <2>4, <2>5, <2>6
  <2> QED
    BY <2>7, FS_Singleton
<1>2. CtorInv => BlocksTileFile
  BY <1>1 DEF BlocksTileFile
<1> QED
  BY <1>2, CtorInvariant, PTL
-----------------------------------------------------------------------------
\* The blocks that are asked for, and their requests as they are sent.
Asked == {b \in Blocks : b.start < b.end}
Request(b) == RangeToString(NewRange(b.start, b.end - b.start))

RangeType == [start_pos : Nat, size : Nat]

\* A reply: n bytes of a file, read at a, under the header that says so.
Reply == {[content_range |-> ContentRangeToString(NewContentRange(a, n, t, l)),
           data |-> Bytes(f, a, n)] :
             f \in File, a \in Nat, n \in 0 .. ONCE_MAX_READ_SIZE, t \in Nat, l \in BOOLEAN}

\* Nothing is under way before the entry is built; then only its blocks are
\* asked for, and a reader that answers a request has the range of one of them.
RequestInv ==
    /\ pc # "done" => /\ todo = {} /\ reqs = <<>> /\ replies = <<>>
                      /\ rd = NotReading /\ wr = NotWriting
    /\ todo \subseteq Blocks
    /\ todo # {} => Transferred
    /\ reqs \in Seq({Request(b) : b \in Asked})
    /\ replies \in Seq(Reply)
    /\ (reqs # <<>> \/ rd.pc # "idle") => Transferred
    /\ wr.pc # "idle" => replies # <<>>

\* The reader: its position is as far from the start of the range as the bytes
\* it has put into its buffer, and its end lies within the range.
ReaderInv ==
    /\ fsize \in [File -> Nat] /\ path \in File \cup {NoFile}
    /\ rd \in [pc : {"idle", "open", "loop", "gone"}, fd : File \cup {NoFile}, range : RangeType,
               monitored : BOOLEAN, curpos : Nat, end : Nat, ret_len : Nat]
    /\ Reading => rd.fd \in File /\ rd.curpos = rd.range.start_pos + rd.ret_len
    /\ rd.pc = "open" => rd.ret_len = 0
    /\ rd.pc = "loop" => /\ rd.end <= rd.range.start_pos + rd.range.size
                         /\ rd.ret_len <= rd.range.size
    /\ (Reading /\ rd.monitored) =>
           \E b \in Asked : rd.range = NewRange(b.start, b.end - b.start)

TransferInv == CtorInv /\ RequestInv /\ ReaderInv

\* A block that is asked for is a range within the file.
LEMMA AskedBlock ==
    ASSUME CtorInv, pc = "done", NEW b \in Asked
    PROVE  /\ b \in BlockType /\ b.start < b.end /\ b.end <= size /\ size \in Nat
           /\ b.end - b.start \in Nat \ {0} /\ b.end - b.start <= BLOCK_SIZE
           /\ BLOCK_SIZE \in Nat
<1>1. PICK k \in 1 .. Len(block) : b = block[k]
  BY DEF Asked, Blocks
<1>2. /\ b \in BlockType /\ b.start = (k - 1) * BLOCK_SIZE /\ b.end <= k * BLOCK_SIZE
      /\ b.end <= size /\ size \in Nat /\ Len(block) \in Nat
  BY <1>1, DoneBlocks
<1>3. b.start < b.end
  BY DEF Asked
<1>4. BLOCK_SIZE \in Nat
  BY <1>2, Numbers
<1>5. (k - 1) * BLOCK_SIZE + BLOCK_SIZE = k * BLOCK_SIZE
  BY <1>2, <1>4
<1> QED
  BY <1>2, <1>3, <1>4, <1>5 DEF BlockType

\* The header of a request carries its range: the block that is asked for.
LEMMA RequestDecodes ==
    ASSUME NEW b \in BlockType, b.start < b.end
    PROVE  /\ RangeFromString(Request(b)) = NewRange(b.start, b.end - b.start)
           /\ NewRange(b.start, b.end - b.start) \in RangeType
<1>1. b.start \in Nat /\ b.end \in Nat /\ b.end - b.start # 0 /\ b.end - b.start \in Nat
      /\ b.start + (b.end - b.start) = b.end
  BY DEF BlockType
<1>2. NewRange(b.start, b.end - b.start).start_pos = b.start
      /\ NewRange(b.start, b.end - b.start).size = b.end - b.start
  BY DEF NewRange
<1>3. Request(b) = <<b.start, b.end>>
  BY <1>1, <1>2 DEF Request, RangeToString
<1>4. Len(<<b.start, b.end>>) = 2 /\ <<b.start, b.end>>[1] = b.start /\ <<b.start, b.end>>[2] = b.end
  OBVIOUS
<1>5. RangeFromString(Request(b)) = NewRange(b.start, b.end - b.start)
  BY <1>3, <1>4 DEF RangeFromString
<1>6. NewRange(b.start, b.end - b.start) \in RangeType
  BY <1>1 DEF NewRange, RangeType
<1> QED
  BY <1>5, <1>6

\* The elements of a header value.
LEMMA FourElements ==
    ASSUME NEW x, NEW y, NEW z, NEW w
    PROVE  <<x, y, z, w>>[1] = x /\ <<x, y, z, w>>[2] = y
OBVIOUS

\* The content-range of a reply carries a place and a length.
LEMMA HeaderDecodes ==
    ASSUME NEW a \in Nat, NEW n \in Nat, NEW t, NEW l
    PROVE  /\ ContentRangeFromString(ContentRangeToString(NewContentRange(a, n, t, l))).start_pos = a
           /\ ContentRangeFromString(ContentRangeToString(NewContentRange(a, n, t, l))).size = n
<1>0. PICK s : s = ContentRangeToString(NewContentRange(a, n, t, l))
  OBVIOUS
<1>1. s = <<a, a + n, t, l>>
  BY <1>0, Zenon DEF ContentRangeToString, NewContentRange
<1>2. PICK w : w = <<a, a + n, t, l>>
  OBVIOUS
<1>3. w[1] = a /\ w[2] = a + n
  BY <1>2, FourElements
<1>4. s[1] = a /\ s[2] = a + n
  BY <1>1, <1>2, <1>3, Zenon
<1>5. ContentRangeFromString(s).start_pos = a /\ ContentRangeFromString(s).size = (a + n) - a
  BY <1>4, Zenon DEF ContentRangeFromString, NewContentRange
<1>6. (a + n) - a = n
  OBVIOUS
<1> QED
  BY <1>0, <1>5, <1>6, Zenon

\* The block that the fetching node reads from a reply is the place of its bytes.
LEMMA ReplyDecodes ==
    ASSUME NEW a \in Nat, NEW n \in Nat, NEW t, NEW l, NEW r,
           r.content_range = ContentRangeToString(NewContentRange(a, n, t, l))
    PROVE  ReplyBlock(r) = Block(a, a + n)
<1>1. /\ ContentRangeFromString(ContentRangeToString(NewContentRange(a, n, t, l))).start_pos = a
      /\ ContentRangeFromString(ContentRangeToString(NewContentRange(a, n, t, l))).size = n
  BY HeaderDecodes
<1>2. ContentRangeFromString(r.content_range).start_pos = a /\ ContentRangeFromString(r.content_range).size = n
  BY <1>1, Zenon
<1> QED
  BY <1>2, Zenon DEF ReplyBlock

\* The bytes of one read and their header are a reply.
LEMMA ReplyIntro ==
    ASSUME NEW f \in File, NEW a \in Nat, NEW n \in 0 .. ONCE_MAX_READ_SIZE, NEW t \in Nat,
           NEW l \in BOOLEAN
    PROVE  [content_range |-> ContentRangeToString(NewContentRange(a, n, t, l)),
            data |-> Bytes(f, a, n)] \in Reply
BY DEF Reply

\* What one round of the reading loop keeps.
LEMMA ReadKeeps ==
    ASSUME TransferInv, pc = "done", Transferred, InReadLoop, NEW n \in Nat, n <= ExpectedRead,
           ReadReturns(n), UNCHANGED <<tableVars, todo, reqs, saved>>
    PROVE  RequestInv' /\ ReaderInv'
<1>1. /\ rd.pc = "loop" /\ rd.curpos < rd.end
      /\ rd' = [rd EXCEPT !.curpos = rd.curpos + n, !.ret_len = rd.ret_len + n]
      /\ path' = path /\ fsize' = fsize
  BY DEF InReadLoop, ReadReturns
<1>2. /\ fsize \in [File -> Nat] /\ path \in File \cup {NoFile}
      /\ rd \in [pc : {"idle", "open", "loop", "gone"}, fd : File \cup {NoFile}, range : RangeType,
                 monitored : BOOLEAN, curpos : Nat, end : Nat, ret_len : Nat]
      /\ rd.fd \in File /\ rd.curpos = rd.range.start_pos + rd.ret_len
      /\ rd.end <= rd.range.start_pos + rd.range.size /\ rd.ret_len <= rd.range.size
  BY <1>1 DEF TransferInv, ReaderInv, Reading
<1>3. /\ rd.range \in RangeType /\ rd.curpos \in Nat /\ rd.end \in Nat /\ rd.ret_len \in Nat
      /\ rd.range.start_pos \in Nat /\ rd.range.size \in Nat
  BY <1>2 DEF RangeType
<1>4. BLOCK_SIZE \in Nat
  BY Numbers DEF TransferInv, CtorInv
<1>5. rd.curpos + n <= rd.end
  BY <1>1, <1>3, <1>4 DEF ExpectedRead, LesserOf, ONCE_MAX_READ_SIZE
<1>6. /\ rd'.pc = "loop" /\ rd'.fd = rd.fd /\ rd'.range = rd.range /\ rd'.monitored = rd.monitored
      /\ rd'.curpos = rd.curpos + n /\ rd'.end = rd.end /\ rd'.ret_len = rd.ret_len + n
  BY <1>1, <1>2
<1>7. rd' \in [pc : {"idle", "open", "loop", "gone"}, fd : File \cup {NoFile}, range : RangeType,
               monitored : BOOLEAN, curpos : Nat, end : Nat, ret_len : Nat]
  <2>1. rd.curpos + n \in Nat /\ rd.ret_len + n \in Nat
    BY <1>3
  <2> QED
    BY <1>1, <1>2, <2>1
<1>8. /\ rd'.curpos = rd'.range.start_pos + rd'.ret_len
      /\ rd'.end <= rd'.range.start_pos + rd'.range.size /\ rd'.ret_len <= rd'.range.size
  BY <1>2, <1>3, <1>5, <1>6
<1>9. block' = block /\ pc' = pc /\ size' = size /\ todo' = todo /\ reqs' = reqs
  BY DEF tableVars
<1>10. Asked' = Asked /\ Blocks' = Blocks
  BY <1>9 DEF Asked, Blocks
<1>11. rd'.monitored => \E b \in Asked : rd'.range = NewRange(b.start, b.end - b.start)
  BY <1>1, <1>6 DEF TransferInv, ReaderInv, Reading
<1>12. ReaderInv'
  BY <1>1, <1>2, <1>6, <1>7, <1>8, <1>10, <1>11 DEF ReaderInv, Reading
<1>13. replies' \in Seq(Reply)
  <2>0. replies \in Seq(Reply)
    BY DEF TransferInv, RequestInv
  <2>1. PICK d : d = Bytes(rd.fd, rd.curpos, n)
    OBVIOUS
  <2>2. d \in Seq(File \X Nat) /\ Len(d) = n
    BY <1>2, <1>3, <2>1, SMTT(30) DEF Bytes
  <2>3. Monitor(rd.curpos, d) \in Reply
    <3>1. fsize[rd.fd] \in Nat
      BY <1>2
    <3>2. PICK l \in BOOLEAN : l = (rd.range.start_pos + rd.range.size = rd.curpos + Len(d))
      BY Zenon
    <3>3. Monitor(rd.curpos, d) =
             [content_range |-> ContentRangeToString(NewContentRange(rd.curpos, n, fsize[rd.fd], l)),
              data |-> Bytes(rd.fd, rd.curpos, n)]
      BY <2>1, <2>2, <3>2, Zenon DEF Monitor
    <3>4. rd.fd \in File /\ rd.curpos \in Nat /\ n \in 0 .. ONCE_MAX_READ_SIZE
      BY <1>2, <1>3, <1>4 DEF ExpectedRead, LesserOf, ONCE_MAX_READ_SIZE
    <3> QED
      BY <3>1, <3>2, <3>3, <3>4, ReplyIntro, ZenonT(60)
  <2>4. replies' = IF rd.monitored THEN Append(replies, Monitor(rd.curpos, d)) ELSE replies
    BY <2>1 DEF ReadReturns
  <2> QED
    BY <2>0, <2>3, <2>4
<1>14. wr'.pc # "idle" => replies' # <<>>
  <2>1. wr' = wr /\ (replies' = replies \/ \E r : replies' = Append(replies, r))
    BY DEF ReadReturns
  <2>2. replies \in Seq(Reply) /\ (wr.pc # "idle" => replies # <<>>)
    BY DEF TransferInv, RequestInv
  <2>3. ASSUME NEW r, replies' = Append(replies, r)
        PROVE  replies' # <<>>
    BY <2>2, <2>3
  <2> QED
    BY <2>1, <2>2, <2>3
<1>15. RequestInv'
  BY <1>9, <1>10, <1>13, <1>14 DEF TransferInv, RequestInv, Transferred, Request
<1> QED
  BY <1>12, <1>15

\* The initial states.
LEMMA TransferInitInv == TransferInit => TransferInv
<1> SUFFICES ASSUME TransferInit PROVE TransferInv
  OBVIOUS
<1>1. /\ pc = "start" /\ block = <<>> /\ i = 0 /\ offset = 0 /\ size \in Nat
      /\ todo = {} /\ reqs = <<>> /\ replies = <<>> /\ rd = NotReading /\ wr = NotWriting
  BY SizeAssumption DEF TransferInit, Init, IoInit
<1>2. CtorInv
  BY <1>1 DEF CtorInv
<1>3. path \in File /\ fsize \in [File -> Nat]
  BY FileAssumption, FileSizesAssumption DEF TransferInit, IoInit
<1>4. RequestInv
  BY <1>1 DEF RequestInv, NotReading, NotWriting
<1>5. ReaderInv
  BY <1>1, <1>3 DEF ReaderInv, Reading, NotReading, RangeType
<1> QED
  BY <1>2, <1>4, <1>5 DEF TransferInv

\* A block whose end is not 0 is not empty: it may be asked for.
LEMMA TodoAsked ==
    ASSUME CtorInv, pc = "done", NEW b \in Blocks, b.end # 0
    PROVE  b \in Asked
BY DoneBlocks DEF Asked, Blocks

\* A reader that has stopped, in either way.
LEMMA ReaderStops ==
    ASSUME fsize' \in [File -> Nat], path' \in File \cup {NoFile},
           rd' = NotReading \/ rd' = ReaderGone
    PROVE  ReaderInv'
<1>1. /\ rd'.pc \in {"idle", "gone"} /\ rd'.fd = NoFile /\ rd'.ret_len = 0
      /\ rd' \in [pc : {"idle", "open", "loop", "gone"}, fd : File \cup {NoFile}, range : RangeType,
                  monitored : BOOLEAN, curpos : Nat, end : Nat, ret_len : Nat]
  <2>1. CASE rd' = NotReading
    BY <2>1 DEF NotReading, RangeType
  <2>2. CASE rd' = ReaderGone
    BY <2>2 DEF NotReading, ReaderGone, RangeType
  <2> QED
    BY <2>1, <2>2
<1> QED
  BY <1>1 DEF ReaderInv, Reading

\* readSize starts, on behalf of a request or of a scan.
LEMMA ReadStarts ==
    ASSUME ReaderInv, NEW range \in RangeType, NEW m \in BOOLEAN, ReadSize(range, m),
           UNCHANGED <<path, fsize, block>>,
           m => \E b \in Asked : range = NewRange(b.start, b.end - b.start)
    PROVE  ReaderInv'
<1>1. fsize' \in [File -> Nat] /\ path' \in File \cup {NoFile} /\ path' = path
  BY DEF ReaderInv, Reading
<1>2. Asked' = Asked
  BY DEF Asked, Blocks
<1>3. CASE path = NoFile
  <2>1. rd' = NotReading
    BY <1>3 DEF ReadSize
  <2> QED
    BY <1>1, <2>1, ReaderStops
<1>4. CASE path # NoFile
  <2>1. rd' = [NotReading EXCEPT !.pc = "open", !.fd = path, !.range = range,
                                 !.monitored = m, !.curpos = range.start_pos]
    BY <1>4 DEF ReadSize
  <2>2. rd' = [pc |-> "open", fd |-> path, range |-> range, monitored |-> m,
               curpos |-> range.start_pos, end |-> 0, ret_len |-> 0]
    BY <2>1, Zenon DEF NotReading
  <2>3. range.start_pos \in Nat /\ path \in File
    BY <1>1, <1>4 DEF RangeType
  <2>4. rd' \in [pc : {"idle", "open", "loop", "gone"}, fd : File \cup {NoFile}, range : RangeType,
                 monitored : BOOLEAN, curpos : Nat, end : Nat, ret_len : Nat]
    BY <2>2, <2>3
  <2>5. /\ rd'.pc = "open" /\ rd'.fd = path /\ rd'.range = range /\ rd'.monitored = m
        /\ rd'.curpos = range.start_pos /\ rd'.ret_len = 0
    BY <2>2
  <2>6. rd'.curpos = rd'.range.start_pos + rd'.ret_len
    BY <2>3, <2>5
  <2> QED
    BY <1>1, <1>2, <2>3, <2>4, <2>5, <2>6 DEF ReaderInv, Reading
<1> QED
  BY <1>3, <1>4

\* The end of the reading loop is set.
LEMMA FileSizeKeeps ==
    ASSUME ReaderInv, FileSize, UNCHANGED block
    PROVE  ReaderInv'
<1>1. fsize' \in [File -> Nat] /\ path' \in File \cup {NoFile} /\ path' = path /\ rd.pc = "open"
  BY DEF ReaderInv, Reading, FileSize
<1>2. Asked' = Asked
  BY DEF Asked, Blocks
<1>3. CASE path = NoFile
  <2>1. rd' = NotReading \/ rd' = ReaderGone
    BY <1>3 DEF FileSize
  <2> QED
    BY <1>1, <2>1, ReaderStops
<1>4. CASE path # NoFile
  <2>1. PICK e : e = ReadEnd(rd.range, fsize[path])
    OBVIOUS
  <2>2. rd' = [rd EXCEPT !.pc = "loop", !.end = e]
    BY <1>4, <2>1 DEF FileSize
  <2>3. /\ rd \in [pc : {"idle", "open", "loop", "gone"}, fd : File \cup {NoFile}, range : RangeType,
                   monitored : BOOLEAN, curpos : Nat, end : Nat, ret_len : Nat]
        /\ rd.fd \in File /\ rd.curpos = rd.range.start_pos + rd.ret_len /\ rd.ret_len = 0
        /\ rd.range \in RangeType
        /\ rd.monitored => \E b \in Asked : rd.range = NewRange(b.start, b.end - b.start)
    BY <1>1 DEF ReaderInv, Reading
  <2>4. fsize[path] \in Nat /\ rd.range.start_pos \in Nat /\ rd.range.size \in Nat
    BY <1>1, <1>4, <2>3 DEF ReaderInv, Reading, RangeType
  <2>5. e \in Nat /\ e <= rd.range.start_pos + rd.range.size
    BY <2>1, <2>4 DEF ReadEnd, LesserOf
  <2>6. rd' \in [pc : {"idle", "open", "loop", "gone"}, fd : File \cup {NoFile}, range : RangeType,
                 monitored : BOOLEAN, curpos : Nat, end : Nat, ret_len : Nat]
    BY <2>2, <2>3, <2>5
  <2>7. /\ rd'.pc = "loop" /\ rd'.fd = rd.fd /\ rd'.range = rd.range /\ rd'.monitored = rd.monitored
        /\ rd'.curpos = rd.curpos /\ rd'.ret_len = rd.ret_len /\ rd'.end = e
    BY <2>2, <2>3
  <2> QED
    BY <1>1, <1>2, <2>3, <2>4, <2>5, <2>6, <2>7 DEF ReaderInv, Reading
<1> QED
  BY <1>3, <1>4

\* What the reader sees of a step that is not its own.
LEMMA ReaderUnchanged ==
    ASSUME ReaderInv, UNCHANGED <<path, fsize, rd, block>>
    PROVE  ReaderInv'
BY DEF ReaderInv, Reading, Asked, Blocks

\* A step that leaves the entry, the requests and the replies alone, or drops
\* the first of them.
LEMMA RequestUnchanged ==
    ASSUME RequestInv, pc = "done", UNCHANGED tableVars, todo' \subseteq todo,
           reqs' = reqs \/ (reqs # <<>> /\ reqs' = Tail(reqs)),
           replies' = replies \/ (replies # <<>> /\ replies' = Tail(replies)),
           rd'.pc # "idle" => Transferred, wr'.pc # "idle" => replies' # <<>>
    PROVE  RequestInv'
<1>1. pc' = pc /\ size' = size /\ block' = block
  BY DEF tableVars
<1>2. Blocks' = Blocks /\ Asked' = Asked /\ Transferred' = Transferred
  BY <1>1 DEF Blocks, Asked, Transferred
<1>3. PICK R : R = {Request(b) : b \in Asked}
  OBVIOUS
<1>4. R = {Request(b) : b \in Asked}'
  BY <1>2, <1>3 DEF Request
<1>5. reqs \in Seq(R) /\ replies \in Seq(Reply)
  BY <1>3 DEF RequestInv
<1>6. reqs' \in Seq(R) /\ replies' \in Seq(Reply)
  <2>1. CASE reqs # <<>> /\ reqs' = Tail(reqs)
    BY <1>5, <2>1, HeadTailProperties
  <2>2. CASE replies # <<>> /\ replies' = Tail(replies)
    BY <1>5, <2>2, HeadTailProperties
  <2>3. reqs' \in Seq(R)
    BY <1>5, <2>1
  <2>4. replies' \in Seq(Reply)
    BY <1>5, <2>2
  <2> QED
    BY <2>3, <2>4
<1>7. (reqs' # <<>> \/ rd'.pc # "idle") => Transferred
  <2>1. reqs' # <<>> => reqs # <<>>
    BY <1>5
  <2> QED
    BY <2>1 DEF RequestInv
<1> QED
  BY <1>1, <1>2, <1>4, <1>6, <1>7 DEF RequestInv

\* No step breaks the invariant.
LEMMA TransferStep == TransferInv /\ [TransferNext]_transferVars => TransferInv'
<1> SUFFICES ASSUME TransferInv, [TransferNext]_transferVars
             PROVE  TransferInv'
  OBVIOUS
<1>1. CtorInv'
  BY TableStep, CtorStep DEF TransferInv
<1> SUFFICES RequestInv' /\ ReaderInv'
  BY <1>1 DEF TransferInv
<1>2. CtorInv /\ RequestInv /\ ReaderInv
  BY DEF TransferInv
<1>3. CASE Ctor
  <2>1. pc # "done"
    BY <1>3 DEF Ctor, Next, OneBlock, StartLoop, Iterate, RunOut
  <2>2. /\ reqs' = <<>> /\ replies' = <<>> /\ rd' = NotReading /\ wr' = NotWriting
        /\ path' = path /\ fsize' = fsize
        /\ todo' = IF pc' = "done" /\ Transferred THEN {block'[k] : k \in 1 .. Len(block')} ELSE {}
    BY <1>2, <1>3, <2>1 DEF RequestInv, Ctor, ioVars
  <2>3. Transferred' = Transferred
    BY <1>3 DEF Ctor, Next, OneBlock, StartLoop, Iterate, RunOut, Transferred
  <2>4. RequestInv'
    <3>1. todo' \subseteq Blocks' /\ (todo' # {} => Transferred) /\ (pc' # "done" => todo' = {})
      BY <2>2 DEF Blocks
    <3>2. rd'.pc = "idle" /\ wr'.pc = "idle"
      BY <2>2 DEF NotReading, NotWriting
    <3>3. reqs' \in Seq({Request(b) : b \in Asked}') /\ replies' \in Seq(Reply)
      BY <2>2
    <3> QED
      BY <2>2, <2>3, <3>1, <3>2, <3>3 DEF RequestInv
  <2>5. ReaderInv'
    BY <1>2, <2>2 DEF ReaderInv, Reading, NotReading, RangeType
  <2> QED
    BY <2>4, <2>5
<1>4. ASSUME NEW b \in Blocks, SendRsReq(b)
      PROVE  RequestInv' /\ ReaderInv'
  <2>1. /\ pc = "done" /\ b \in todo /\ b.end # 0 /\ todo' = todo \ {b}
        /\ reqs' = Append(reqs, Request(b))
    BY <1>4 DEF SendRsReq, Request
  <2>2. /\ size' = size /\ block' = block /\ pc' = pc /\ path' = path /\ fsize' = fsize
        /\ rd' = rd /\ replies' = replies /\ wr' = wr
    BY <1>4 DEF SendRsReq, tableVars, ioVars
  <2>3. Blocks' = Blocks /\ Asked' = Asked /\ Transferred' = Transferred
    BY <2>2 DEF Blocks, Asked, Transferred
  <2>4. PICK R : R = {Request(c) : c \in Asked}
    OBVIOUS
  <2>5. R = {Request(c) : c \in Asked}'
    BY <2>3, <2>4 DEF Request
  <2>6. Request(b) \in R
    BY <1>2, <2>1, <2>4, TodoAsked
  <2>7. reqs \in Seq(R)
    BY <1>2, <2>4 DEF RequestInv
  <2>8. reqs' \in Seq(R)
    BY <2>1, <2>6, <2>7
  <2>9. Transferred
    BY <1>2, <2>1 DEF RequestInv
  <2>10. RequestInv'
    BY <1>2, <2>1, <2>2, <2>3, <2>5, <2>8, <2>9 DEF RequestInv
  <2> QED
    BY <1>2, <2>2, <2>10, ReaderUnchanged
<1>5. CASE HandleReqResource
  <2>1. reqs # <<>> /\ pc = "done" /\ Transferred
    BY <1>2, <1>5 DEF HandleReqResource, RequestInv
  <2>2. /\ UNCHANGED <<tableVars, path, fsize, block>> /\ todo' = todo /\ replies' = replies /\ wr' = wr
        /\ reqs' = Tail(reqs) /\ ReadSize(RangeFromString(Head(reqs)), TRUE)
    BY <1>5 DEF HandleReqResource, tableVars
  <2>3. PICK R : R = {Request(b) : b \in Asked}
    OBVIOUS
  <2>4. reqs \in Seq(R)
    BY <1>2, <2>3 DEF RequestInv
  <2>5. Head(reqs) \in R
    BY <2>1, <2>4
  <2>6. PICK b \in Asked : Head(reqs) = Request(b)
    BY <2>3, <2>5
  <2>7. b \in BlockType /\ b.start < b.end
    BY <1>2, <2>1, AskedBlock
  <2>8. PICK range \in RangeType : /\ range = RangeFromString(Head(reqs))
                                   /\ range = NewRange(b.start, b.end - b.start)
    BY <2>6, <2>7, RequestDecodes
  <2>9. ReadSize(range, TRUE)
    BY <2>2, <2>8
  <2>10. ReaderInv'
    BY <1>2, <2>2, <2>8, <2>9, ReadStarts
  <2>11. wr'.pc # "idle" => replies' # <<>>
    BY <1>2, <2>2 DEF RequestInv
  <2> QED
    BY <1>2, <2>1, <2>2, <2>10, <2>11, RequestUnchanged
<1>6. CASE HandleReplyResource \/ SaveDone \/ SaveUnopened
  <2>1. UNCHANGED <<tableVars, path, fsize, rd, block>> /\ todo' = todo /\ reqs' = reqs
    BY <1>6 DEF HandleReplyResource, SaveDone, SaveUnopened, tableVars
  <2>2. /\ replies # <<>>
        /\ replies' = replies \/ (replies' = Tail(replies) /\ wr' = NotWriting)
    <3>1. CASE HandleReplyResource
      BY <3>1 DEF HandleReplyResource
    <3>2. CASE SaveDone
      BY <1>2, <3>2 DEF SaveDone, BlockSaved, RequestInv
    <3>3. CASE SaveUnopened
      BY <1>2, <3>3 DEF SaveUnopened, BlockSaved, RequestInv
    <3> QED
      BY <1>6, <3>1, <3>2, <3>3
  <2>3. pc = "done" /\ (wr'.pc # "idle" => replies' # <<>>)
    BY <1>2, <2>2 DEF RequestInv, NotWriting
  <2>4. rd'.pc # "idle" => Transferred
    BY <1>2, <2>1 DEF RequestInv
  <2> QED
    BY <1>2, <2>1, <2>2, <2>3, <2>4, RequestUnchanged, ReaderUnchanged
<1>7. ASSUME pc = "done", Transferred, UNCHANGED <<tableVars, todo, reqs, saved>>,
             MdEncodeWithSHA3_512 \/ Server \/ Client \/ Faulty \/ User
      PROVE  RequestInv' /\ ReaderInv'
  <2>0. UNCHANGED tableVars /\ UNCHANGED block /\ todo' = todo /\ reqs' = reqs
    BY <1>7 DEF tableVars
  <2>00. ASSUME replies' = replies, wr' = wr \/ wr.pc # "idle"
         PROVE  RequestInv'
    BY <1>2, <1>7, <2>0, <2>00, RequestUnchanged DEF RequestInv
  <2>1. CASE MdEncodeWithSHA3_512
    <3>0. UNCHANGED <<path, fsize, replies, wr>>
      BY <2>1 DEF MdEncodeWithSHA3_512
    <3>1. CASE path = NoFile
      <4>1. rd' = ReaderGone
        BY <2>1, <3>1 DEF MdEncodeWithSHA3_512, ReadAll
      <4>2. ReaderInv'
        BY <1>2, <3>0, <4>1, ReaderStops DEF ReaderInv
      <4> QED
        BY <2>00, <3>0, <4>2
    <3>2. CASE path # NoFile
      <4>1. PICK range : range = [start_pos |-> 0, size |-> fsize[path]]
        OBVIOUS
      <4>2. ReadSize(range, FALSE)
        BY <2>1, <3>2, <4>1 DEF MdEncodeWithSHA3_512, ReadAll
      <4>3. fsize[path] \in Nat
        BY <1>2, <3>2 DEF ReaderInv
      <4>4. range \in RangeType
        BY <4>1, <4>3 DEF RangeType
      <4>5. ReaderInv'
        BY <1>2, <2>0, <3>0, <4>2, <4>4, ReadStarts
      <4> QED
        BY <2>00, <3>0, <4>5
    <3> QED
      BY <3>1, <3>2
  <2>2. CASE FileSize
    <3>1. replies' = replies /\ wr' = wr
      BY <2>2 DEF FileSize
    <3> QED
      BY <1>2, <2>0, <2>00, <2>2, <3>1, FileSizeKeeps
  <2>3. CASE Read \/ ShortRead
    <3>1. InReadLoop /\ \E n : ReadReturns(n) /\ (n = Available \/ n \in 1 .. Available - 1)
      BY <2>3 DEF Read, ShortRead
    <3>2. PICK n : ReadReturns(n) /\ (n = Available \/ n \in 1 .. Available - 1)
      BY <3>1
    <3>3. rd.curpos \in Nat /\ rd.end \in Nat /\ rd.curpos < rd.end /\ fsize[rd.fd] \in Nat
      BY <1>2, <3>1 DEF ReaderInv, Reading, InReadLoop
    <3>4. BLOCK_SIZE \in Nat
      BY <1>2, Numbers DEF CtorInv
    <3>5. ExpectedRead \in Nat
      BY <3>3, <3>4 DEF ExpectedRead, LesserOf, ONCE_MAX_READ_SIZE
    <3>6. Available \in Nat /\ Available <= ExpectedRead
      BY <3>3, <3>5 DEF Available, LesserOf
    <3>7. n \in Nat /\ n <= ExpectedRead
      BY <3>2, <3>5, <3>6
    <3> QED
      BY <1>7, <3>1, <3>2, <3>7, ReadKeeps
  <2>4. CASE ReadDone
    <3>1. rd' = NotReading /\ UNCHANGED <<path, fsize, replies, wr>>
      BY <2>4 DEF ReadDone
    <3>2. ReaderInv'
      BY <1>2, <3>1, ReaderStops DEF ReaderInv
    <3> QED
      BY <2>00, <3>1, <3>2
  <2>5. CASE User
    <3>1. rd' = rd /\ replies' = replies /\ wr' = wr
      BY <2>5 DEF User, Replaced, Truncated, Removed
    <3>2. fsize' \in [File -> Nat] /\ path' \in File \cup {NoFile}
      BY <1>2, <2>5, FileSizesAssumption DEF User, Replaced, Truncated, Removed, ReaderInv
    <3>3. Asked' = Asked
      BY <2>0 DEF Asked, Blocks
    <3>4. ReaderInv'
      BY <1>2, <3>1, <3>2, <3>3 DEF ReaderInv, Reading
    <3> QED
      BY <2>00, <3>1, <3>4
  <2>6. CASE Write \/ ShortWrite \/ FailedWrite
    <3>1. UNCHANGED <<path, fsize, rd, replies>> /\ wr.pc # "idle"
      BY <2>6 DEF Write, ShortWrite, FailedWrite, WriteReturns, WritesNext
    <3> QED
      BY <1>2, <2>0, <2>00, <3>1, ReaderUnchanged
  <2> QED
    BY <1>7, <2>1, <2>2, <2>3, <2>4, <2>5, <2>6 DEF Server, Client, Faulty
<1>8. CASE UNCHANGED transferVars
  BY <1>2, <1>8 DEF transferVars, RequestInv, ReaderInv, Reading, Asked, Blocks, Transferred, Request
<1> QED
  BY <1>3, <1>4, <1>5, <1>6, <1>7, <1>8 DEF TransferNext

\* The invariant of the transfer.
THEOREM TransferInvariant == TransferSpec => []TransferInv
BY TransferInitInv, TransferStep, PTL DEF TransferSpec

\* readSize stays inside the buffer of range.size bytes that it has allocated,
\* for every range and whatever becomes of the file while it reads.
THEOREM BufferSafe == TransferSpec => []BufferFits
<1>1. ASSUME TransferInv, rd.pc = "loop"
      PROVE  /\ rd.ret_len <= rd.range.size
             /\ rd.curpos < rd.end => rd.ret_len + ExpectedRead <= rd.range.size
  <2>1. /\ rd.curpos = rd.range.start_pos + rd.ret_len /\ rd.ret_len <= rd.range.size
        /\ rd.end <= rd.range.start_pos + rd.range.size
        /\ rd.curpos \in Nat /\ rd.end \in Nat /\ rd.ret_len \in Nat /\ rd.range \in RangeType
    BY <1>1 DEF TransferInv, ReaderInv, Reading
  <2>2. rd.range.start_pos \in Nat /\ rd.range.size \in Nat
    BY <2>1 DEF RangeType
  <2>3. BLOCK_SIZE \in Nat
    BY <1>1, Numbers DEF TransferInv, CtorInv
  <2> QED
    BY <2>1, <2>2, <2>3 DEF ExpectedRead, LesserOf, ONCE_MAX_READ_SIZE
<1>2. TransferInv => BufferFits
  BY <1>1 DEF BufferFits
<1> QED
  BY <1>2, TransferInvariant, PTL
-----------------------------------------------------------------------------
Undisturbed == faults \cap {"truncated", "short_read", "changed"} = {}

\* The replies that the closed form of the transfer predicts.
Predicted == {r \in Reply : \E b \in Blocks : ReplyBlock(r) \in Transfer(b.start, b.end, size)}

\* While nothing disturbs the reads, the path leads to the file of the entry and
\* one read returns a whole block: a block is smaller than ONCE_MAX_READ_SIZE.
UndisturbedInv ==
    Undisturbed =>
        /\ path \in File
        /\ Transferred => fsize[path] = size
        /\ rd.pc # "idle" => rd.fd = path
        /\ (rd.pc = "loop" /\ rd.monitored) =>
               /\ rd.end = rd.range.start_pos + rd.range.size
               /\ rd.ret_len \in {0, rd.range.size}
        /\ replies \in Seq(Predicted)

\* The closed form of the transfer of a block within the file is the block.
LEMMA TransferOfBlock ==
    ASSUME NEW b \in BlockType, b.start < b.end, NEW s \in Nat, b.end <= s
    PROVE  Block(b.start, b.end) \in Transfer(b.start, b.end, s)
<1>1. b.start \in Nat /\ b.end \in Nat /\ b.end - b.start \in Nat \ {0}
      /\ b.start + (b.end - b.start) = b.end
  BY DEF BlockType
<1>2. PICK range : range = RangeFromString(RangeToString(NewRange(b.start, b.end - b.start)))
  OBVIOUS
<1>3. range.start_pos = b.start /\ range.size = b.end - b.start
  <2>1. range = NewRange(b.start, b.end - b.start)
    BY <1>2, RequestDecodes DEF Request
  <2> QED
    BY <2>1 DEF NewRange
<1>4. PICK e : e = IF range.start_pos + range.size < s THEN range.start_pos + range.size ELSE s
  OBVIOUS
<1>5. e = b.end /\ ~(e - range.start_pos <= 0)
  BY <1>1, <1>3, <1>4
<1>6. PICK l \in BOOLEAN : l = (range.size = e - range.start_pos)
  BY Zenon
<1>7. PICK str : str = ContentRangeToString(NewContentRange(range.start_pos, e - range.start_pos, s, l))
  OBVIOUS
<1>8. str \in Serve(range, s)
  BY <1>4, <1>5, <1>6, <1>7, Zenon DEF Serve
<1>9. str = ContentRangeToString(NewContentRange(b.start, b.end - b.start, s, l))
  BY <1>3, <1>5, <1>7, Zenon
<1>10. ContentRangeFromString(str).start_pos = b.start /\ ContentRangeFromString(str).size = b.end - b.start
  <2>1. PICK k \in Nat : k = b.end - b.start
    BY <1>1
  <2>2. /\ ContentRangeFromString(ContentRangeToString(NewContentRange(b.start, k, s, l))).start_pos = b.start
        /\ ContentRangeFromString(ContentRangeToString(NewContentRange(b.start, k, s, l))).size = k
    BY <1>1, HeaderDecodes
  <2> QED
    BY <1>9, <2>1, <2>2, Zenon
<1>11. Block(b.start, b.end) = [start |-> ContentRangeFromString(str).start_pos,
                                end |-> ContentRangeFromString(str).start_pos
                                           + ContentRangeFromString(str).size]
  BY <1>1, <1>10 DEF Block
<1> QED
  BY <1>2, <1>8, <1>11, Zenon DEF Transfer

\* What goes wrong is not forgotten.
LEMMA FaultsGrow ==
    ASSUME [TransferNext]_transferVars
    PROVE  faults \subseteq faults'
BY DEF TransferNext, transferVars, Ctor, SendRsReq, HandleReqResource, HandleReplyResource, SaveDone,
       SaveUnopened, MdEncodeWithSHA3_512, Server, Client, Faulty, User, FileSize, Read, ReadDone, Write,
       ShortRead, ShortWrite, FailedWrite, Replaced, Truncated, Removed, Happens, ioVars

\* An undisturbed round of the reading loop of a request returns the whole block.
LEMMA WholeBlockRead ==
    ASSUME TransferInv, UndisturbedInv, Undisturbed, pc = "done", Transferred, InReadLoop, rd.monitored,
           ReadReturns(Available)
    PROVE  /\ rd'.end = rd'.range.start_pos + rd'.range.size /\ rd'.ret_len = rd'.range.size
           /\ replies' \in Seq(Predicted)
<1>1. /\ rd.pc = "loop" /\ rd.curpos < rd.end
      /\ rd' = [rd EXCEPT !.curpos = rd.curpos + Available, !.ret_len = rd.ret_len + Available]
  BY DEF InReadLoop, ReadReturns
<1>2. /\ rd \in [pc : {"idle", "open", "loop", "gone"}, fd : File \cup {NoFile}, range : RangeType,
                 monitored : BOOLEAN, curpos : Nat, end : Nat, ret_len : Nat]
      /\ rd.fd \in File /\ rd.curpos = rd.range.start_pos + rd.ret_len
      /\ rd.end = rd.range.start_pos + rd.range.size /\ rd.ret_len \in {0, rd.range.size}
      /\ rd.fd = path /\ fsize[path] = size /\ size \in Nat
      /\ rd.curpos \in Nat /\ rd.end \in Nat /\ rd.ret_len \in Nat
  BY <1>1 DEF TransferInv, ReaderInv, Reading, UndisturbedInv, CtorInv
<1>3. PICK b \in Asked : rd.range = NewRange(b.start, b.end - b.start)
  BY <1>1 DEF TransferInv, ReaderInv, Reading
<1>4. /\ b \in BlockType /\ b.start < b.end /\ b.end <= size /\ b \in Blocks
      /\ b.end - b.start <= BLOCK_SIZE /\ BLOCK_SIZE \in Nat
      /\ b.start \in Nat /\ b.end \in Nat
  BY AskedBlock DEF TransferInv, Asked, BlockType
<1>5. rd.range.start_pos = b.start /\ rd.range.size = b.end - b.start
  BY <1>3 DEF NewRange
<1>6. rd.ret_len = 0 /\ rd.curpos = b.start /\ rd.end = b.end
  BY <1>1, <1>2, <1>4, <1>5
<1>7. ExpectedRead = b.end - b.start
  BY <1>4, <1>6 DEF ExpectedRead, LesserOf, ONCE_MAX_READ_SIZE
<1>8. Available = b.end - b.start
  BY <1>2, <1>4, <1>6, <1>7 DEF Available, LesserOf
<1>9. rd'.end = rd.end /\ rd'.range = rd.range /\ rd'.ret_len = rd.ret_len + Available
  BY <1>1, <1>2
<1>10. rd'.end = rd'.range.start_pos + rd'.range.size /\ rd'.ret_len = rd'.range.size
  BY <1>2, <1>4, <1>5, <1>6, <1>8, <1>9
<1>11. replies' \in Seq(Predicted)
  <2>1. PICK n \in Nat : n = b.end - b.start /\ n = Available
    BY <1>4, <1>8
  <2>2. PICK d : d = Bytes(rd.fd, b.start, n)
    OBVIOUS
  <2>3. Len(d) = n
    BY <1>2, <1>4, <2>2 DEF Bytes
  <2>4. PICK l \in BOOLEAN : l = (rd.range.start_pos + rd.range.size = b.start + Len(d))
    BY Zenon
  <2>5. PICK r : r = Monitor(b.start, d)
    OBVIOUS
  <2>6. r = [content_range |-> ContentRangeToString(NewContentRange(b.start, n, fsize[rd.fd], l)),
             data |-> d]
    BY <2>3, <2>4, <2>5, Zenon DEF Monitor
  <2>7. fsize[rd.fd] = size
    BY <1>2
  <2>8. r = [content_range |-> ContentRangeToString(NewContentRange(b.start, n, size, l)),
             data |-> Bytes(rd.fd, b.start, n)]
    BY <2>2, <2>6, <2>7, Zenon
  <2>9. r \in Reply
    <3>1. n \in 0 .. ONCE_MAX_READ_SIZE
      BY <1>4, <2>1 DEF ONCE_MAX_READ_SIZE
    <3> QED
      BY <1>2, <1>4, <2>8, <3>1, ReplyIntro
  <2>10. ReplyBlock(r) = Block(b.start, b.start + n)
    <3>1. r.content_range = ContentRangeToString(NewContentRange(b.start, n, size, l))
      BY <2>8, Zenon
    <3>2. b.start \in Nat /\ n \in Nat
      BY <1>4
    <3> QED
      BY <3>1, <3>2, ReplyDecodes
  <2>11. ReplyBlock(r) = Block(b.start, b.end)
    BY <1>4, <2>1, <2>10
  <2>12. r \in Predicted
    BY <1>2, <1>4, <2>9, <2>11, TransferOfBlock DEF Predicted
  <2>13. replies' = Append(replies, r)
    BY <1>6, <2>1, <2>2, <2>5 DEF ReadReturns
  <2>14. replies \in Seq(Predicted)
    BY DEF UndisturbedInv
  <2> QED
    BY <2>12, <2>13, <2>14
<1> QED
  BY <1>10, <1>11

\* No step breaks the invariant of the undisturbed transfer.
LEMMA UndisturbedStep ==
    ASSUME TransferInv, UndisturbedInv, [TransferNext]_transferVars
    PROVE  UndisturbedInv'
<1> SUFFICES ASSUME Undisturbed'
             PROVE  /\ path' \in File
                    /\ Transferred' => fsize'[path'] = size'
                    /\ rd'.pc # "idle" => rd'.fd = path'
                    /\ (rd'.pc = "loop" /\ rd'.monitored) =>
                           /\ rd'.end = rd'.range.start_pos + rd'.range.size
                           /\ rd'.ret_len \in {0, rd'.range.size}
                    /\ replies' \in Seq(Predicted')
  BY DEF UndisturbedInv
<1>1. Undisturbed
  BY FaultsGrow DEF Undisturbed
<1>2. /\ path \in File
      /\ Transferred => fsize[path] = size
      /\ rd.pc # "idle" => rd.fd = path
      /\ (rd.pc = "loop" /\ rd.monitored) => /\ rd.end = rd.range.start_pos + rd.range.size
                                             /\ rd.ret_len \in {0, rd.range.size}
      /\ replies \in Seq(Predicted)
  BY <1>1 DEF UndisturbedInv
<1>3. CtorInv /\ RequestInv /\ ReaderInv
  BY DEF TransferInv
<1>4. CASE Ctor
  <2>1. pc # "done"
    BY <1>4 DEF Ctor, Next, OneBlock, StartLoop, Iterate, RunOut
  <2>2. replies' = <<>> /\ rd' = NotReading /\ path' = path /\ fsize' = fsize
    BY <1>3, <1>4, <2>1 DEF RequestInv, Ctor, ioVars
  <2>3. size' = size /\ Transferred' = Transferred
    BY <1>4 DEF Ctor, Next, OneBlock, StartLoop, Iterate, RunOut, Transferred
  <2> QED
    BY <1>2, <2>2, <2>3 DEF NotReading
<1>5. ASSUME UNCHANGED <<size, block>>
      PROVE  Predicted' = Predicted /\ Transferred' = Transferred
  BY <1>5 DEF Predicted, Blocks, Transferred
<1>6. CASE (\E b \in Blocks : SendRsReq(b)) \/ HandleReplyResource \/ UNCHANGED transferVars
  <2>1. UNCHANGED <<size, block, path, fsize, rd, replies>>
    BY <1>6 DEF SendRsReq, HandleReplyResource, tableVars, ioVars, transferVars
  <2> QED
    BY <1>2, <1>5, <2>1
<1>7. CASE SaveDone \/ SaveUnopened
  <2>1. UNCHANGED <<size, block, path, fsize, rd>> /\ replies' = Tail(replies)
    BY <1>7 DEF SaveDone, SaveUnopened, BlockSaved, tableVars
  <2>2. replies # <<>>
    BY <1>3, <1>7 DEF SaveDone, SaveUnopened, RequestInv
  <2>3. replies' \in Seq(Predicted)
    BY <1>2, <2>1, <2>2, HeadTailProperties
  <2> QED
    BY <1>2, <1>5, <2>1, <2>3
<1>8. ASSUME NEW range, NEW m \in BOOLEAN, ReadSize(range, m),
             UNCHANGED <<size, block, path, fsize, replies>>
      PROVE  UndisturbedInv'
  <2>1. path # NoFile
    BY <1>2, FileAssumption
  <2>2. rd' = [NotReading EXCEPT !.pc = "open", !.fd = path, !.range = range,
                                 !.monitored = m, !.curpos = range.start_pos]
    BY <1>8, <2>1 DEF ReadSize
  <2>3. rd'.pc = "open" /\ rd'.fd = path
    BY <2>2 DEF NotReading
  <2> QED
    BY <1>2, <1>5, <1>8, <2>3 DEF UndisturbedInv
<1>9. CASE HandleReqResource
  <2>1. ReadSize(RangeFromString(Head(reqs)), TRUE) /\ UNCHANGED <<size, block, path, fsize, replies>>
    BY <1>9 DEF HandleReqResource, tableVars
  <2> QED
    BY <1>8, <2>1 DEF UndisturbedInv
<1>10. ASSUME pc = "done", Transferred, UNCHANGED <<tableVars, todo, reqs, saved>>,
             MdEncodeWithSHA3_512 \/ Server \/ Client \/ Faulty \/ User
      PROVE  UndisturbedInv'
  <2>0. size' = size /\ block' = block
    BY <1>10 DEF tableVars
  <2>1. CASE MdEncodeWithSHA3_512
    <3>1. /\ ReadSize([start_pos |-> 0, size |-> fsize[path]], FALSE)
          /\ UNCHANGED <<size, block, path, fsize, replies>>
      BY <1>2, <2>0, <2>1, FileAssumption DEF MdEncodeWithSHA3_512, ReadAll
    <3> QED
      BY <1>8, <3>1
  <2>2. CASE FileSize
    <3>1. /\ path # NoFile /\ rd.pc = "open" /\ UNCHANGED <<path, fsize, replies>>
          /\ rd' = [rd EXCEPT !.pc = "loop", !.end = ReadEnd(rd.range, fsize[path])]
      BY <1>2, <2>2, FileAssumption DEF FileSize
    <3>2. /\ rd \in [pc : {"idle", "open", "loop", "gone"}, fd : File \cup {NoFile}, range : RangeType,
                     monitored : BOOLEAN, curpos : Nat, end : Nat, ret_len : Nat]
          /\ rd.ret_len = 0 /\ rd.fd = path
      BY <1>2, <1>3, <3>1 DEF ReaderInv, Reading
    <3>3. /\ rd'.fd = rd.fd /\ rd'.range = rd.range /\ rd'.monitored = rd.monitored
          /\ rd'.end = ReadEnd(rd.range, fsize[path]) /\ rd'.ret_len = 0
      BY <3>1, <3>2
    <3>4. ASSUME rd.monitored
          PROVE  rd'.end = rd'.range.start_pos + rd'.range.size
      <4>1. PICK b \in Asked : rd.range = NewRange(b.start, b.end - b.start)
        BY <1>3, <3>1, <3>4 DEF ReaderInv, Reading
      <4>2. b \in BlockType /\ b.end <= size /\ size \in Nat /\ b.start \in Nat /\ b.end \in Nat
        BY <1>3, <1>10, AskedBlock DEF BlockType
      <4>3. rd.range.start_pos = b.start /\ rd.range.size = b.end - b.start
        BY <4>1 DEF NewRange
      <4>4. fsize[path] = size
        BY <1>2, <1>10
      <4> QED
        BY <3>3, <4>2, <4>3, <4>4 DEF ReadEnd, LesserOf
    <3> QED
      BY <1>2, <1>5, <2>0, <3>1, <3>2, <3>3, <3>4 DEF UndisturbedInv
  <2>3. CASE Read
    <3>1. InReadLoop /\ ReadReturns(Available) /\ UNCHANGED <<path, fsize>> /\ rd.pc = "loop"
      BY <2>3 DEF Read, ReadReturns, InReadLoop
    <3>2. rd'.fd = rd.fd /\ rd'.monitored = rd.monitored
      BY <3>1 DEF ReadReturns
    <3>3. CASE rd.monitored
      BY <1>1, <1>2, <1>5, <1>10, <2>0, <3>1, <3>2, <3>3, WholeBlockRead DEF UndisturbedInv
    <3>4. CASE ~rd.monitored
      <4>1. replies' = replies
        BY <3>1, <3>4 DEF ReadReturns
      <4> QED
        BY <1>2, <1>5, <2>0, <3>1, <3>2, <3>4, <4>1 DEF UndisturbedInv
    <3> QED
      BY <3>3, <3>4
  <2>4. CASE ReadDone
    BY <1>2, <1>5, <2>0, <2>4 DEF ReadDone, NotReading, UndisturbedInv
  <2>5. CASE ShortRead \/ User
    BY <2>5 DEF ShortRead, User, Replaced, Truncated, Removed, Happens, Undisturbed
  <2>6. CASE Write \/ ShortWrite \/ FailedWrite
    <3>1. UNCHANGED <<path, fsize, rd, replies>>
      BY <2>6 DEF Write, ShortWrite, FailedWrite, WriteReturns
    <3> QED
      BY <1>2, <1>5, <2>0, <3>1 DEF UndisturbedInv
  <2> QED
    BY <1>10, <2>1, <2>2, <2>3, <2>4, <2>5, <2>6 DEF Server, Client, Faulty
<1> QED
  BY <1>4, <1>6, <1>7, <1>9, <1>10 DEF TransferNext, UndisturbedInv

\* Without a change of the file and without short reads, every reply is one that
\* the closed form Transfer predicts, which module SyncEngine uses for the
\* exchange of a request and its reply.
THEOREM RepliesPredicted == TransferSpec => []RepliesAreTransfer
<1>1. TransferInit => UndisturbedInv
  <2> SUFFICES ASSUME TransferInit PROVE UndisturbedInv
    OBVIOUS
  <2>1. rd = NotReading /\ replies = <<>> /\ path \in File /\ (Transferred => fsize[path] = size)
    BY FileAssumption DEF TransferInit, IoInit
  <2> QED
    BY <2>1 DEF UndisturbedInv, NotReading
<1>2. TransferInv /\ UndisturbedInv /\ [TransferNext]_transferVars => UndisturbedInv'
  BY UndisturbedStep
<1>3. UndisturbedInv => RepliesAreTransfer
  <2> SUFFICES ASSUME UndisturbedInv, Undisturbed, NEW k \in DOMAIN replies
               PROVE  \E b \in Blocks : ReplyBlock(replies[k]) \in Transfer(b.start, b.end, size)
    BY DEF RepliesAreTransfer, Undisturbed
  <2>1. replies \in Seq(Predicted)
    BY DEF UndisturbedInv
  <2>2. replies[k] \in Predicted
    BY <2>1
  <2> QED
    BY <2>2 DEF Predicted
<1> QED
  BY <1>1, <1>2, <1>3, TransferInvariant, PTL DEF TransferSpec
-----------------------------------------------------------------------------
NoLostWrite == faults \cap {"failed_write", "no_open"} = {}

DoneOffsets == UNION {BlockOffsets(b) : b \in saved}
NowOffsets == wr.offset .. wr.curpos - 1

\* The bytes of the fetched file, offset by offset.
LocalExact ==
    \A o \in DOMAIN local :
        /\ local[o] # Hole <=> o \in DoneOffsets \cup NowOffsets
        /\ (o \in DoneOffsets \cup NowOffsets /\ "short_write" \notin faults)
               => \E f \in File : local[o] = <<f, o>>

WriterType == [pc : {"idle", "first", "loop"}, offset : Nat, size : Nat, data : Seq(File \X Nat),
               curpos : Nat, fpos : Nat]

\* The writer saves the first reply: its data are the bytes of one file at the
\* place of its header, and the position of the descriptor is the code's count.
\* One write takes it all, unless it comes back short.
WriterInv ==
    NoLostWrite =>
        /\ wr \in WriterType /\ DOMAIN local = 0 .. MaxOffset
        /\ wr.pc = "idle" => wr = NotWriting
        /\ wr.pc # "idle" =>
               /\ ReplyBlock(Head(replies)) = Block(wr.offset, wr.offset + wr.size)
               /\ wr.size <= ONCE_MAX_READ_SIZE
               /\ \E f \in File : wr.data = Bytes(f, wr.offset, wr.size)
               /\ wr.fpos = wr.curpos /\ wr.offset <= wr.curpos /\ wr.curpos <= wr.offset + wr.size
        /\ wr.pc = "first" => wr.curpos = wr.offset
        /\ (wr.pc = "loop" /\ "short_write" \notin faults) => wr.curpos = wr.offset + wr.size
        /\ LocalExact

\* The bytes of a read.
LEMMA BytesProperties ==
    ASSUME NEW f \in File, NEW a \in Nat, NEW n \in Nat
    PROVE  /\ Bytes(f, a, n) \in Seq(File \X Nat) /\ Len(Bytes(f, a, n)) = n
           /\ \A k \in 1 .. n : Bytes(f, a, n)[k] = <<f, a + k - 1>>
BY DEF Bytes

\* A reply holds the bytes of one file at the place of its header.
LEMMA ReplyFacts ==
    ASSUME NEW r \in Reply
    PROVE  \E f \in File, a \in Nat, n \in Nat : /\ n <= ONCE_MAX_READ_SIZE
                                                 /\ ReplyBlock(r) = Block(a, a + n)
                                                 /\ r.data = Bytes(f, a, n)
<1>1. PICK f \in File, a \in Nat, n \in 0 .. ONCE_MAX_READ_SIZE, t \in Nat, l \in BOOLEAN :
         r = [content_range |-> ContentRangeToString(NewContentRange(a, n, t, l)),
              data |-> Bytes(f, a, n)]
  BY DEF Reply
<1>2. ONCE_MAX_READ_SIZE \in Nat
  BY KByteAssumption DEF ONCE_MAX_READ_SIZE, BLOCK_SIZE
<1>3. n \in Nat /\ n <= ONCE_MAX_READ_SIZE
  BY <1>2
<1>4. ReplyBlock(r) = Block(a, a + n) /\ r.data = Bytes(f, a, n)
  <2>1. n \in Nat
    BY <1>3
  <2>2. /\ r.content_range = ContentRangeToString(NewContentRange(a, n, t, l))
        /\ r.data = Bytes(f, a, n)
    BY <1>1, Zenon
  <2> QED
    BY <2>1, <2>2, ReplyDecodes
<1> QED
  BY <1>3, <1>4

\* One write of n bytes, the whole or the beginning of what is left.
LEMMA WriteKeeps ==
    ASSUME NoLostWrite, WriterInv, WritesNext, NEW n \in Nat, n <= ExpectedWrite, WriteReturns(n),
           UNCHANGED saved,
           \/ n = ExpectedWrite /\ faults' = faults
           \/ "short_write" \in faults'
    PROVE  WriterInv'
<1>1. /\ wr.pc # "idle" /\ wr.pc \in {"first", "loop"}
      /\ wr' = [wr EXCEPT !.pc = "loop", !.curpos = wr.curpos + n, !.fpos = wr.fpos + n]
      /\ local' = [o \in DOMAIN local |->
                      IF o \in wr.fpos .. wr.fpos + n - 1 THEN WrittenByte(o - wr.fpos + 1)
                      ELSE local[o]]
      /\ replies' = replies
  BY DEF WritesNext, WriteReturns
<1>2. /\ wr \in WriterType
      /\ wr.size <= ONCE_MAX_READ_SIZE
      /\ wr.fpos = wr.curpos /\ wr.offset <= wr.curpos /\ wr.curpos <= wr.offset + wr.size
      /\ wr.pc = "first" => wr.curpos = wr.offset
  BY <1>1 DEF WriterInv
<1>20. (wr.pc = "loop" /\ "short_write" \notin faults) => wr.curpos = wr.offset + wr.size
  BY <1>1 DEF WriterInv
<1>21. LocalExact /\ DOMAIN local = 0 .. MaxOffset
  BY <1>1 DEF WriterInv
<1>22. ReplyBlock(Head(replies)) = Block(wr.offset, wr.offset + wr.size)
  BY <1>1 DEF WriterInv
<1>3. /\ wr.offset \in Nat /\ wr.size \in Nat /\ wr.curpos \in Nat /\ wr.fpos \in Nat
      /\ ONCE_MAX_READ_SIZE \in Nat
  <2>1. ONCE_MAX_READ_SIZE \in Nat
    BY KByteAssumption DEF ONCE_MAX_READ_SIZE, BLOCK_SIZE
  <2> QED
    BY <1>2, <2>1 DEF WriterType
<1>4. PICK f \in File : wr.data = Bytes(f, wr.offset, wr.size)
  BY <1>1 DEF WriterInv
<1>5. /\ ExpectedWrite <= wr.offset + wr.size - wr.curpos
      /\ wr.pc = "first" => ExpectedWrite = wr.size
      /\ ExpectedWrite \in Int
  BY <1>1, <1>2, <1>3 DEF ExpectedWrite, LesserOf
<1>6. wr.curpos + n <= wr.offset + wr.size /\ n <= wr.size /\ wr.curpos + n \in Nat
  BY <1>2, <1>3, <1>5
<1>7. /\ wr'.pc = "loop" /\ wr'.offset = wr.offset /\ wr'.size = wr.size /\ wr'.data = wr.data
      /\ wr'.curpos = wr.curpos + n /\ wr'.fpos = wr.fpos + n
  BY <1>1, <1>2 DEF WriterType
<1>8. wr' \in WriterType
  BY <1>1, <1>2, <1>6 DEF WriterType
<1>9. "short_write" \notin faults' => /\ faults' = faults /\ wr.pc = "first" /\ n = wr.size
                                      /\ "short_write" \notin faults
  <2>1. ASSUME "short_write" \notin faults', wr.pc = "loop"
        PROVE  FALSE
    BY <1>3, <1>20, <2>1 DEF WritesNext
  <2> QED
    BY <1>1, <1>5, <2>1
<1>10. DOMAIN local' = 0 .. MaxOffset
  BY <1>1, <1>21
<1>11. LocalExact'
  <2> SUFFICES ASSUME NEW o \in 0 .. MaxOffset
               PROVE  /\ local'[o] # Hole <=> o \in DoneOffsets' \cup NowOffsets'
                      /\ (o \in DoneOffsets' \cup NowOffsets' /\ "short_write" \notin faults')
                            => \E g \in File : local'[o] = <<g, o>>
    BY <1>10 DEF LocalExact
  <2>0. o \in Nat
    BY MaxOffsetAssumption
  <2>1. DoneOffsets' = DoneOffsets
    BY DEF DoneOffsets
  <2>2. /\ o \in NowOffsets' <=> wr.offset <= o /\ o < wr.curpos + n
        /\ o \in NowOffsets <=> wr.offset <= o /\ o < wr.curpos
        /\ o \in wr.fpos .. wr.fpos + n - 1 <=> wr.curpos <= o /\ o < wr.curpos + n
    <3>1. o \in NowOffsets <=> wr.offset <= o /\ o < wr.curpos
      BY <1>3, <2>0 DEF NowOffsets
    <3>2. wr'.offset \in Nat /\ wr'.curpos \in Nat
      BY <1>3, <1>6, <1>7
    <3>3. o \in NowOffsets' <=> wr'.offset <= o /\ o < wr'.curpos
      BY <2>0, <3>2 DEF NowOffsets
    <3>4. o \in wr.fpos .. wr.fpos + n - 1 <=> wr.curpos <= o /\ o < wr.curpos + n
      BY <1>2, <1>3, <2>0
    <3> QED
      BY <1>7, <3>1, <3>3, <3>4
  <2>3. CASE o \in wr.fpos .. wr.fpos + n - 1
    <3>1. PICK k \in 1 .. n : k = o - wr.fpos + 1
      BY <1>2, <1>3, <2>0, <2>3
    <3>2. k \in 1 .. wr.size /\ k <= Len(wr.data)
      <4>0. Len(Bytes(f, wr.offset, wr.size)) = wr.size
        BY <1>3, BytesProperties
      <4>1. Len(wr.data) = wr.size
        BY <1>4, <4>0, Zenon
      <4>2. k \in 1 .. wr.size
        BY <1>3, <1>6
      <4> QED
        BY <1>3, <4>1, <4>2
    <3>3. local'[o] = wr.data[k]
      BY <1>1, <1>21, <2>3, <3>1, <3>2 DEF WrittenByte
    <3>4. local'[o] = <<f, wr.offset + k - 1>>
      <4>1. Bytes(f, wr.offset, wr.size)[k] = <<f, wr.offset + k - 1>>
        BY <1>3, <3>2, BytesProperties, ZenonT(60)
      <4> QED
        BY <1>4, <3>3, <4>1
    <3>5. local'[o] # Hole
      BY <3>4, FileAssumption DEF Hole
    <3>6. o \in NowOffsets'
      BY <1>2, <1>3, <2>0, <2>2, <2>3
    <3>7. "short_write" \notin faults' => local'[o] = <<f, o>>
      BY <1>2, <1>3, <1>9, <2>0, <3>1, <3>4
    <3> QED
      BY <3>5, <3>6, <3>7
  <2>4. CASE o \notin wr.fpos .. wr.fpos + n - 1
    <3>1. local'[o] = local[o]
      BY <1>1, <1>21, <2>4
    <3>2. o \in NowOffsets' <=> o \in NowOffsets
      BY <1>2, <1>3, <2>0, <2>2, <2>4
    <3> QED
      BY <1>9, <1>21, <2>1, <3>1, <3>2 DEF LocalExact
  <2> QED
    BY <2>3, <2>4
<1>12. /\ wr'.size <= ONCE_MAX_READ_SIZE
       /\ wr'.fpos = wr'.curpos /\ wr'.offset <= wr'.curpos /\ wr'.curpos <= wr'.offset + wr'.size
       /\ "short_write" \notin faults' => wr'.curpos = wr'.offset + wr'.size
  BY <1>2, <1>3, <1>6, <1>7, <1>9
<1>13. ReplyBlock(Head(replies))' = Block(wr'.offset, wr'.offset + wr'.size)
  BY <1>1, <1>7, <1>22 DEF ReplyBlock
<1>14. \E g \in File : wr'.data = Bytes(g, wr'.offset, wr'.size)
  BY <1>4, <1>7
<1> QED
  BY <1>7, <1>8, <1>10, <1>11, <1>12, <1>13, <1>14 DEF WriterInv

\* A step that leaves the writer and the reply it saves alone.
LEMMA WriterUnchanged ==
    ASSUME NoLostWrite, WriterInv, faults \subseteq faults', UNCHANGED <<wr, local, saved>>,
           wr.pc # "idle" => Head(replies') = Head(replies)
    PROVE  WriterInv'
<1>1. "short_write" \notin faults' => "short_write" \notin faults
  OBVIOUS
<1>2. LocalExact'
  <2>1. LocalExact
    BY DEF WriterInv
  <2>2. DoneOffsets' = DoneOffsets /\ NowOffsets' = NowOffsets
    BY DEF DoneOffsets, NowOffsets
  <2> QED
    BY <1>1, <2>1, <2>2 DEF LocalExact
<1>3. wr.pc # "idle" => ReplyBlock(Head(replies)) = ReplyBlock(Head(replies'))
  OBVIOUS
<1>4. /\ wr' \in WriterType /\ DOMAIN local' = 0 .. MaxOffset
      /\ wr'.pc = "idle" => wr' = NotWriting
  BY DEF WriterInv
<1>5. wr'.pc # "idle" => ReplyBlock(Head(replies')) = Block(wr'.offset, wr'.offset + wr'.size)
  BY <1>3 DEF WriterInv
<1>6. wr'.pc # "idle" =>
        /\ wr'.size <= ONCE_MAX_READ_SIZE
        /\ \E f \in File : wr'.data = Bytes(f, wr'.offset, wr'.size)
        /\ wr'.fpos = wr'.curpos /\ wr'.offset <= wr'.curpos /\ wr'.curpos <= wr'.offset + wr'.size
  BY DEF WriterInv
<1>7. /\ wr'.pc = "first" => wr'.curpos = wr'.offset
      /\ (wr'.pc = "loop" /\ "short_write" \notin faults') => wr'.curpos = wr'.offset + wr'.size
  BY <1>1 DEF WriterInv
<1> QED
  BY <1>2, <1>4, <1>5, <1>6, <1>7 DEF WriterInv

\* handleReplyResource starts to save the first reply.
LEMMA WriterStarts ==
    ASSUME NoLostWrite, TransferInv, WriterInv, HandleReplyResource
    PROVE  WriterInv'
<1>1. /\ replies # <<>> /\ wr.pc = "idle" /\ UNCHANGED <<replies, local, faults, saved>>
  BY DEF HandleReplyResource, WriteFile
<1>2. PICK r : r = Head(replies)
  OBVIOUS
<1>3. r \in Reply
  BY <1>1, <1>2 DEF TransferInv, RequestInv
<1>4. PICK f \in File, a \in Nat, n \in Nat : /\ n <= ONCE_MAX_READ_SIZE
                                              /\ ReplyBlock(r) = Block(a, a + n)
                                              /\ r.data = Bytes(f, a, n)
  BY <1>3, ReplyFacts
<1>5. ReplyBlock(r).start = a /\ ReplyBlock(r).end - ReplyBlock(r).start = n
  BY <1>4 DEF Block
<1>6. wr' = [pc |-> "first", offset |-> a, size |-> n, data |-> r.data, curpos |-> a, fpos |-> a]
  BY <1>2, <1>5 DEF HandleReplyResource, WriteFile
<1>7. r.data \in Seq(File \X Nat)
  BY <1>4, BytesProperties
<1>8. wr' \in WriterType
  BY <1>6, <1>7 DEF WriterType
<1>9. /\ wr'.pc = "first" /\ wr'.offset = a /\ wr'.size = n /\ wr'.data = r.data
      /\ wr'.curpos = a /\ wr'.fpos = a
  BY <1>6
<1>10. LocalExact'
  <2>1. LocalExact /\ wr = NotWriting /\ DOMAIN local = 0 .. MaxOffset
    BY <1>1 DEF WriterInv
  <2>2. NowOffsets = {} /\ NowOffsets' = {}
    <3>1. NowOffsets = {}
      BY <2>1 DEF NowOffsets, NotWriting
    <3>2. NowOffsets' = wr'.offset .. wr'.curpos - 1
      BY DEF NowOffsets
    <3>3. a .. a - 1 = {}
      OBVIOUS
    <3> QED
      BY <1>9, <3>1, <3>2, <3>3
  <2>3. DoneOffsets' = DoneOffsets
    BY <1>1 DEF DoneOffsets
  <2> QED
    BY <1>1, <2>1, <2>2, <2>3 DEF LocalExact
<1>11. ReplyBlock(Head(replies))' = Block(wr'.offset, wr'.offset + wr'.size)
  BY <1>1, <1>2, <1>4, <1>9 DEF ReplyBlock
<1>12. /\ wr'.size <= ONCE_MAX_READ_SIZE
       /\ \E g \in File : wr'.data = Bytes(g, wr'.offset, wr'.size)
  BY <1>4, <1>9
<1>13. wr'.fpos = wr'.curpos /\ wr'.offset <= wr'.curpos /\ wr'.curpos <= wr'.offset + wr'.size
  BY <1>9
<1>14. DOMAIN local' = 0 .. MaxOffset
  BY <1>1 DEF WriterInv
<1> QED
  BY <1>8, <1>9, <1>10, <1>11, <1>12, <1>13, <1>14 DEF WriterInv

\* The block of the first reply is reported as saved when its last byte is written.
LEMMA WriterEnds ==
    ASSUME NoLostWrite, WriterInv, SaveDone
    PROVE  WriterInv'
<1>1. /\ wr.pc = "loop" /\ ~(wr.curpos >= 0 /\ wr.curpos < wr.offset + wr.size)
      /\ wr' = NotWriting /\ saved' = saved \cup {ReplyBlock(Head(replies))}
      /\ local' = local /\ faults' = faults
  BY DEF SaveDone, BlockSaved, WritesNext
<1>2. /\ wr \in WriterType /\ wr.curpos <= wr.offset + wr.size
      /\ wr.offset \in Nat /\ wr.size \in Nat /\ wr.curpos \in Nat
  BY <1>1 DEF WriterInv, WriterType
<1>3. ReplyBlock(Head(replies)) = Block(wr.offset, wr.offset + wr.size)
  BY <1>1 DEF WriterInv
<1>4. wr.curpos = wr.offset + wr.size
  BY <1>1, <1>2
<1>5. BlockOffsets(ReplyBlock(Head(replies))) = NowOffsets
  <2>1. Block(wr.offset, wr.curpos).start = wr.offset /\ Block(wr.offset, wr.curpos).end = wr.curpos
    BY DEF Block
  <2> QED
    BY <1>3, <1>4, <2>1 DEF BlockOffsets, NowOffsets
<1>6. DoneOffsets' = DoneOffsets \cup NowOffsets
  <2>1. DoneOffsets' = UNION {BlockOffsets(b) : b \in saved'}
    BY DEF DoneOffsets, BlockOffsets
  <2> QED
    BY <1>1, <1>5, <2>1 DEF DoneOffsets
<1>7. NowOffsets' = {}
  <2>1. wr'.offset = 0 /\ wr'.curpos = 0
    BY <1>1 DEF NotWriting
  <2> QED
    BY <2>1 DEF NowOffsets
<1>8. LocalExact'
  <2>1. LocalExact
    BY DEF WriterInv
  <2> QED
    BY <1>1, <1>6, <1>7, <2>1 DEF LocalExact
<1>9. wr' \in WriterType /\ wr'.pc = "idle"
  BY <1>1 DEF NotWriting, WriterType
<1>10. DOMAIN local' = 0 .. MaxOffset
  BY <1>1 DEF WriterInv
<1> QED
  BY <1>1, <1>8, <1>9, <1>10 DEF WriterInv

\* No step breaks the invariant of the writer.
LEMMA WriterStep ==
    ASSUME TransferInv, WriterInv, [TransferNext]_transferVars
    PROVE  WriterInv'
<1> SUFFICES ASSUME NoLostWrite'
             PROVE  WriterInv'
  BY DEF WriterInv
<1>1. faults \subseteq faults'
  BY FaultsGrow
<1>2. NoLostWrite
  BY <1>1 DEF NoLostWrite
<1>3. CASE HandleReplyResource
  BY <1>2, <1>3, WriterStarts
<1>4. CASE SaveDone
  BY <1>2, <1>4, WriterEnds
<1>5. CASE SaveUnopened
  BY <1>5 DEF SaveUnopened, Happens, NoLostWrite
<1>6. CASE FailedWrite
  BY <1>6 DEF FailedWrite, Happens, NoLostWrite
<1>7. ASSUME Write \/ ShortWrite, saved' = saved
      PROVE  WriterInv'
  <2>1. WritesNext
    BY <1>7 DEF Write, ShortWrite
  <2>2. /\ wr \in WriterType /\ wr.curpos <= wr.offset + wr.size
        /\ wr.offset \in Nat /\ wr.size \in Nat /\ wr.curpos \in Nat
    BY <1>2, <2>1 DEF WriterInv, WriterType, WritesNext
  <2>3. ONCE_MAX_READ_SIZE \in Nat
    BY KByteAssumption DEF ONCE_MAX_READ_SIZE, BLOCK_SIZE
  <2>4. ExpectedWrite \in Nat
    BY <2>2, <2>3 DEF ExpectedWrite, LesserOf
  <2>5. CASE Write
    <3>1. WriteReturns(ExpectedWrite) /\ faults' = faults
      BY <2>5 DEF Write
    <3>2. PICK n \in Nat : n = ExpectedWrite /\ WriteReturns(n) /\ n <= ExpectedWrite
      BY <2>4, <3>1
    <3> QED
      BY <1>2, <1>7, <2>1, <3>1, <3>2, WriteKeeps
  <2>6. CASE ShortWrite
    <3>1. PICK n \in 1 .. ExpectedWrite - 1 : WriteReturns(n)
      BY <2>6 DEF ShortWrite
    <3>2. n \in Nat /\ n <= ExpectedWrite
      BY <2>4
    <3>3. "short_write" \in faults'
      BY <2>6 DEF ShortWrite, Happens
    <3> QED
      BY <1>2, <1>7, <2>1, <3>1, <3>2, <3>3, WriteKeeps
  <2> QED
    BY <1>7, <2>5, <2>6
<1>8. ASSUME UNCHANGED <<wr, local, saved>>, replies' = replies \/ \E r : replies' = Append(replies, r)
      PROVE  WriterInv'
  <2>1. replies \in Seq(Reply) /\ (wr.pc # "idle" => replies # <<>>)
    BY DEF TransferInv, RequestInv
  <2>2. wr.pc # "idle" => Head(replies') = Head(replies)
    BY <1>8, <2>1
  <2> QED
    BY <1>1, <1>2, <1>8, <2>2, WriterUnchanged
<1>9. CASE Ctor \/ (\E b \in Blocks : SendRsReq(b)) \/ HandleReqResource \/ UNCHANGED transferVars
  <2>1. UNCHANGED <<wr, local, saved, replies>>
    BY <1>9 DEF Ctor, SendRsReq, HandleReqResource, transferVars, ioVars
  <2> QED
    BY <1>8, <2>1
<1>10. ASSUME UNCHANGED saved, MdEncodeWithSHA3_512 \/ Server \/ ShortRead \/ User
       PROVE  WriterInv'
  <2>1. UNCHANGED <<wr, local>> /\ (replies' = replies \/ \E r : replies' = Append(replies, r))
    BY <1>10 DEF MdEncodeWithSHA3_512, Server, FileSize, Read, ReadDone, ShortRead, ReadReturns,
                 User, Replaced, Truncated, Removed
  <2> QED
    BY <1>8, <1>10, <2>1
<1> QED
  BY <1>3, <1>4, <1>5, <1>6, <1>7, <1>9, <1>10 DEF TransferNext, Client, Faulty

\* What handleReplyResource reports as saved is in the file, and nothing else is,
\* for every size of file, block and buffer, as long as no open or write fails;
\* each offset holds its own byte as long as no write comes back short.
THEOREM SavedExact == TransferSpec => []SavedIsExact
<1>1. TransferInit => WriterInv
  <2> SUFFICES ASSUME TransferInit PROVE WriterInv
    OBVIOUS
  <2>1. wr = NotWriting /\ local = [o \in 0 .. MaxOffset |-> Hole] /\ saved = {}
    BY DEF TransferInit, IoInit
  <2>2. wr \in WriterType /\ wr.pc = "idle" /\ wr.offset = 0 /\ wr.curpos = 0
    BY <2>1 DEF NotWriting, WriterType
  <2>3. DoneOffsets = {} /\ NowOffsets = {}
    BY <2>1, <2>2 DEF DoneOffsets, NowOffsets
  <2>4. LocalExact
    BY <2>1, <2>3 DEF LocalExact
  <2> QED
    BY <2>1, <2>2, <2>4 DEF WriterInv
<1>2. TransferInv /\ WriterInv /\ [TransferNext]_transferVars => WriterInv'
  BY WriterStep
<1>3. WriterInv => SavedIsExact
  BY DEF WriterInv, NoLostWrite, LocalExact, DoneOffsets, NowOffsets, SavedIsExact
<1> QED
  BY <1>1, <1>2, <1>3, TransferInvariant, PTL DEF TransferSpec
=============================================================================
