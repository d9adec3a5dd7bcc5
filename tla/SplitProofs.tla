----------------------------- MODULE SplitProofs ----------------------------
(***************************************************************************)
(* Lemmas about the blocks of a file, for every size, block size and width *)
(* of the counter.                                                         *)
(***************************************************************************)
EXTENDS SyncRs, TLAPS

\* The constructor's blocks are ranges of natural numbers.
LEMMA SplitType ==
    ASSUME NEW s \in Nat
    PROVE  Split(s) \subseteq BlockType
<1>1. BLOCK_SIZE \in Nat
  BY KByteAssumption DEF BLOCK_SIZE
<1>2. ASSUME NEW j \in Nat
      PROVE  /\ j * BLOCK_SIZE \in Nat
             /\ LesserOf(s, (j + 1) * BLOCK_SIZE) \in Nat
  BY <1>1 DEF LesserOf
<1>3. NumBlocks(s) \in Int
  BY KByteAssumption, UintModAssumption DEF NumBlocks
<1>4. Block(0, s) \in BlockType
  BY DEF Block, BlockType
<1>5. ASSUME NEW j \in 0 .. NumBlocks(s) - 1
      PROVE  Block(j * BLOCK_SIZE, LesserOf(s, (j + 1) * BLOCK_SIZE)) \in BlockType
  BY <1>2, <1>3 DEF Block, BlockType
<1> QED
  BY <1>4, <1>5 DEF Split

\* A block of a file lies within the file and is not empty.
LEMMA SplitBlock ==
    ASSUME NEW s \in Nat, s > 0, NEW b \in Split(s)
    PROVE  b \in BlockType /\ b.start < b.end /\ b.end <= s
<1>0. BLOCK_SIZE \in Nat /\ BLOCK_SIZE > 0
  BY KByteAssumption DEF BLOCK_SIZE
<1>1. CASE s <= BLOCK_SIZE
  BY <1>1 DEF Split, Block, BlockType
<1>2. CASE ~(s <= BLOCK_SIZE)
  <2>1. NumBlocks(s) \in Int
    BY KByteAssumption, UintModAssumption DEF NumBlocks
  <2>2. PICK i \in 0 .. NumBlocks(s) - 1 :
           /\ i * BLOCK_SIZE < s
           /\ b = Block(i * BLOCK_SIZE, LesserOf(s, (i + 1) * BLOCK_SIZE))
    BY <1>2 DEF Split
  <2>3. i \in Nat /\ i * BLOCK_SIZE \in Nat /\ (i + 1) * BLOCK_SIZE = i * BLOCK_SIZE + BLOCK_SIZE
    BY <1>0, <2>1, <2>2
  <2> QED
    BY <1>0, <2>2, <2>3 DEF Block, LesserOf, BlockType
<1> QED
  BY <1>1, <1>2

-----------------------------------------------------------------------------
\* Division of naturals.
LEMMA DivBounds ==
    ASSUME NEW s \in Nat, NEW k \in Nat \ {0}
    PROVE  s \div k \in Nat /\ (s \div k) * k <= s /\ s < (s \div k) * k + k
OBVIOUS

\* Multiples of the same number are ordered as their factors.
LEMMA MultiplesOrdered ==
    ASSUME NEW a \in Nat, NEW b \in Nat, NEW k \in Nat \ {0}
    PROVE  /\ a <= b => a * k <= b * k
           /\ a * k < b * k + k => a <= b
           /\ a <= a * k
OBVIOUS

\* The iteration count of the constructor does not overflow its counter.
CountFits(s) == (s \div KByte) * KByte + 1 < UintMod

\* 2^32 is a multiple of 1024: a file below 4 GiB does not overflow the counter.
LEMMA SmallFileFits ==
    ASSUME KByte > 1, NEW m \in Nat, UintMod = m * KByte, NEW s \in Nat, s < UintMod
    PROVE  CountFits(s)
<1> DEFINE d == s \div KByte
<1>1. KByte \in Nat \ {0} /\ KByte > 1
  BY KByteAssumption
<1>2. d \in Nat /\ d * KByte <= s
  BY <1>1, DivBounds
<1> HIDE DEF d
<1>3. d < m
  <2>1. CASE m <= d
    <3>1. m * KByte <= d * KByte
      BY <1>1, <1>2, <2>1, MultiplesOrdered
    <3>2. m * KByte \in Nat /\ d * KByte \in Nat
      BY <1>1, <1>2
    <3> QED
      BY <1>2, <3>1, <3>2
  <2> QED
    BY <1>2, <2>1
<1>4. (d + 1) * KByte <= m * KByte /\ (d + 1) * KByte = d * KByte + KByte /\ d * KByte \in Nat
  BY <1>1, <1>2, <1>3, MultiplesOrdered
<1>5. d * KByte + 1 < UintMod
  BY <1>1, <1>4, UintModAssumption
<1> QED
  BY <1>5 DEF CountFits, d

\* The closed form counts enough iterations: every offset of the file is in one
\* of its blocks, although the count is not size / BLOCK_SIZE rounded up.
LEMMA SplitCovers ==
    ASSUME NEW s \in Nat, CountFits(s), NEW o \in Nat, o < s
    PROVE  \E b \in Split(s) : b.start <= o /\ o < b.end
<1>0. KByte \in Nat \ {0} /\ BLOCK_SIZE \in Nat \ {0}
  BY KByteAssumption DEF BLOCK_SIZE
<1>1. CASE s <= BLOCK_SIZE
  <2>1. Block(0, s) \in Split(s)
    BY <1>1 DEF Split
  <2>2. Block(0, s).start <= o /\ o < Block(0, s).end
    BY DEF Block
  <2> QED
    BY <2>1, <2>2
<1>2. CASE ~(s <= BLOCK_SIZE)
  <2> DEFINE j == o \div BLOCK_SIZE
             d == s \div KByte
  <2>1. j \in Nat /\ j * BLOCK_SIZE <= o /\ o < j * BLOCK_SIZE + BLOCK_SIZE
    BY <1>0, DivBounds
  <2>2. d \in Nat /\ d * KByte <= s /\ s < d * KByte + KByte /\ d * KByte + 1 < UintMod
    BY <1>0, DivBounds DEF CountFits
  <2>3. NumBlocks(s) = d * KByte + 1
    <3>1. d * KByte + 1 \in Nat
      BY <1>0, <2>2
    <3> QED
      BY <2>2, <3>1, UintModAssumption DEF NumBlocks
  <2> HIDE DEF j, d
  <2>4. j <= d * KByte
    <3>1. j * BLOCK_SIZE = (j * KByte) * KByte /\ j * KByte \in Nat
      BY <1>0, <2>1 DEF BLOCK_SIZE
    <3>2. (j * KByte) * KByte < d * KByte + KByte
      BY <1>0, <2>1, <2>2, <3>1
    <3>3. j * KByte <= d
      BY <1>0, <2>2, <3>1, <3>2, MultiplesOrdered
    <3>4. j <= j * KByte /\ d <= d * KByte
      BY <1>0, <2>1, <2>2, MultiplesOrdered
    <3> QED
      BY <1>0, <2>1, <2>2, <3>1, <3>3, <3>4
  <2>5. j \in 0 .. NumBlocks(s) - 1 /\ j * BLOCK_SIZE < s
    BY <1>0, <2>1, <2>2, <2>3, <2>4
  <2> DEFINE b == Block(j * BLOCK_SIZE, LesserOf(s, (j + 1) * BLOCK_SIZE))
  <2>6. b \in Split(s)
    BY <1>2, <2>5 DEF Split
  <2>7. (j + 1) * BLOCK_SIZE = j * BLOCK_SIZE + BLOCK_SIZE
    BY <1>0, <2>1
  <2>8. b.start <= o /\ o < b.end
    BY <1>0, <2>1, <2>7 DEF Block, LesserOf
  <2> QED
    BY <2>6, <2>8
<1> QED
  BY <1>1, <1>2
=============================================================================
