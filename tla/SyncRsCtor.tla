----------------------------- MODULE SyncRsCtor -----------------------------
(***************************************************************************)
(* The constructor of SyncRs, one step per iteration of its loop.          *)
(***************************************************************************)
EXTENDS SyncRs, Sequences, FiniteSets

CONSTANT Size   \* the file sizes the constructor is called with

ASSUME SizeAssumption == Size \subseteq Nat

VARIABLES size, num, i, offset, block, pc

vars == <<size, num, i, offset, block, pc>>

Init ==
    /\ size \in Size
    /\ num = 0 /\ i = 0 /\ offset = 0
    /\ block = <<>>
    /\ pc = "start"

\* size <= BLOCK_SIZE: the whole file is one block.
OneBlock ==
    /\ pc = "start" /\ size <= BLOCK_SIZE
    /\ block' = Append(block, Block(0, size))
    /\ pc' = "done"
    /\ UNCHANGED <<size, num, i, offset>>

StartLoop ==
    /\ pc = "start" /\ size > BLOCK_SIZE
    /\ num' = NumBlocks(size)
    /\ pc' = "loop"
    /\ UNCHANGED <<size, i, offset, block>>

\* Mutant of Iterate: the last block is not cut at the end of the file.
IterateUncut ==
    /\ pc = "loop" /\ i < num
    /\ LET end == offset + BLOCK_SIZE
       IN /\ block' = Append(block, Block(offset, end))
          /\ offset' = end
          /\ pc' = IF end >= size THEN "done" ELSE "loop"
    /\ i' = i + 1
    /\ UNCHANGED <<size, num>>

Iterate ==
    /\ pc = "loop" /\ i < num
    /\ LET end == LesserOf(size, offset + BLOCK_SIZE)
       IN /\ block' = Append(block, Block(offset, end))
          /\ offset' = end
          /\ pc' = IF end >= size THEN "done" ELSE "loop"   \* break
    /\ i' = i + 1
    /\ UNCHANGED <<size, num>>

\* The loop's own condition, i < num, fails before the end of the file.
RunOut ==
    /\ pc = "loop" /\ i >= num
    /\ pc' = "done"
    /\ UNCHANGED <<size, num, i, offset, block>>

Next == OneBlock \/ StartLoop \/ Iterate \/ RunOut

Spec == Init /\ [][Next]_vars
-----------------------------------------------------------------------------
\* The offsets of the file that lie in block k.
Offsets(k) == block[k].start .. block[k].end - 1

\* The constructor returns exactly the blocks of the closed form Split, which
\* the models of the sync table use in its place.
LoopComputesSplit ==
    pc = "done" =>
        /\ {block[k] : k \in 1 .. Len(block)} = Split(size)
        /\ Cardinality(Split(size)) = Len(block)

\* The blocks of the finished entry of a file below 4 GiB (UintMod) hold every
\* offset of the file, each in one block, although the iteration count is not
\* the "round up" of the comment on rs_sync_mamanger.cpp line 22.
BlocksTileFile ==
    (pc = "done" /\ size < UintMod) =>
        \A o \in 0 .. size - 1 :
            Cardinality({k \in 1 .. Len(block) : o \in Offsets(k)}) = 1
=============================================================================
