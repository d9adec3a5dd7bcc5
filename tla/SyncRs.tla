------------------------------- MODULE SyncRs -------------------------------
(***************************************************************************)
(* A resource to fetch is cut into blocks when its SyncRs entry is built.  *)
(* This module holds the blocks and the closed form of the cut; the loop   *)
(* that computes it is the state machine of module SyncRsCtor.             *)
(*                                                                         *)
(* KByte stands for SIZE_1KByte (1024) and UintMod for 2^32, the range of  *)
(* the C++ type uint that counts the blocks.                               *)
(***************************************************************************)
EXTENDS Integers

CONSTANTS KByte,    \* SIZE_1KByte
          UintMod   \* one more than the largest uint

ASSUME KByteAssumption == KByte \in Nat \ {0}
ASSUME UintModAssumption == UintMod \in Nat \ {0}

\* The half-open range of offsets [start, end) of a file.
Block(start, end) == [start |-> start, end |-> end]

BlockType == [start : Nat, end : Nat]

\* What regReqSyncRsAuto returns when it has nothing to hand out.
NoBlock == Block(0, 0)

BLOCK_SIZE == KByte * KByte

\* Mutant: the iteration count is rounded down.
NumBlocksRoundedDown(size) == size \div BLOCK_SIZE

(***************************************************************************)
(* The number of iterations of the constructor's loop.  The macro          *)
(* BLOCK_SIZE is the text 1024 * 1024 without parentheses, so the code's   *)
(* size / BLOCK_SIZE + 1 divides by 1024 and multiplies by 1024 again; the *)
(* result is stored in a uint.                                             *)
(***************************************************************************)
NumBlocks(size) == ((size \div KByte) * KByte + 1) % UintMod

LesserOf(a, b) == IF a < b THEN a ELSE b

\* The blocks of a resource of this size: the i-th iteration cuts the block
\* that starts at i * BLOCK_SIZE and the loop stops at the end of the file.
Split(size) ==
    IF size <= BLOCK_SIZE
    THEN {Block(0, size)}
    ELSE {Block(i * BLOCK_SIZE, LesserOf(size, (i + 1) * BLOCK_SIZE)) :
             i \in {j \in 0 .. NumBlocks(size) - 1 : j * BLOCK_SIZE < size}}
=============================================================================
