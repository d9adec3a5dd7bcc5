--------------------------- MODULE MCBlockTransfer --------------------------
(***************************************************************************)
(* File sizes for the constructor and the transfer.  With KByte = 2 a      *)
(* block holds 4 bytes, one read or write 8, and with UintMod = 32 a size  *)
(* of 32 stands for 2^32 bytes.                                            *)
(***************************************************************************)
EXTENDS BlockTransfer

\* Every size a uint can hold (0, one block exactly, one byte more, ...) and
\* as many past its range.
AnySize == 0 .. 2 * UintMod

\* No byte, one block, two blocks of which one is not full, three blocks and more
\* than one read can return.
TransferSizes == {0, 6, 9}
=============================================================================
