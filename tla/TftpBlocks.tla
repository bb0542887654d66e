----------------------------- MODULE TftpBlocks -----------------------------
(***************************************************************************)
(* The block arithmetic of core/session/mod.rs: how many DATA packets a    *)
(* file takes, which bytes each one carries, the 16-bit number a block     *)
(* has on the wire and the absolute number the server recovers from it.    *)
(* WireMod is 65536 in the program; the instances use small values so that *)
(* the roll-over happens within a few blocks.                              *)
(***************************************************************************)
EXTENDS Integers

CONSTANT WireMod        \* number of values of a u16 block number

ASSUME WireModAssumption == WireMod \in Nat /\ WireMod >= 2

\* (blk & 0xFFFF) as u16
WireBlock(n) == n % WireMod

-----------------------------------------------------------------------------
(***************************************************************************)
(* Files and blocks                                                        *)
(***************************************************************************)

\* Number of DATA packets of a file: an exact multiple of blksize takes one
\* more, empty, block, so that the transfer always ends with a short one.
TotalBlocksOf(size, blksize) ==
  IF size % blksize = 0 THEN size \div blksize + 1
                        ELSE (size + blksize - 1) \div blksize

\* First byte that is not in blocks 1..n
EndOffset(n, size, blksize) ==
  IF n * blksize <= size THEN n * blksize ELSE size

\* Length of the slice get_block_payload returns for block n >= 1
PayloadLen(n, size, blksize) ==
  LET offset == (n - 1) * blksize
      end    == EndOffset(n, size, blksize)
  IN  IF offset < size THEN end - offset ELSE 0

-----------------------------------------------------------------------------
(***************************************************************************)
(* Roll-over                                                               *)
(***************************************************************************)

\* A slip: base itself is taken for a block of the next turn
MutBlockToAbsolute(block, base) ==
  LET candidate == (base \div WireMod) * WireMod + block
  IN  IF candidate <= base THEN candidate + WireMod ELSE candidate

\* block_to_absolute: the smallest number >= base that has this wire number
BlockToAbsolute(block, base) ==
  LET candidate == (base \div WireMod) * WireMod + block
  IN  IF candidate < base THEN candidate + WireMod ELSE candidate

=============================================================================
