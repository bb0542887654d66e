------------------------------ MODULE BlockWalk ------------------------------
(***************************************************************************)
(* A reference for the block arithmetic: a file is walked block by block   *)
(* the way a TFTP receiver sees it, counting the 16-bit number up by one,  *)
(* adding up the payloads, and stopping at the first short block.  The     *)
(* properties compare that walk with the closed forms the server uses.     *)
(***************************************************************************)
EXTENDS TftpBlocks

CONSTANTS MaxSize,      \* bound: largest file
          MaxBlkSize    \* bound: largest block size

ASSUME WalkAssumption == MaxSize \in Nat /\ MaxBlkSize \in Nat

VARIABLES size, blksize,        \* the file and the negotiated block size
          n, wire, sum,         \* blocks received, last block number, bytes
          stopped               \* a short block has been received

vars == <<size, blksize, n, wire, sum, stopped>>

Init ==
  /\ size \in 0 .. MaxSize /\ blksize \in 1 .. MaxBlkSize
  /\ n = 0 /\ wire = 0 /\ sum = 0 /\ stopped = FALSE

Receive ==
  LET len == PayloadLen(n + 1, size, blksize)
  IN  /\ ~stopped
      /\ n' = n + 1
      /\ wire' = IF wire = WireMod - 1 THEN 0 ELSE wire + 1
      /\ sum' = sum + len
      /\ stopped' = (len < blksize)
      /\ UNCHANGED <<size, blksize>>

Next == Receive

Spec == Init /\ [][Next]_vars

-----------------------------------------------------------------------------
Total == TotalBlocksOf(size, blksize)

\* compute_total_blocks and get_block_payload agree on where the file ends:
\* block Total is the first short one, so neither side waits for a block the
\* other does not send, also for an empty file and for exact multiples.
EndsWithShortBlock == IF stopped THEN n = Total ELSE n < Total

\* The payloads of the blocks received add up to EndOffset: the per-ACK sums
\* of the read session telescope and end at the size of the file.
PayloadsAddUp == sum = EndOffset(n, size, blksize) /\ (stopped => sum = size)

\* From its 16-bit number the server recovers the block for every base it may
\* have reached, across roll-overs; a block that precedes base is taken for
\* one a full turn later, and so falls outside every window.
RecoversBlock ==
  \A base \in 1 .. (Total + 1) :
    LET abs == BlockToAbsolute(wire, base)
    IN  /\ base <= n /\ n < base + WireMod => abs = n
        /\ n < base /\ base <= n + WireMod => abs = n + WireMod
=============================================================================
