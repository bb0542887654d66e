-------------------------- MODULE TftpBlocksProofs --------------------------
(***************************************************************************)
(* Facts about the block arithmetic, for every value of WireMod, every     *)
(* file size and every block size.                                         *)
(***************************************************************************)
EXTENDS TftpBlocks, FiniteSetTheorems, TLAPS

-----------------------------------------------------------------------------
(***************************************************************************)
(* Division                                                                *)
(***************************************************************************)

\* The defining equation of div and mod
LEMMA DivMod ==
  ASSUME NEW n \in Nat, NEW d \in Nat, d >= 1
  PROVE  /\ n \div d \in Nat
         /\ n % d \in 0 .. (d - 1)
         /\ n = (n \div d) * d + (n % d)
OBVIOUS

\* The same for the turns of the block numbers
LEMMA WireDivMod ==
  ASSUME NEW n \in Nat
  PROVE  /\ n \div WireMod \in Nat
         /\ n % WireMod \in 0 .. (WireMod - 1)
         /\ n = (n \div WireMod) * WireMod + (n % WireMod)
BY WireModAssumption

\* A smaller factor leaves at least one m less.
LEMMA MulStep ==
  ASSUME NEW p \in Nat, NEW q \in Nat, NEW m \in Nat, p < q
  PROVE  /\ p * m + m <= q * m
         /\ p * m \in Nat /\ q * m \in Nat
<1>1. (q - p - 1) * m >= 0
  OBVIOUS
<1>2. (q - p - 1) * m = q * m - p * m - m
  OBVIOUS
<1> QED BY <1>1, <1>2

-----------------------------------------------------------------------------
(***************************************************************************)
(* Roll-over                                                               *)
(***************************************************************************)

\* block_to_absolute recovers every block number of the WireMod that start
\* at base from its 16-bit form, wherever base stands in its turn.
THEOREM BlockToAbsoluteExact ==
  ASSUME NEW base \in Nat, NEW n \in Nat, base <= n, n < base + WireMod
  PROVE  BlockToAbsolute(WireBlock(n), base) = n
<1> DEFINE q == n \div WireMod  p == base \div WireMod
           r == n % WireMod     s == base % WireMod
<1>1. /\ q \in Nat /\ r \in 0 .. (WireMod - 1) /\ n = q * WireMod + r
      /\ p \in Nat /\ s \in 0 .. (WireMod - 1) /\ base = p * WireMod + s
  BY WireDivMod, WireModAssumption
<1> HIDE DEF q, p, r, s
<1>2. q >= p
  <2>1. SUFFICES ASSUME q < p PROVE FALSE
    BY <1>1
  <2> QED BY <1>1, <2>1, MulStep, WireModAssumption
<1>3. q <= p + 1
  <2>1. SUFFICES ASSUME p + 1 < q PROVE FALSE
    BY <1>1
  <2>2. (p + 1) * WireMod + WireMod <= q * WireMod
    BY <1>1, <2>1, MulStep, WireModAssumption
  <2>3. (p + 1) * WireMod = p * WireMod + WireMod
    BY <1>1, WireModAssumption
  <2> QED BY <1>1, <2>2, <2>3, WireModAssumption
<1>4. p * WireMod \in Nat /\ (p + 1) * WireMod = p * WireMod + WireMod
  BY <1>1, WireModAssumption
<1>5. CASE q = p
  BY <1>1, <1>4, <1>5, WireModAssumption DEF BlockToAbsolute, WireBlock, p, r
<1>6. CASE q = p + 1
  BY <1>1, <1>4, <1>6, WireModAssumption DEF BlockToAbsolute, WireBlock, p, r
<1> QED BY <1>1, <1>2, <1>3, <1>5, <1>6

\* Two blocks less than a turn apart have different numbers on the wire.
LEMMA SameWireSameBlock ==
  ASSUME NEW a \in Nat, NEW b \in Nat, WireBlock(a) = WireBlock(b),
         a < b + WireMod, b < a + WireMod
  PROVE  a = b
<1>1. CASE a <= b
  <2>1. BlockToAbsolute(WireBlock(b), a) = b /\ BlockToAbsolute(WireBlock(a), a) = a
    BY <1>1, BlockToAbsoluteExact, WireModAssumption
  <2> QED BY <2>1
<1>2. CASE b <= a
  <2>1. BlockToAbsolute(WireBlock(a), b) = a /\ BlockToAbsolute(WireBlock(b), b) = b
    BY <1>2, BlockToAbsoluteExact, WireModAssumption
  <2> QED BY <2>1
<1> QED BY <1>1, <1>2

\* A full turn leaves the number on the wire alone.
LEMMA WirePeriod ==
  ASSUME NEW n \in Nat
  PROVE  WireBlock(n + WireMod) = WireBlock(n)
<1> DEFINE q == n \div WireMod  r == n % WireMod
           t == (n + WireMod) \div WireMod  u == (n + WireMod) % WireMod
<1>0. n + WireMod \in Nat
  BY WireModAssumption
<1>1. /\ q \in Nat /\ r \in 0 .. (WireMod - 1) /\ n = q * WireMod + r
      /\ t \in Nat /\ u \in 0 .. (WireMod - 1) /\ n + WireMod = t * WireMod + u
  <2>1. q \in Nat /\ r \in 0 .. (WireMod - 1) /\ n = q * WireMod + r
    BY WireDivMod
  <2>2. t \in Nat /\ u \in 0 .. (WireMod - 1) /\ n + WireMod = t * WireMod + u
    BY <1>0, WireDivMod
  <2> QED BY <2>1, <2>2
<1> HIDE DEF q, r, t, u
<1>2. (q + 1) * WireMod = q * WireMod + WireMod
  BY <1>1, WireModAssumption
<1>3. t = q + 1
  <2>1. CASE t < q + 1
    BY <1>1, <1>2, <2>1, MulStep, WireModAssumption
  <2>2. CASE q + 1 < t
    BY <1>1, <1>2, <2>2, MulStep, WireModAssumption
  <2> QED BY <1>1, <2>1, <2>2
<1>4. u = r
  <2>1. q * WireMod \in Nat /\ t * WireMod = q * WireMod + WireMod
    BY <1>1, <1>2, <1>3, WireModAssumption
  <2> QED BY <1>1, <2>1, WireModAssumption
<1> QED BY <1>4 DEF WireBlock, u, r

\* A block that precedes base by at most a turn is taken for the one a full turn
\* later.
LEMMA StaleBlockTurnsOver ==
  ASSUME NEW base \in Nat, NEW n \in Nat, n < base, base <= n + WireMod
  PROVE  BlockToAbsolute(WireBlock(n), base) = n + WireMod
<1>1. BlockToAbsolute(WireBlock(n + WireMod), base) = n + WireMod
  BY BlockToAbsoluteExact, WireModAssumption
<1> QED BY <1>1, WirePeriod

\* A stale ACK or DATA packet does not hit the window of w blocks that starts at
\* base, as long as its block and all up to the end of the window fit into one
\* turn: it is taken for a block beyond the window.
THEOREM StaleBlockLandsBeyond ==
  ASSUME NEW base \in Nat, NEW n \in Nat, NEW w \in Nat \ {0},
         n < base, base + w <= n + WireMod
  PROVE  BlockToAbsolute(WireBlock(n), base) > base + w - 1
<1>1. base <= n + WireMod /\ n + WireMod > base + w - 1
  BY WireModAssumption
<1> QED BY <1>1, StaleBlockTurnsOver

-----------------------------------------------------------------------------
(***************************************************************************)
(* Files and blocks                                                        *)
(***************************************************************************)

\* All blocks but the last are full and the last one is short: the receiver
\* stops exactly where the sender does (compute_total_blocks against
\* get_block_payload), and the payloads end at the end of the file.
THEOREM OnlyTheLastBlockIsShort ==
  ASSUME NEW size \in Nat, NEW blksize \in Nat, blksize >= 1
  PROVE  LET total == TotalBlocksOf(size, blksize)
         IN  /\ total \in Nat /\ total >= 1
             /\ \A n \in 1 .. total :
                  PayloadLen(n, size, blksize) < blksize <=> n = total
             /\ EndOffset(total, size, blksize) = size
<1> DEFINE total == TotalBlocksOf(size, blksize)
           q == size \div blksize  r == size % blksize
<1>1. q \in Nat /\ r \in 0 .. (blksize - 1) /\ size = q * blksize + r
  BY DivMod
<1>2. q * blksize \in Nat /\ (q + 1) * blksize = q * blksize + blksize
  BY <1>1
<1>3. total = q + 1
  <2>1. CASE r = 0
    BY <2>1 DEF TotalBlocksOf
  <2>2. CASE r # 0
    <3> DEFINE t == (size + blksize - 1) \div blksize
               u == (size + blksize - 1) % blksize
    <3>1. size + blksize - 1 \in Nat
      OBVIOUS
    <3>2. t \in Nat /\ u \in 0 .. (blksize - 1) /\ size + blksize - 1 = t * blksize + u
      BY <3>1, DivMod
    <3>3. total = t
      BY <2>2 DEF TotalBlocksOf
    <3> HIDE DEF t, u, q, r, total
    <3>4. CASE t < q + 1
      BY <1>1, <1>2, <2>2, <3>2, <3>4, MulStep
    <3>5. CASE q + 1 < t
      BY <1>1, <1>2, <2>2, <3>2, <3>5, MulStep
    <3> QED BY <1>1, <3>2, <3>3, <3>4, <3>5
  <2> QED BY <2>1, <2>2
<1> HIDE DEF q, r, total
<1>4. ASSUME NEW n \in 1 .. total
      PROVE  PayloadLen(n, size, blksize) < blksize <=> n = total
  <2>1. n * blksize = (n - 1) * blksize + blksize /\ (n - 1) * blksize \in Nat
    OBVIOUS
  <2>2. CASE n = q + 1
    <3>1. (n - 1) * blksize = q * blksize
      BY <2>2, <1>1
    <3> QED BY <1>1, <1>2, <1>3, <2>1, <2>2, <3>1 DEF PayloadLen, EndOffset
  <2>3. CASE n < q + 1
    <3>1. (n - 1) * blksize + blksize <= q * blksize
      BY <1>1, <1>3, <2>3, MulStep
    <3> QED BY <1>1, <1>2, <1>3, <2>1, <2>3, <3>1 DEF PayloadLen, EndOffset
  <2> QED BY <1>1, <1>3, <2>2, <2>3
<1>5. EndOffset(total, size, blksize) = size
  BY <1>1, <1>2, <1>3 DEF EndOffset
<1> QED BY <1>1, <1>3, <1>4, <1>5 DEF total

\* The end of a prefix of blocks grows with it and stays within the file; what
\* a block carries is never negative.
LEMMA EndOffsetFacts ==
  ASSUME NEW size \in Nat, NEW blksize \in Nat, blksize >= 1
  PROVE  /\ EndOffset(0, size, blksize) = 0
         /\ \A n \in Nat : EndOffset(n, size, blksize) \in 0 .. size
         /\ \A a, b \in Nat : a <= b => EndOffset(a, size, blksize) <= EndOffset(b, size, blksize)
         /\ \A n \in Nat \ {0} : PayloadLen(n, size, blksize) \in Nat
<1>1. EndOffset(0, size, blksize) = 0
  BY DEF EndOffset
<1>2. ASSUME NEW n \in Nat
      PROVE  n * blksize \in Nat /\ EndOffset(n, size, blksize) \in 0 .. size
  BY DEF EndOffset
<1>3. ASSUME NEW a \in Nat, NEW b \in Nat, a <= b
      PROVE  /\ a * blksize <= b * blksize
             /\ EndOffset(a, size, blksize) <= EndOffset(b, size, blksize)
  <2>1. a * blksize <= b * blksize
    <3>1. CASE a = b
      BY <3>1, <1>2
    <3>2. CASE a < b
      BY <3>2, MulStep
    <3> QED BY <1>3, <3>1, <3>2
  <2> QED BY <2>1, <1>2 DEF EndOffset
<1>4. ASSUME NEW n \in Nat \ {0} PROVE PayloadLen(n, size, blksize) \in Nat
  <2>1. n - 1 \in Nat /\ (n - 1) * blksize \in Nat /\ n * blksize \in Nat
    BY <1>2
  <2>2. (n - 1) * blksize <= n * blksize
    BY <2>1, <1>3
  <2> QED BY <2>1, <2>2 DEF PayloadLen, EndOffset
<1> QED BY <1>1, <1>2, <1>3, <1>4

-----------------------------------------------------------------------------
(***************************************************************************)
(* The measures of work of ReadSessionProofs and WriteSessionProofs        *)
(***************************************************************************)

Bit(b) == IF b THEN 1 ELSE 0

\* One packet is taken from a channel, or at most one is put into it.
Takes(C, D) == \E m \in C : D = C \ {m}
Puts(C, D)  == D = C \/ \E m : D = C \cup {m}

LEMMA TakesOne ==
  ASSUME NEW C, NEW D, IsFiniteSet(C), Takes(C, D)
  PROVE  Cardinality(C) \in Nat /\ Cardinality(D) = Cardinality(C) - 1 /\ Cardinality(D) \in Nat
<1>1. PICK m \in C : D = C \ {m}
  BY DEF Takes
<1>2. IsFiniteSet(D) /\ Cardinality(D) = Cardinality(C) - 1
  BY <1>1, FS_RemoveElement
<1> QED BY <1>2, FS_CardinalityType

LEMMA PutsOne ==
  ASSUME NEW C, NEW D, IsFiniteSet(C), Puts(C, D)
  PROVE  Cardinality(C) \in Nat /\ Cardinality(D) <= Cardinality(C) + 1 /\ Cardinality(D) \in Nat
<1>1. Cardinality(C) \in Nat
  BY FS_CardinalityType
<1>2. CASE D = C
  BY <1>1, <1>2
<1>3. CASE \E m : D = C \cup {m}
  <2> PICK m : D = C \cup {m}
    BY <1>3
  <2>1. IsFiniteSet(D) /\ (Cardinality(D) = Cardinality(C) \/ Cardinality(D) = Cardinality(C) + 1)
    BY FS_AddElement
  <2> QED BY <1>1, <2>1
<1> QED BY <1>2, <1>3 DEF Puts

\* One unit of fuel outweighs everything a step may add to what is in flight.
LEMMA Weighing ==
  ASSUME NEW w \in Nat, NEW f \in Nat, NEW g \in Nat, NEW x \in Nat, NEW y \in Nat,
         (g < f /\ y < x + w) \/ (g = f /\ y < x)
  PROVE  g * w + y < f * w + x
<1>1. CASE g < f /\ y < x + w
  <2>1. g * w + w <= f * w /\ g * w \in Nat /\ f * w \in Nat
    BY <1>1, MulStep
  <2> QED BY <1>1, <2>1
<1>2. CASE g = f /\ y < x
  <2>1. f * w \in Nat
    <3>1. f < f + 1 /\ f + 1 \in Nat
      OBVIOUS
    <3> QED BY <3>1, MulStep
  <2> QED BY <1>2, <2>1
<1> QED BY <1>1, <1>2
=============================================================================
