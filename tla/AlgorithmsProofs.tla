-------------------------- MODULE AlgorithmsProofs --------------------------
(***************************************************************************)
(* The parts with little state, whatever their constants: the walk of a    *)
(* receiver through a file, the buffer pool, the rate limiter, the access  *)
(* list, netascii, packets and paths here, options, waits and records from *)
(* DataProofs, and all of them together.                                   *)
(***************************************************************************)
EXTENDS MCAlgorithms, DataProofs, TftpBlocksProofs, FiniteSetTheorems

-----------------------------------------------------------------------------
(***************************************************************************)
(* The walk of a receiver through a file                                   *)
(***************************************************************************)

\* The walk: the 16-bit number is the block's, the sum is where the block ends,
\* and only the last block has stopped it.
WalkInv ==
  /\ size \in Nat /\ blksize \in Nat /\ blksize >= 1 /\ n \in Nat /\ stopped \in BOOLEAN
  /\ wire = WireBlock(n)
  /\ sum = EndOffset(n, size, blksize)
  /\ EndsWithShortBlock

\* The next block has the next number.
LEMMA NextWire ==
  ASSUME NEW k \in Nat
  PROVE  WireBlock(k + 1) = IF WireBlock(k) = WireMod - 1 THEN 0 ELSE WireBlock(k) + 1
<1> DEFINE q == k \div WireMod  r == k % WireMod
           t == (k + 1) \div WireMod  u == (k + 1) % WireMod
<1>1. /\ q \in Nat /\ r \in 0 .. (WireMod - 1) /\ k = q * WireMod + r
      /\ t \in Nat /\ u \in 0 .. (WireMod - 1) /\ k + 1 = t * WireMod + u
      /\ WireMod \in Nat /\ WireMod >= 2
  <2>1. k + 1 \in Nat
    OBVIOUS
  <2> QED BY <2>1, WireDivMod, WireModAssumption
<1> HIDE DEF q, r, t, u
<1>2. CASE t < q
  <2>1. t * WireMod + WireMod <= q * WireMod /\ t * WireMod \in Nat /\ q * WireMod \in Nat
    BY <1>1, <1>2, MulStep
  <2> QED BY <1>1, <2>1
<1>3. CASE t > q
  <2>1. q * WireMod + WireMod <= t * WireMod /\ t * WireMod \in Nat /\ q * WireMod \in Nat
    BY <1>1, <1>3, MulStep
  <2>2. u = 0 /\ r = WireMod - 1
    BY <1>1, <2>1
  <2> QED BY <2>2 DEF WireBlock, u, r
<1>4. t = q => (u = r + 1)
  BY <1>1
<1>5. t = q \/ t < q \/ t > q
  BY <1>1
<1>6. CASE t = q
  <2>1. u = r + 1 /\ r # WireMod - 1
    BY <1>1, <1>4, <1>6
  <2> QED BY <2>1 DEF WireBlock, u, r
<1> QED BY <1>2, <1>3, <1>5, <1>6

\* A block begins where the one before it ends.
LEMMA NextOffset ==
  ASSUME NEW s \in Nat, NEW b \in Nat, b >= 1, NEW k \in Nat
  PROVE  EndOffset(k + 1, s, b) = EndOffset(k, s, b) + PayloadLen(k + 1, s, b)
<1> DEFINE o == k * b
           e == (k + 1) * b
<1>1. /\ o \in Nat /\ e \in Nat /\ e = o + b /\ ((k + 1) - 1) * b = o
  OBVIOUS
<1>2. /\ EndOffset(k + 1, s, b) = IF e <= s THEN e ELSE s
      /\ EndOffset(k, s, b) = IF o <= s THEN o ELSE s
      /\ PayloadLen(k + 1, s, b) = IF o < s THEN (IF e <= s THEN e ELSE s) - o ELSE 0
  BY <1>1 DEF EndOffset, PayloadLen
<1> HIDE DEF o, e
<1> QED BY <1>1, <1>2

LEMMA WalkStarts == Init => WalkInv
<1> SUFFICES ASSUME Init PROVE WalkInv
  OBVIOUS
<1>1. /\ size \in Nat /\ blksize \in Nat /\ blksize >= 1 /\ n = 0 /\ wire = 0 /\ sum = 0
      /\ stopped = FALSE
  BY WalkAssumption DEF Init
<1>2. TotalBlocksOf(size, blksize) \in Nat /\ TotalBlocksOf(size, blksize) >= 1
      /\ EndOffset(0, size, blksize) = 0
  BY <1>1, OnlyTheLastBlockIsShort, EndOffsetFacts
<1>3. WireBlock(0) = 0
  <2>1. 0 % WireMod \in 0 .. WireMod - 1 /\ 0 = (0 \div WireMod) * WireMod + (0 % WireMod)
        /\ 0 \div WireMod \in Nat /\ WireMod \in Nat /\ WireMod >= 2
    BY WireDivMod, WireModAssumption
  <2>2. (0 \div WireMod) * WireMod \in Nat
    BY <2>1
  <2> QED BY <2>1, <2>2 DEF WireBlock
<1>4. EndsWithShortBlock
  <2>1. 0 < Total
    BY <1>2 DEF Total
  <2> QED BY <1>1, <2>1, Zenon DEF EndsWithShortBlock
<1>5. wire = WireBlock(n) /\ sum = EndOffset(n, size, blksize)
  BY <1>1, <1>2, <1>3, Zenon
<1> QED BY <1>1, <1>4, <1>5 DEF WalkInv

LEMMA WalkSteps == WalkInv /\ [Next]_vars => WalkInv'
<1> SUFFICES ASSUME WalkInv, [Next]_vars PROVE WalkInv'
  OBVIOUS
<1>1. CASE Receive
  <2>1. /\ size \in Nat /\ blksize \in Nat /\ blksize >= 1 /\ n \in Nat
        /\ wire = WireBlock(n) /\ sum = EndOffset(n, size, blksize) /\ n < Total
        /\ stopped = FALSE
    BY <1>1 DEF WalkInv, EndsWithShortBlock, Receive
  <2>2. /\ n' = n + 1 /\ wire' = IF wire = WireMod - 1 THEN 0 ELSE wire + 1
        /\ sum' = sum + PayloadLen(n + 1, size, blksize)
        /\ stopped' = (PayloadLen(n + 1, size, blksize) < blksize)
        /\ UNCHANGED <<size, blksize>>
    BY <1>1 DEF Receive
  <2>3. wire' = WireBlock(n')
    BY <2>1, <2>2, NextWire
  <2>4. sum' = EndOffset(n', size, blksize)
    BY <2>1, <2>2, NextOffset
  <2>5. /\ Total \in Nat /\ n + 1 \in 1 .. Total
        /\ PayloadLen(n + 1, size, blksize) < blksize <=> n + 1 = Total
    <3> DEFINE last == TotalBlocksOf(size, blksize)
    <3>1. last \in Nat /\ \A k \in 1 .. last : PayloadLen(k, size, blksize) < blksize <=> k = last
      BY <2>1, OnlyTheLastBlockIsShort
    <3>2. last = Total
      BY DEF Total
    <3> HIDE DEF last
    <3>3. n + 1 \in 1 .. last
      BY <2>1, <3>1, <3>2
    <3> QED BY <3>1, <3>2, <3>3
  <2>6. Total' = Total
    BY <2>2 DEF Total
  <2>7. EndsWithShortBlock'
    <3>1. CASE n + 1 = Total
      <4>1. stopped' /\ n' = Total'
        BY <2>2, <2>5, <2>6, <3>1, Zenon
      <4> QED BY <4>1, Zenon DEF EndsWithShortBlock
    <3>2. CASE n + 1 # Total
      <4>1. ~stopped'
        BY <2>2, <2>5, <3>2, Zenon
      <4>2. n' < Total'
        BY <2>1, <2>2, <2>5, <2>6, <3>2
      <4> QED BY <4>1, <4>2, Zenon DEF EndsWithShortBlock
    <3> QED BY <3>1, <3>2
  <2> QED BY <2>1, <2>2, <2>3, <2>4, <2>7 DEF WalkInv
<1>2. CASE UNCHANGED vars
  BY <1>2 DEF vars, WalkInv, EndsWithShortBlock, Total
<1> QED BY <1>1, <1>2 DEF Next

LEMMA WalkIsRight == WalkInv => EndsWithShortBlock /\ PayloadsAddUp /\ RecoversBlock
<1> SUFFICES ASSUME WalkInv PROVE EndsWithShortBlock /\ PayloadsAddUp /\ RecoversBlock
  OBVIOUS
<1>1. /\ size \in Nat /\ blksize \in Nat /\ blksize >= 1 /\ n \in Nat
      /\ wire = WireBlock(n) /\ sum = EndOffset(n, size, blksize) /\ EndsWithShortBlock
  BY DEF WalkInv
<1>2. Total \in Nat /\ EndOffset(Total, size, blksize) = size
  BY <1>1, OnlyTheLastBlockIsShort DEF Total
<1>3. PayloadsAddUp
  BY <1>1, <1>2 DEF PayloadsAddUp, EndsWithShortBlock
<1>4. ASSUME NEW base \in 1 .. Total + 1
      PROVE  /\ base <= n /\ n < base + WireMod => BlockToAbsolute(wire, base) = n
             /\ n < base /\ base <= n + WireMod => BlockToAbsolute(wire, base) = n + WireMod
  <2>1. base \in Nat
    BY <1>2
  <2> QED BY <1>1, <2>1, BlockToAbsoluteExact, StaleBlockTurnsOver
<1> QED BY <1>1, <1>3, <1>4 DEF RecoversBlock

-----------------------------------------------------------------------------
(***************************************************************************)
(* The buffer pool                                                         *)
(***************************************************************************)

\* The types the argument needs: the queue's content does not matter, because
\* whatever comes from it is cleared and resized.
PoolTypes ==
  /\ bufSize \in Nat
  /\ holder \in [Holders -> [pc : {"none", "asks", "has"}, want : Nat,
                             buf : [size : Nat, bytes : SUBSET Holders]]]

\* A size that was read before a resize is the one in force until then.
AskedInForce ==
  \A h \in Holders \ overtaken : holder[h].pc = "asks" => holder[h].want = bufSize

PoolInv == PoolTypes /\ AskedInForce /\ OwnBytesOnly /\ SizeInForce

\* The pool begins without holders.
LEMMA PoolStarts == PoolInit => PoolInv
<1> SUFFICES ASSUME PoolInit PROVE PoolInv
  OBVIOUS
<1>1. bufSize \in BufSizes
  BY PoolAssumption DEF PoolInit
<1>2. PoolTypes
  BY <1>1, PoolAssumption DEF PoolInit, PoolTypes, NoHolder, NoBuffer
<1> QED BY <1>2 DEF PoolInv, PoolInit, AskedInForce, OwnBytesOnly, SizeInForce, NoHolder, NoBuffer

\* Every step of acquire, release and update_buf_size keeps buffers apart.
LEMMA PoolSteps == PoolInv /\ [PoolNext]_poolVars => PoolInv'
<1> SUFFICES ASSUME PoolInv, [PoolNext]_poolVars PROVE PoolInv'
  OBVIOUS
<1> USE DEF PoolInv, PoolTypes, AskedInForce, OwnBytesOnly, SizeInForce
<1>1. ASSUME NEW h \in Holders, LoadSize(h) PROVE PoolInv'
  BY <1>1 DEF LoadSize, NoBuffer
<1>2. ASSUME NEW h \in Holders, TakeBuffer(h) PROVE PoolInv'
  <2> DEFINE want == holder[h].want
             got == IF free = <<>> THEN [size |-> want, bytes |-> {}] ELSE Cleared(Last(free), want)
  <2>1. got = [size |-> want, bytes |-> {}]
    BY DEF Cleared
  <2>2. holder' = [holder EXCEPT ![h] = [pc |-> "has", want |-> want,
                                        buf |-> [size |-> want, bytes |-> {}]]]
    BY <1>2, <2>1, Zenon DEF TakeBuffer
  <2>3. holder[h].pc = "asks" /\ UNCHANGED <<bufSize, overtaken>> /\ want \in Nat
    BY <1>2 DEF TakeBuffer
  <2> QED BY <2>2, <2>3
<1>3. ASSUME NEW h \in Holders, Fill(h) PROVE PoolInv'
  BY <1>3 DEF Fill
<1>4. ASSUME NEW h \in Holders, Release(h) \/ Abandon(h) PROVE PoolInv'
  <2>1. holder' = [holder EXCEPT ![h] = [pc |-> "none", want |-> 0,
                                        buf |-> [size |-> 0, bytes |-> {}]]]
    BY <1>4, Zenon DEF Release, Abandon, NoHolder, NoBuffer
  <2>2. UNCHANGED <<bufSize, overtaken>>
    BY <1>4 DEF Release, Abandon
  <2> QED BY <2>1, <2>2
<1>5. ASSUME NEW s \in BufSizes, StoreSize(s) PROVE PoolInv'
  <2>1. s \in Nat
    BY PoolAssumption
  <2>2. \A h \in Holders \ overtaken' : holder[h].pc = "none"
    BY <1>5 DEF StoreSize
  <2>3. UNCHANGED holder /\ bufSize' = s
    BY <1>5 DEF StoreSize
  <2>4. PoolTypes' /\ OwnBytesOnly'
    BY <2>1, <2>3
  <2>5. AskedInForce' /\ SizeInForce'
    BY <2>2, <2>3
  <2> QED BY <2>4, <2>5
<1>6. CASE Drain
  BY <1>6 DEF Drain
<1>7. CASE UNCHANGED poolVars
  BY <1>7 DEF poolVars
<1> QED BY <1>1, <1>2, <1>3, <1>4, <1>5, <1>6, <1>7 DEF PoolNext

-----------------------------------------------------------------------------
(***************************************************************************)
(* The rate limiter                                                        *)
(***************************************************************************)

Entries == [count : Nat, start : Nat]
Answers == [at : Nat, allowed : BOOLEAN, entry : Entries, unclean : BOOLEAN]

RateTypes ==
  /\ limit \in Nat /\ window \in Nat \ {0} /\ clock \in Nat
  /\ entry \in Entries \cup {Absent} /\ bare \in Entries \cup {Absent}
  /\ (entry # Absent => entry.start <= clock) /\ (bare # Absent => bare.start <= clock)
  /\ answers \in Seq(Answers)

Start(i) == answers[i].entry.start
Count(i) == answers[i].entry.count
Passed(i) == answers[i].allowed
At(i) == answers[i].at

\* Every request falls into the window whose entry it left; an allowed one has
\* the count of its place in it, the first one begins it, a refused one found
\* the limit reached.
InItsWindow ==
  \A i \in DOMAIN answers :
    /\ Start(i) <= At(i) /\ At(i) < Start(i) + window /\ At(i) <= clock
    /\ Passed(i) => /\ Count(i) >= 1 /\ Count(i) <= Allowance
                    /\ Count(i) = 1 => At(i) = Start(i)
    /\ ~Passed(i) => Count(i) >= limit

\* No two requests have the same place in a window; windows do not overlap;
\* every place below a count is taken.
PlacesApart ==
  \A i, j \in DOMAIN answers :
    Passed(i) /\ Passed(j) /\ Start(i) = Start(j) /\ Count(i) = Count(j) => i = j
WindowsApart ==
  \A i, j \in DOMAIN answers : Start(i) < Start(j) => Start(i) + window <= Start(j)
PlacesTaken ==
  \A i \in DOMAIN answers : \A k \in 1 .. Count(i) :
    \E j \in DOMAIN answers : Passed(j) /\ Start(j) = Start(i) /\ Count(j) = k

\* The entry is the one the last request left, or it was cleared long after.
EntryIsLast ==
  /\ entry = Absent => \A i \in DOMAIN answers : Start(i) + window <= clock
  /\ entry # Absent =>
       /\ limit > 0 => entry.count \in 1 .. limit
       /\ \A i \in DOMAIN answers :
            \/ Start(i) = entry.start /\ Count(i) <= entry.count
            \/ Start(i) + window <= entry.start
       /\ \E i \in DOMAIN answers : Start(i) = entry.start /\ Count(i) = entry.count

\* The clean-up only takes what has expired; under a limit of zero the entry
\* that comes next has its start, but not its count.
CleanedIsExpired ==
  \/ entry = bare
  \/ entry = Absent /\ bare # Absent /\ clock - bare.start >= 2 * window
  \/ limit = 0 /\ entry # Absent /\ bare # Absent /\ entry.start = bare.start

RateInv ==
  /\ RateTypes /\ InItsWindow /\ PlacesApart /\ WindowsApart /\ PlacesTaken
  /\ EntryIsLast /\ CleanedIsExpired /\ CleanupInvisible

\* check_rate_limit case by case
LEMMA RequestFacts ==
  ASSUME limit \in Nat, window \in Nat \ {0}, clock \in Nat,
         NEW old \in Entries \cup {Absent}, old # Absent => old.start <= clock
  PROVE  LET r == Request(old)
         IN  \/ /\ old = Absent /\ limit > 0
                /\ r = [entry |-> [count |-> 1, start |-> clock], allowed |-> TRUE]
             \/ /\ old = Absent /\ limit = 0
                /\ r = [entry |-> [count |-> 0, start |-> clock], allowed |-> FALSE]
             \/ /\ old # Absent /\ clock - old.start >= window
                /\ r = [entry |-> [count |-> 1, start |-> clock], allowed |-> TRUE]
             \/ /\ old # Absent /\ clock - old.start < window /\ old.count < limit
                /\ r = [entry |-> [count |-> old.count + 1, start |-> old.start], allowed |-> TRUE]
             \/ /\ old # Absent /\ clock - old.start < window /\ old.count >= limit
                /\ r = [entry |-> old, allowed |-> FALSE]
<1> DEFINE e == Found(old)
<1>1. Request(old) = IF Expired(e) THEN [entry |-> [count |-> 1, start |-> clock], allowed |-> TRUE]
                     ELSE IF e.count < limit
                          THEN [entry |-> [e EXCEPT !.count = @ + 1], allowed |-> TRUE]
                          ELSE [entry |-> e, allowed |-> FALSE]
  BY DEF Request
<1>2. CASE old = Absent
  <2>1. e = [count |-> 0, start |-> clock]
    BY <1>2 DEF Found
  <2>2. ~Expired(e)
    BY <2>1 DEF Expired
  <2>3. [e EXCEPT !.count = @ + 1] = [count |-> 1, start |-> clock]
    BY <2>1
  <2>4. e.count = 0
    BY <2>1
  <2>5. Request(old) = IF 0 < limit
                       THEN [entry |-> [count |-> 1, start |-> clock], allowed |-> TRUE]
                       ELSE [entry |-> [count |-> 0, start |-> clock], allowed |-> FALSE]
    <3> HIDE DEF e
    <3> QED BY <1>1, <2>1, <2>2, <2>3, <2>4, Zenon
  <2> QED BY <1>2, <2>5
<1>3. CASE old # Absent
  <2>1. e = old /\ old \in Entries
    BY <1>3 DEF Found
  <2>2. Expired(e) <=> clock - old.start >= window
    BY <2>1 DEF Expired
  <2>3. old.count \in Nat /\ old.start \in Nat
    BY <2>1 DEF Entries
  <2>4. [old EXCEPT !.count = @ + 1] = [count |-> old.count + 1, start |-> old.start]
    BY <2>1 DEF Entries
  <2>8. Request(old) = IF clock - old.start >= window
                       THEN [entry |-> [count |-> 1, start |-> clock], allowed |-> TRUE]
                       ELSE IF old.count < limit
                       THEN [entry |-> [count |-> old.count + 1, start |-> old.start],
                             allowed |-> TRUE]
                       ELSE [entry |-> old, allowed |-> FALSE]
    <3> HIDE DEF e
    <3> QED BY <1>1, <2>1, <2>2, <2>4, Zenon
  <2> QED BY <1>3, <2>3, <2>8
<1> QED BY <1>2, <1>3

LEMMA RateStarts == RateInit => RateInv
<1> SUFFICES ASSUME RateInit PROVE RateInv
  OBVIOUS
<1>1. limit \in Nat /\ window \in Nat \ {0}
  BY RateAssumption DEF RateInit
<1>2. clock = 0 /\ entry = Absent /\ bare = Absent /\ answers = <<>>
  BY DEF RateInit
<1>3. DOMAIN answers = {}
  BY <1>2
<1>4. answers \in Seq(Answers)
  BY <1>2
<1>5. RateTypes
  BY <1>1, <1>2, <1>4 DEF RateTypes
<1>6. InItsWindow /\ PlacesApart /\ WindowsApart /\ PlacesTaken /\ CleanupInvisible
  BY <1>3 DEF InItsWindow, PlacesApart, WindowsApart, PlacesTaken, CleanupInvisible
<1>7. EntryIsLast /\ CleanedIsExpired
  BY <1>2, <1>3 DEF EntryIsLast, CleanedIsExpired
<1> QED BY <1>5, <1>6, <1>7 DEF RateInv

\* The request of an Ask, and where it is logged
LEMMA AskFacts ==
  ASSUME RateInv, Ask
  PROVE  LET nr == Len(answers) + 1
         IN  /\ DOMAIN answers' = DOMAIN answers \cup {nr} /\ nr \notin DOMAIN answers
             /\ \A i \in DOMAIN answers : answers'[i] = answers[i]
             /\ answers'[nr] = [at |-> clock, allowed |-> Request(entry).allowed, entry |-> entry',
                               unclean |-> Request(bare).allowed]
             /\ entry' = Request(entry).entry /\ bare' = Request(bare).entry
             /\ entry' \in Entries /\ entry'.start <= clock
             /\ bare' \in Entries /\ bare'.start <= clock
             /\ entry' # Absent /\ bare' # Absent
             /\ answers' \in Seq(Answers)
<1> DEFINE nr == Len(answers) + 1
           a == [at |-> clock, allowed |-> Request(entry).allowed, entry |-> entry',
                 unclean |-> Request(bare).allowed]
<1>1. /\ limit \in Nat /\ window \in Nat \ {0} /\ clock \in Nat
      /\ entry \in Entries \cup {Absent} /\ bare \in Entries \cup {Absent}
      /\ (entry # Absent => entry.start <= clock) /\ (bare # Absent => bare.start <= clock)
      /\ answers \in Seq(Answers)
  BY DEF RateInv, RateTypes
<1>2. /\ entry' = Request(entry).entry /\ bare' = Request(bare).entry
      /\ answers' = Append(answers, a)
  BY DEF Ask
<1>3. ASSUME NEW old \in Entries \cup {Absent}, old # Absent => old.start <= clock
      PROVE  /\ Request(old).entry \in Entries /\ Request(old).entry.start <= clock
             /\ Request(old).allowed \in BOOLEAN
  <2> DEFINE r == Request(old)
  <2>1. \/ r = [entry |-> [count |-> 1, start |-> clock], allowed |-> TRUE]
        \/ r = [entry |-> [count |-> 0, start |-> clock], allowed |-> FALSE]
        \/ /\ old # Absent
           /\ r = [entry |-> [count |-> old.count + 1, start |-> old.start], allowed |-> TRUE]
        \/ old # Absent /\ r = [entry |-> old, allowed |-> FALSE]
    BY <1>1, <1>3, RequestFacts
  <2> HIDE DEF r
  <2>2. old # Absent => old \in Entries /\ old.count + 1 \in Nat /\ old.start \in Nat
    BY <1>3 DEF Entries
  <2>3. r.entry \in Entries /\ r.entry.start <= clock /\ r.allowed \in BOOLEAN
    <3>1. CASE r = [entry |-> [count |-> 1, start |-> clock], allowed |-> TRUE]
      BY <1>1, <3>1 DEF Entries
    <3>2. CASE r = [entry |-> [count |-> 0, start |-> clock], allowed |-> FALSE]
      BY <1>1, <3>2 DEF Entries
    <3>3. CASE /\ old # Absent
               /\ r = [entry |-> [count |-> old.count + 1, start |-> old.start], allowed |-> TRUE]
      BY <1>3, <2>2, <3>3 DEF Entries
    <3>4. CASE old # Absent /\ r = [entry |-> old, allowed |-> FALSE]
      BY <1>3, <2>2, <3>4
    <3> QED BY <2>1, <3>1, <3>2, <3>3, <3>4
  <2> QED BY <2>3 DEF r
<1>4. /\ entry' \in Entries /\ entry'.start <= clock /\ Request(entry).allowed \in BOOLEAN
      /\ bare' \in Entries /\ bare'.start <= clock /\ Request(bare).allowed \in BOOLEAN
  BY <1>1, <1>2, <1>3
<1>5. a \in Answers
  BY <1>1, <1>4 DEF Answers
<1>6. \A e \in Entries : e # Absent
  BY DEF Entries, Absent
<1> HIDE DEF a
<1>7. /\ DOMAIN answers' = DOMAIN answers \cup {nr} /\ nr \notin DOMAIN answers
      /\ \A i \in DOMAIN answers : answers'[i] = answers[i]
      /\ answers'[nr] = a
      /\ answers' \in Seq(Answers)
  BY <1>1, <1>2, <1>5
<1> QED BY <1>2, <1>4, <1>6, <1>7 DEF a

\* A request begins a window when all earlier ones are over, or it takes the
\* next place in the window of the entry, or finds its limit reached.
LEMMA AskCases ==
  ASSUME RateInv, Ask
  PROVE  \/ /\ entry'.start = clock /\ \A i \in DOMAIN answers : Start(i) + window <= clock
            /\ \/ entry'.count = 1 /\ Request(entry).allowed
               \/ entry'.count = 0 /\ ~Request(entry).allowed /\ limit = 0
         \/ /\ entry # Absent /\ entry'.start = entry.start /\ clock - entry.start < window
            /\ \/ /\ entry'.count = entry.count + 1 /\ entry.count < limit
                  /\ Request(entry).allowed
               \/ entry'.count = entry.count /\ entry.count >= limit /\ ~Request(entry).allowed
<1>1. /\ limit \in Nat /\ window \in Nat \ {0} /\ clock \in Nat
      /\ entry \in Entries \cup {Absent}
      /\ (entry # Absent => entry.start <= clock)
      /\ answers \in Seq(Answers)
  BY DEF RateInv, RateTypes
<1>2. entry' = Request(entry).entry
  BY DEF Ask
<1> DEFINE r == Request(entry)
<1>3. \/ /\ entry = Absent /\ limit > 0
         /\ r = [entry |-> [count |-> 1, start |-> clock], allowed |-> TRUE]
      \/ /\ entry = Absent /\ limit = 0
         /\ r = [entry |-> [count |-> 0, start |-> clock], allowed |-> FALSE]
      \/ /\ entry # Absent /\ clock - entry.start >= window
         /\ r = [entry |-> [count |-> 1, start |-> clock], allowed |-> TRUE]
      \/ /\ entry # Absent /\ clock - entry.start < window /\ entry.count < limit
         /\ r = [entry |-> [count |-> entry.count + 1, start |-> entry.start], allowed |-> TRUE]
      \/ /\ entry # Absent /\ clock - entry.start < window /\ entry.count >= limit
         /\ r = [entry |-> entry, allowed |-> FALSE]
  BY <1>1, RequestFacts
<1>4. \A i \in DOMAIN answers : Start(i) \in Nat
  <2>1. \A i \in DOMAIN answers : answers[i] \in Answers
    BY <1>1
  <2>2. \A a \in Answers : a.entry.start \in Nat
    BY DEF Answers, Entries
  <2> QED BY <2>1, <2>2 DEF Start
<1>5. entry = Absent => \A i \in DOMAIN answers : Start(i) + window <= clock
  BY DEF RateInv, EntryIsLast
<1>6. entry # Absent /\ clock - entry.start >= window =>
        \A i \in DOMAIN answers : Start(i) + window <= clock
  <2> SUFFICES ASSUME entry # Absent, clock - entry.start >= window,
                      NEW i \in DOMAIN answers
               PROVE  Start(i) + window <= clock
    OBVIOUS
  <2>1. entry.start \in Nat
    BY <1>1 DEF Entries
  <2>2. Start(i) = entry.start \/ Start(i) + window <= entry.start
    BY DEF RateInv, EntryIsLast
  <2> QED BY <1>1, <1>4, <2>1, <2>2
<1>7. entry' = r.entry
  BY <1>2
<1> HIDE DEF r
<1>8. CASE /\ entry = Absent \/ (entry # Absent /\ clock - entry.start >= window)
           /\ r = [entry |-> [count |-> 1, start |-> clock], allowed |-> TRUE]
  BY <1>5, <1>6, <1>7, <1>8 DEF r
<1>9. CASE /\ entry = Absent /\ limit = 0
           /\ r = [entry |-> [count |-> 0, start |-> clock], allowed |-> FALSE]
  BY <1>5, <1>7, <1>9 DEF r
<1>10. CASE /\ entry # Absent /\ clock - entry.start < window /\ entry.count < limit
            /\ r = [entry |-> [count |-> entry.count + 1, start |-> entry.start], allowed |-> TRUE]
  <2>1. entry'.count = entry.count + 1 /\ entry'.start = entry.start /\ r.allowed
    BY <1>7, <1>10
  <2> QED BY <1>10, <2>1, Zenon DEF r
<1>11. CASE /\ entry # Absent /\ clock - entry.start < window /\ entry.count >= limit
            /\ r = [entry |-> entry, allowed |-> FALSE]
  <2>1. entry'.count = entry.count /\ entry'.start = entry.start /\ ~r.allowed
    BY <1>7, <1>11
  <2> QED BY <1>11, <2>1, Zenon DEF r
<1> QED BY <1>3, <1>8, <1>9, <1>10, <1>11, Zenon

LEMMA AskSteps == RateInv /\ Ask => RateInv'
<1> SUFFICES ASSUME RateInv, Ask PROVE RateInv'
  OBVIOUS
<1>0. PICK nr : nr = Len(answers) + 1
  OBVIOUS
<1> DEFINE D == DOMAIN answers
           e == entry.start
           c == entry.count
           s == entry'.start
           d == entry'.count
           ok == Request(entry).allowed
<1>1. /\ limit \in Nat /\ window \in Nat \ {0} /\ clock \in Nat
      /\ entry \in Entries \cup {Absent} /\ bare \in Entries \cup {Absent}
      /\ (entry # Absent => entry.start <= clock) /\ (bare # Absent => bare.start <= clock)
      /\ answers \in Seq(Answers)
      /\ UNCHANGED <<limit, window, clock>>
  BY DEF RateInv, RateTypes, Ask
<1>2. /\ DOMAIN answers' = D \cup {nr} /\ nr \notin D
      /\ \A i \in D : answers'[i] = answers[i]
      /\ answers'[nr] = [at |-> clock, allowed |-> ok, entry |-> entry',
                        unclean |-> Request(bare).allowed]
      /\ entry' = Request(entry).entry /\ bare' = Request(bare).entry
      /\ entry' \in Entries /\ entry'.start <= clock
      /\ bare' \in Entries /\ bare'.start <= clock
      /\ entry' # Absent /\ bare' # Absent
      /\ answers' \in Seq(Answers)
  BY <1>0, AskFacts
<1>3. /\ \A i \in D : /\ Start(i)' = Start(i) /\ Count(i)' = Count(i)
                       /\ Passed(i)' = Passed(i) /\ At(i)' = At(i)
      /\ Start(nr)' = s /\ Count(nr)' = d /\ At(nr)' = clock /\ Passed(nr)' = ok
  BY <1>2 DEF Start, Count, Passed, At
<1>4. /\ \A i \in D : Start(i) \in Nat /\ Count(i) \in Nat /\ At(i) \in Nat
      /\ s \in Nat /\ d \in Nat
  <2>1. \A i \in D : answers[i] \in Answers
    BY <1>1
  <2>2. \A a \in Answers : a.entry.start \in Nat /\ a.entry.count \in Nat /\ a.at \in Nat
    BY DEF Answers, Entries
  <2>3. s \in Nat /\ d \in Nat
    BY <1>2 DEF Entries
  <2> QED BY <2>1, <2>2, <2>3 DEF Start, Count, At
<1>5. entry # Absent => e \in Nat /\ c \in Nat
  BY <1>1 DEF Entries
<1>6. \/ /\ s = clock /\ \A i \in D : Start(i) + window <= clock
         /\ (d = 1 /\ ok) \/ (d = 0 /\ ~ok /\ limit = 0)
      \/ /\ entry # Absent /\ s = e /\ clock - e < window
         /\ (d = c + 1 /\ c < limit /\ ok) \/ (d = c /\ c >= limit /\ ~ok)
  BY AskCases
<1>7. ASSUME NEW i \in D
      PROVE  /\ Start(i) <= At(i) /\ At(i) < Start(i) + window /\ At(i) <= clock
             /\ Passed(i) => /\ Count(i) >= 1 /\ Count(i) <= Allowance
                             /\ Count(i) = 1 => At(i) = Start(i)
             /\ ~Passed(i) => Count(i) >= limit
  BY <1>7 DEF RateInv, InItsWindow
<1>8. entry # Absent =>
       /\ limit > 0 => c \in 1 .. limit
       /\ \A i \in D : \/ Start(i) = e /\ Count(i) <= c
                       \/ Start(i) + window <= e
       /\ \E i \in D : Start(i) = e /\ Count(i) = c
  BY DEF RateInv, EntryIsLast
<1>9. RateTypes'
  BY <1>1, <1>2 DEF RateTypes
<1> HIDE DEF D, e, c, s, d, ok
<1>10. InItsWindow'
  <2>1. /\ s <= clock /\ clock < s + window
        /\ ok => d >= 1 /\ d <= Allowance /\ (d = 1 => clock = s)
        /\ ~ok => d >= limit
    <3>1. CASE /\ s = clock
               /\ (d = 1 /\ ok) \/ (d = 0 /\ ~ok /\ limit = 0)
      BY <1>1, <3>1 DEF Allowance
    <3>2. CASE /\ entry # Absent /\ s = e /\ clock - e < window
               /\ (d = c + 1 /\ c < limit /\ ok) \/ (d = c /\ c >= limit /\ ~ok)
      <4>1. e <= clock /\ e \in Nat /\ c \in Nat
        BY <1>1, <1>5, <3>2 DEF e
      <4>2. limit > 0 => c >= 1
        BY <1>1, <1>8, <3>2, <4>1
      <4> QED BY <1>1, <3>2, <4>1, <4>2 DEF Allowance
    <3> QED BY <1>6, <3>1, <3>2
  <2>2. ASSUME NEW i \in (DOMAIN answers)'
        PROVE  /\ Start(i)' <= At(i)' /\ At(i)' < Start(i)' + window /\ At(i)' <= clock
               /\ Passed(i)' => /\ Count(i)' >= 1 /\ Count(i)' <= Allowance
                                /\ Count(i)' = 1 => At(i)' = Start(i)'
               /\ ~Passed(i)' => Count(i)' >= limit
    <3>1. CASE i \in D
      <4>1. /\ Start(i)' = Start(i) /\ Count(i)' = Count(i)
            /\ Passed(i)' = Passed(i) /\ At(i)' = At(i)
        BY <1>3, <3>1
      <4>2. /\ Start(i) <= At(i) /\ At(i) < Start(i) + window /\ At(i) <= clock
            /\ Passed(i) => /\ Count(i) >= 1 /\ Count(i) <= Allowance
                            /\ Count(i) = 1 => At(i) = Start(i)
            /\ ~Passed(i) => Count(i) >= limit
        BY <1>7, <3>1
      <4> QED BY <4>1, <4>2
    <3>2. CASE i = nr
      BY <1>1, <1>3, <2>1, <3>2
    <3> QED BY <1>2, <3>1, <3>2
  <2> QED BY <1>1, <2>2, Zenon DEF InItsWindow, Allowance
<1>11. ASSUME NEW i \in D PROVE ~(ok /\ Passed(i) /\ Start(i) = s /\ Count(i) = d)
  <2>1. CASE /\ s = clock /\ \A k \in D : Start(k) + window <= clock
    BY <1>1, <1>4, <2>1
  <2>2. CASE /\ entry # Absent /\ s = e
             /\ (d = c + 1 /\ c < limit /\ ok) \/ (d = c /\ c >= limit /\ ~ok)
    BY <1>1, <1>4, <1>5, <1>8, <2>2
  <2> QED BY <1>6, <2>1, <2>2
<1>12. PlacesApart'
  <2> SUFFICES ASSUME NEW i \in (DOMAIN answers)', NEW j \in (DOMAIN answers)',
                      Passed(i)', Passed(j)', Start(i)' = Start(j)', Count(i)' = Count(j)'
               PROVE  i = j
    BY Zenon DEF PlacesApart
  <2>1. CASE i \in D /\ j \in D
    BY <1>3, <2>1 DEF RateInv, PlacesApart, D
  <2>2. CASE i \in D /\ j = nr
    BY <1>3, <1>11, <2>2
  <2>3. CASE i = nr /\ j \in D
    BY <1>3, <1>11, <2>3
  <2> QED BY <1>2, <2>1, <2>2, <2>3
<1>13. ASSUME NEW i \in D
       PROVE  (Start(i) < s => Start(i) + window <= s) /\ ~(s < Start(i))
  <2>1. CASE /\ s = clock /\ \A k \in D : Start(k) + window <= clock
    BY <1>1, <1>4, <2>1
  <2>2. CASE /\ entry # Absent /\ s = e
    BY <1>1, <1>4, <1>5, <1>8, <2>2
  <2> QED BY <1>6, <2>1, <2>2
<1>14. WindowsApart'
  <2> SUFFICES ASSUME NEW i \in (DOMAIN answers)', NEW j \in (DOMAIN answers)',
                      Start(i)' < Start(j)'
               PROVE  Start(i)' + window <= Start(j)'
    BY <1>1, Zenon DEF WindowsApart
  <2>1. CASE i \in D /\ j \in D
    BY <1>3, <2>1 DEF RateInv, WindowsApart, D
  <2>2. CASE i \in D /\ j = nr
    BY <1>3, <1>13, <2>2
  <2>3. CASE i = nr /\ j \in D
    BY <1>3, <1>13, <2>3
  <2>4. CASE i = nr /\ j = nr
    BY <1>4, <2>4, <1>3
  <2> QED BY <1>2, <2>1, <2>2, <2>3, <2>4
<1>15. ASSUME NEW i \in D, NEW k \in 1 .. Count(i)
       PROVE  \E j \in D : Passed(j) /\ Start(j) = Start(i) /\ Count(j) = k
  BY <1>15 DEF RateInv, PlacesTaken, D
<1>16. PlacesTaken'
  <2> SUFFICES ASSUME NEW i \in (DOMAIN answers)', NEW k \in 1 .. Count(i)'
               PROVE  \E j \in (DOMAIN answers)' :
                        Passed(j)' /\ Start(j)' = Start(i)' /\ Count(j)' = k
    BY Zenon DEF PlacesTaken
  <2>1. CASE i \in D
    <3>1. PICK j \in D : Passed(j) /\ Start(j) = Start(i) /\ Count(j) = k
      BY <1>3, <1>15, <2>1
    <3> QED BY <1>2, <1>3, <2>1, <3>1
  <2>2. CASE i = nr
    <3>1. k \in 1 .. d
      BY <1>3, <2>2
    <3>2. CASE ok /\ k = d
      BY <1>2, <1>3, <2>2, <3>2
    <3>3. CASE ~(ok /\ k = d)
      <4>1. entry # Absent /\ s = e /\ k <= c /\ c \in Nat
        BY <1>1, <1>4, <1>5, <1>6, <3>1, <3>3
      <4>2. PICK m \in D : Start(m) = e /\ Count(m) = c
        BY <1>8, <4>1
      <4>3. k \in 1 .. Count(m)
        BY <3>1, <4>1, <4>2
      <4>4. PICK j \in D : Passed(j) /\ Start(j) = Start(m) /\ Count(j) = k
        BY <1>15, <4>3
      <4> QED BY <1>2, <1>3, <2>2, <4>1, <4>2, <4>4
    <3> QED BY <3>2, <3>3
  <2> QED BY <1>2, <2>1, <2>2
<1>17. EntryIsLast'
  <2>1. limit > 0 => d \in 1 .. limit
    BY <1>1, <1>4, <1>5, <1>6, <1>8
  <2>2. ASSUME NEW i \in D
        PROVE  \/ Start(i) = s /\ Count(i) <= d
               \/ Start(i) + window <= s
    BY <1>1, <1>4, <1>5, <1>6, <1>8
  <2>3. \A i \in (DOMAIN answers)' : \/ Start(i)' = s /\ Count(i)' <= d
                                    \/ Start(i)' + window <= s
    BY <1>2, <1>3, <1>4, <2>2
  <2>4. \E i \in (DOMAIN answers)' : Start(i)' = s /\ Count(i)' = d
    BY <1>2, <1>3
  <2> QED BY <1>1, <1>2, <2>1, <2>3, <2>4 DEF EntryIsLast, s, d
<1>18. /\ entry' = bare' \/ (limit = 0 /\ entry'.start = bare'.start)
       /\ \/ Request(entry).allowed = Request(bare).allowed
          \/ limit = 0 /\ ~Request(entry).allowed
  <2> DEFINE r == Request(entry)
             q == Request(bare)
  <2> SUFFICES /\ r.entry = q.entry \/ (limit = 0 /\ r.entry.start = q.entry.start)
               /\ r.allowed = q.allowed \/ (limit = 0 /\ ~r.allowed)
    BY <1>2
  <2>1. CASE entry = bare
    BY <2>1
  <2>2. CASE entry = Absent /\ bare # Absent /\ clock - bare.start >= 2 * window
    <3>1. \/ r = [entry |-> [count |-> 1, start |-> clock], allowed |-> TRUE]
          \/ limit = 0 /\ r = [entry |-> [count |-> 0, start |-> clock], allowed |-> FALSE]
      BY <1>1, <2>2, RequestFacts
    <3>2. bare.start \in Nat /\ ~(clock - bare.start < window)
      BY <1>1, <2>2 DEF Entries
    <3>3. q = [entry |-> [count |-> 1, start |-> clock], allowed |-> TRUE]
      BY <1>1, <2>2, <3>2, RequestFacts
    <3> HIDE DEF r, q
    <3>4. q.entry.start = clock /\ q.allowed = TRUE
      BY <3>3
    <3>5. CASE r = [entry |-> [count |-> 1, start |-> clock], allowed |-> TRUE]
      BY <3>3, <3>5
    <3>6. CASE limit = 0 /\ r = [entry |-> [count |-> 0, start |-> clock], allowed |-> FALSE]
      <4>1. r.entry.start = clock /\ r.allowed = FALSE
        BY <3>6
      <4> QED BY <3>4, <3>6, <4>1
    <3> QED BY <3>1, <3>5, <3>6
  <2>3. CASE limit = 0 /\ entry # Absent /\ bare # Absent /\ entry.start = bare.start
    <3>1. entry \in Entries /\ bare \in Entries /\ entry.start \in Nat
          /\ ~(entry.count < 0) /\ ~(bare.count < 0)
      BY <1>1, <2>3 DEF Entries
    <3>2. CASE clock - entry.start >= window
      <4>1. ~(clock - entry.start < window) /\ ~(clock - bare.start < window)
        BY <1>1, <2>3, <3>1, <3>2
      <4>2. r = [entry |-> [count |-> 1, start |-> clock], allowed |-> TRUE]
        BY <1>1, <2>3, <4>1, RequestFacts
      <4>3. q = [entry |-> [count |-> 1, start |-> clock], allowed |-> TRUE]
        BY <1>1, <2>3, <4>1, RequestFacts
      <4> HIDE DEF r, q
      <4> QED BY <4>2, <4>3
    <3>3. CASE ~(clock - entry.start >= window)
      <4>1. ~(clock - bare.start >= window)
        BY <2>3, <3>3
      <4>2. r = [entry |-> entry, allowed |-> FALSE]
        BY <1>1, <2>3, <3>1, <3>3, RequestFacts
      <4>3. q = [entry |-> bare, allowed |-> FALSE]
        BY <1>1, <2>3, <3>1, <4>1, RequestFacts
      <4> HIDE DEF r, q
      <4> QED BY <2>3, <4>2, <4>3
    <3> QED BY <3>2, <3>3
  <2> QED BY <2>1, <2>2, <2>3 DEF RateInv, CleanedIsExpired
<1>19. CleanedIsExpired' /\ CleanupInvisible'
  <2>1. \A i \in D : \/ answers[i].allowed = answers[i].unclean
                     \/ limit = 0 /\ ~answers[i].allowed
    BY DEF RateInv, CleanupInvisible, D
  <2>2. ASSUME NEW i \in DOMAIN answers'
        PROVE  \/ answers'[i].allowed = answers'[i].unclean
               \/ limit = 0 /\ ~answers'[i].allowed
    <3>1. CASE i \in D
      BY <1>2, <2>1, <3>1, Zenon
    <3>2. CASE i = nr
      <4>1. /\ answers'[i].allowed = Request(entry).allowed
            /\ answers'[i].unclean = Request(bare).allowed
        BY <1>2, <3>2 DEF ok
      <4> QED BY <1>18, <4>1, Zenon
    <3> QED BY <1>2, <3>1, <3>2
  <2>3. CleanupInvisible'
    BY <1>1, <2>2 DEF CleanupInvisible
  <2> QED BY <1>1, <1>2, <1>18, <2>3 DEF CleanedIsExpired
<1> QED BY <1>9, <1>10, <1>12, <1>14, <1>16, <1>17, <1>19 DEF RateInv

LEMMA RateSteps == RateInv /\ [RateNext]_rateVars => RateInv'
<1> SUFFICES ASSUME RateInv, [RateNext]_rateVars PROVE RateInv'
  OBVIOUS
<1>1. /\ limit \in Nat /\ window \in Nat \ {0} /\ clock \in Nat
      /\ entry \in Entries \cup {Absent} /\ bare \in Entries \cup {Absent}
      /\ (entry # Absent => entry.start <= clock) /\ (bare # Absent => bare.start <= clock)
      /\ answers \in Seq(Answers)
  BY DEF RateInv, RateTypes
<1>2. \A e \in Entries \cup {Absent} : e # Absent => e.start \in Nat
  BY DEF Entries
<1>3. \A i \in DOMAIN answers : Start(i) \in Nat /\ At(i) \in Nat
  <2>1. \A i \in DOMAIN answers : answers[i] \in Answers
    BY <1>1
  <2>2. \A a \in Answers : a.entry.start \in Nat /\ a.at \in Nat
    BY DEF Answers, Entries
  <2> QED BY <2>1, <2>2 DEF Start, At
<1>4. CASE Ask
  BY <1>4, AskSteps
<1>5. CASE Cleanup
  <2>1. /\ entry # Absent /\ clock - entry.start >= 2 * window
        /\ entry' = Absent /\ UNCHANGED <<limit, window, clock, bare, answers>>
    BY <1>5 DEF Cleanup
  <2>2. InItsWindow' /\ PlacesApart' /\ WindowsApart' /\ PlacesTaken' /\ CleanupInvisible'
    BY <2>1 DEF RateInv, InItsWindow, PlacesApart, WindowsApart, PlacesTaken, CleanupInvisible,
       Start, Count, Passed, At, Allowance
  <2>3. RateTypes'
    BY <1>1, <2>1 DEF RateTypes
  <2>4. ASSUME NEW i \in DOMAIN answers PROVE Start(i) + window <= clock
    <3>1. Start(i) = entry.start \/ Start(i) + window <= entry.start
      BY <2>1 DEF RateInv, EntryIsLast
    <3> QED BY <1>1, <1>2, <1>3, <2>1, <3>1
  <2>5. EntryIsLast'
    BY <2>1, <2>4 DEF EntryIsLast, Start
  <2>6. CleanedIsExpired'
    BY <2>1 DEF RateInv, CleanedIsExpired
  <2> QED BY <2>2, <2>3, <2>5, <2>6 DEF RateInv
<1>6. CASE Elapse
  <2>1. clock' = clock + 1 /\ UNCHANGED <<limit, window, entry, bare, answers>>
    BY <1>6 DEF Elapse
  <2>2. PlacesApart' /\ WindowsApart' /\ PlacesTaken' /\ CleanupInvisible'
    BY <2>1 DEF RateInv, PlacesApart, WindowsApart, PlacesTaken, CleanupInvisible,
       Start, Count, Passed, At
  <2>3. RateTypes'
    BY <1>1, <1>2, <2>1 DEF RateTypes
  <2>4. ASSUME NEW i \in DOMAIN answers PROVE At(i) <= clock + 1
    BY <1>1, <1>3 DEF RateInv, InItsWindow
  <2>5. InItsWindow'
    BY <2>1, <2>4 DEF RateInv, InItsWindow, Start, Count, Passed, At, Allowance
  <2>6. ASSUME NEW i \in DOMAIN answers, entry = Absent PROVE Start(i) + window <= clock + 1
    BY <1>1, <1>3, <2>6 DEF RateInv, EntryIsLast
  <2>7. EntryIsLast'
    BY <2>1, <2>6 DEF RateInv, EntryIsLast, Start, Count
  <2>8. CleanedIsExpired'
    <3> DEFINE s == bare.start
    <3>1. bare # Absent => s \in Nat
      BY <1>1, <1>2
    <3> HIDE DEF s
    <3>2. bare # Absent => (clock - s >= 2 * window => clock + 1 - s >= 2 * window)
      BY <1>1, <3>1
    <3>3. CASE entry = Absent /\ bare # Absent /\ clock - bare.start >= 2 * window
      <4>1. clock' - bare'.start >= 2 * window'
        <5>1. clock' = clock + 1 /\ bare'.start = bare.start /\ window' = window
          BY <2>1
        <5>2. clock + 1 - bare.start >= 2 * window
          BY <3>2, <3>3, Zenon DEF s
        <5>3. bare.start \in Nat
          BY <3>1, <3>3 DEF s
        <5> QED BY <1>1, <5>1, <5>2, <5>3
      <4> QED BY <2>1, <3>3, <4>1 DEF CleanedIsExpired
    <3>4. CASE entry = bare
      BY <2>1, <3>4 DEF CleanedIsExpired
    <3>5. CASE limit = 0 /\ entry # Absent /\ bare # Absent /\ entry.start = bare.start
      BY <2>1, <3>5 DEF CleanedIsExpired
    <3> QED BY <3>3, <3>4, <3>5 DEF RateInv, CleanedIsExpired
  <2> QED BY <2>2, <2>3, <2>5, <2>7, <2>8 DEF RateInv
<1>7. CASE UNCHANGED rateVars
  BY <1>7 DEF rateVars, RateInv, RateTypes, InItsWindow, PlacesApart, WindowsApart, PlacesTaken,
     EntryIsLast, CleanedIsExpired, CleanupInvisible, Start, Count, Passed, At, Allowance
<1> QED BY <1>4, <1>5, <1>6, <1>7 DEF RateNext

\* Two requests of such an interval with the same number are of one window and
\* have the same place in it.
LEMMA NumbersTell ==
  ASSUME NEW l \in Nat, NEW w \in Nat, NEW t \in Nat,
         NEW s1 \in Nat, NEW c1 \in 1 .. l, NEW a1 \in t .. t + w - 1,
         NEW s2 \in Nat, NEW c2 \in 1 .. l, NEW a2 \in t .. t + w - 1,
         s1 <= a1, a1 < s1 + w, s1 < t => c1 > 1, s2 <= a2, a2 < s2 + w, s2 < t => c2 > 1,
         s1 < s2 => s1 + w <= s2, s2 < s1 => s2 + w <= s1,
         (IF s1 >= t THEN c1 ELSE l + c1 - 1) = (IF s2 >= t THEN c2 ELSE l + c2 - 1)
  PROVE  s1 = s2 /\ c1 = c2
<1>1. CASE s1 >= t /\ s2 >= t
  BY <1>1
<1>2. CASE s1 < t /\ s2 < t
  BY <1>2
<1>3. CASE s1 >= t /\ s2 < t
  BY <1>3
<1>4. CASE s1 < t /\ s2 >= t
  BY <1>4
<1> QED BY <1>1, <1>2, <1>3, <1>4

\* In an interval of the window's length the allowed requests of the window in
\* which it begins are not the first of theirs, and those of the next one are
\* at most the limit: their places are all different.
LEMMA BurstsAreShort == RateInv => NoBurst
<1> SUFFICES ASSUME RateInv, NEW b \in DOMAIN answers
             PROVE  Cardinality(PassedFrom(answers[b].at)) < 2 * Allowance
  BY DEF NoBurst
<1> DEFINE l0 == Allowance
           t == answers[b].at
           S == PassedFrom(t)
           Slots == 1 .. 2 * l0 - 1
           f == [i \in S |-> IF Start(i) >= t THEN Count(i) ELSE l0 + Count(i) - 1]
<1>1. l0 \in Nat /\ l0 >= 1 /\ window \in Nat \ {0} /\ answers \in Seq(Answers)
  BY DEF RateInv, RateTypes, Allowance
<1> HIDE DEF l0
<1>2. \A i \in DOMAIN answers : Start(i) \in Nat /\ Count(i) \in Nat /\ At(i) \in Nat
  <2>1. \A i \in DOMAIN answers : answers[i] \in Answers
    BY <1>1
  <2>2. \A a \in Answers : a.entry.start \in Nat /\ a.entry.count \in Nat /\ a.at \in Nat
    BY DEF Answers, Entries
  <2> QED BY <2>1, <2>2 DEF Start, Count, At
<1>3. t \in Nat
  BY <1>2 DEF At
<1>4. ASSUME NEW i \in S
      PROVE  /\ i \in DOMAIN answers /\ Passed(i) /\ Start(i) \in Nat
             /\ At(i) \in t .. t + window - 1
             /\ Start(i) <= At(i) /\ At(i) < Start(i) + window
             /\ Count(i) \in 1 .. l0 /\ (Start(i) < t => Count(i) > 1)
  <2>1. i \in DOMAIN answers /\ Passed(i) /\ At(i) \in t .. t + window - 1
    BY DEF PassedFrom, AskedFrom, Passed, At
  <2>2. /\ Start(i) <= At(i) /\ At(i) < Start(i) + window
        /\ Count(i) >= 1 /\ Count(i) <= l0 /\ (Count(i) = 1 => At(i) = Start(i))
    BY <2>1 DEF RateInv, InItsWindow, l0
  <2> HIDE DEF t, S
  <2> QED BY <1>1, <1>2, <1>3, <2>1, <2>2
<1>5. IsFiniteSet(S) /\ IsFiniteSet(Slots) /\ Cardinality(Slots) = 2 * l0 - 1
  <2>1. DOMAIN answers = 1 .. Len(answers) /\ Len(answers) \in Int /\ 1 \in Int
    BY <1>1
  <2>2. IsFiniteSet(1 .. Len(answers))
    BY <2>1, FS_Interval
  <2>3. S \in SUBSET (1 .. Len(answers))
    BY <1>4, <2>1
  <2>4. 2 * l0 - 1 \in Int /\ ~(1 > 2 * l0 - 1) /\ (2 * l0 - 1) - 1 + 1 = 2 * l0 - 1
    BY <1>1
  <2> HIDE DEF S
  <2>5. IsFiniteSet(S)
    BY <2>2, <2>3, FS_Subset
  <2>6. IsFiniteSet(Slots) /\ Cardinality(Slots) = 2 * l0 - 1
    BY <2>1, <2>4, FS_Interval
  <2> QED BY <2>5, <2>6
<1>6. f \in [S -> Slots]
  <2>1. ASSUME NEW i \in S PROVE (IF Start(i) >= t THEN Count(i) ELSE l0 + Count(i) - 1) \in Slots
    <3> HIDE DEF t, S
    <3> QED BY <1>1, <1>3, <1>4
  <2> HIDE DEF S, Slots, t
  <2> QED BY <2>1
<1>7. ASSUME NEW i \in S, NEW j \in S, f[i] = f[j] PROVE i = j
  <2> DEFINE g(x) == IF Start(x) >= t THEN Count(x) ELSE l0 + Count(x) - 1
  <2>1. g(i) = g(j)
    BY <1>7
  <2>2. /\ i \in DOMAIN answers /\ Passed(i) /\ Start(i) \in Nat
        /\ At(i) \in t .. t + window - 1
        /\ Start(i) <= At(i) /\ At(i) < Start(i) + window
        /\ Count(i) \in 1 .. l0 /\ (Start(i) < t => Count(i) > 1)
    BY <1>4
  <2>3. /\ j \in DOMAIN answers /\ Passed(j) /\ Start(j) \in Nat
        /\ At(j) \in t .. t + window - 1
        /\ Start(j) <= At(j) /\ At(j) < Start(j) + window
        /\ Count(j) \in 1 .. l0 /\ (Start(j) < t => Count(j) > 1)
    BY <1>4
  <2>4. /\ Start(i) < Start(j) => Start(i) + window <= Start(j)
        /\ Start(j) < Start(i) => Start(j) + window <= Start(i)
    BY <2>2, <2>3 DEF RateInv, WindowsApart
  <2> HIDE DEF t, S, f
  <2>5. Start(i) = Start(j) /\ Count(i) = Count(j)
    <3> DEFINE s1 == Start(i)
               s2 == Start(j)
               c1 == Count(i)
               c2 == Count(j)
               a1 == At(i)
               a2 == At(j)
               w == window
               l == l0
    <3>1. /\ l \in Nat /\ w \in Nat /\ t \in Nat
          /\ s1 \in Nat /\ c1 \in 1 .. l /\ a1 \in t .. t + w - 1
          /\ s2 \in Nat /\ c2 \in 1 .. l /\ a2 \in t .. t + w - 1
          /\ s1 <= a1 /\ a1 < s1 + w /\ (s1 < t => c1 > 1)
          /\ s2 <= a2 /\ a2 < s2 + w /\ (s2 < t => c2 > 1)
          /\ (s1 < s2 => s1 + w <= s2) /\ (s2 < s1 => s2 + w <= s1)
      BY <1>1, <1>3, <2>2, <2>3, <2>4
    <3>2. (IF s1 >= t THEN c1 ELSE l + c1 - 1) = (IF s2 >= t THEN c2 ELSE l + c2 - 1)
      BY <2>1
    <3> HIDE DEF s1, s2, c1, c2, a1, a2, w, l
    <3>3. s1 = s2 /\ c1 = c2
      BY <3>1, <3>2, NumbersTell
    <3> QED BY <3>3 DEF s1, s2, c1, c2
  <2> QED BY <2>2, <2>3, <2>5 DEF RateInv, PlacesApart
<1> HIDE DEF S, Slots, f, t
<1>8. ~(Cardinality(Slots) < Cardinality(S))
  BY <1>5, <1>6, <1>7, FS_PigeonHole
<1>9. Cardinality(S) \in Nat
  BY <1>5, FS_CardinalityType
<1> QED BY <1>1, <1>5, <1>8, <1>9 DEF S, t, l0

\* A refused request came in a window whose limit others had used up: from its
\* beginning on more than the limit were asked for.
LEMMA RefusedExceeds == RateInv => NeverPunished
<1> SUFFICES ASSUME RateInv, NEW i \in DOMAIN answers, ~Passed(i)
             PROVE  \E b \in DOMAIN answers : ~(Cardinality(AskedFrom(answers[b].at)) <= limit)
  BY DEF NeverPunished, Passed
<1>1. limit \in Nat /\ window \in Nat \ {0} /\ answers \in Seq(Answers)
  BY DEF RateInv, RateTypes
<1>2. \A k \in DOMAIN answers : Start(k) \in Nat /\ Count(k) \in Nat /\ At(k) \in Nat
  <2>1. \A k \in DOMAIN answers : answers[k] \in Answers
    BY <1>1
  <2>2. \A a \in Answers : a.entry.start \in Nat /\ a.entry.count \in Nat /\ a.at \in Nat
    BY DEF Answers, Entries
  <2> QED BY <2>1, <2>2 DEF Start, Count, At
<1>3. Count(i) >= limit /\ \A k \in DOMAIN answers : Start(k) <= At(k) /\ At(k) < Start(k) + window
  BY DEF RateInv, InItsWindow
<1>4. ASSUME NEW k \in 1 .. limit
      PROVE  \E j \in DOMAIN answers : Passed(j) /\ Start(j) = Start(i) /\ Count(j) = k
  <2>1. k \in 1 .. Count(i)
    BY <1>1, <1>2, <1>3
  <2> QED BY <2>1 DEF RateInv, PlacesTaken
<1>5. PICK b \in DOMAIN answers : IF limit = 0 THEN b = i ELSE At(b) = Start(i)
  <2>1. CASE limit = 0
    BY <2>1
  <2>2. CASE limit # 0
    <3>1. 1 \in 1 .. limit
      BY <1>1, <2>2
    <3>2. PICK j \in DOMAIN answers : Passed(j) /\ Start(j) = Start(i) /\ Count(j) = 1
      BY <1>4, <3>1
    <3>3. At(j) = Start(j)
      BY <3>2 DEF RateInv, InItsWindow
    <3> QED BY <2>2, <3>2, <3>3
  <2> QED BY <2>1, <2>2
<1> DEFINE t == answers[b].at
           Slots == AskedFrom(t)
           S == 1 .. limit + 1
           place(k) == CHOOSE j \in DOMAIN answers :
                         Passed(j) /\ Start(j) = Start(i) /\ Count(j) = k
           f == [k \in S |-> IF k = limit + 1 THEN i ELSE place(k)]
<1>6. ASSUME NEW k \in 1 .. limit
      PROVE  /\ place(k) \in DOMAIN answers /\ Passed(place(k))
             /\ Start(place(k)) = Start(i) /\ Count(place(k)) = k
  BY <1>4, Zenon
<1> HIDE DEF place
<1>7. ASSUME NEW j \in DOMAIN answers, Start(j) = Start(i), limit = 0 => j = i PROVE j \in Slots
  <2>1. At(j) \in t .. t + window - 1
    <3>1. t = At(b) /\ t \in Nat
      BY <1>2 DEF At
    <3> HIDE DEF t
    <3> QED BY <1>1, <1>2, <1>3, <1>5, <1>7, <3>1
  <2> QED BY <2>1 DEF AskedFrom, At
<1>8. f \in [S -> Slots]
  <2>1. ASSUME NEW k \in S PROVE (IF k = limit + 1 THEN i ELSE place(k)) \in Slots
    <3>1. CASE k = limit + 1
      BY <1>7, <3>1
    <3>2. CASE k # limit + 1
      <4>1. k \in 1 .. limit /\ limit # 0
        BY <1>1, <3>2
      <4>2. place(k) \in Slots
        BY <1>6, <1>7, <4>1
      <4> QED BY <3>2, <4>2
    <3> QED BY <3>1, <3>2
  <2> HIDE DEF S, Slots
  <2> QED BY <2>1
<1>9. ASSUME NEW k \in S, NEW l \in S, f[k] = f[l] PROVE k = l
  <2>1. (IF k = limit + 1 THEN i ELSE place(k)) = (IF l = limit + 1 THEN i ELSE place(l))
    BY <1>9
  <2>2. \A m \in S : m # limit + 1 => m \in 1 .. limit
    BY <1>1
  <2>3. \A m \in S : m # limit + 1 => Passed(place(m)) /\ Count(place(m)) = m
    BY <1>6, <2>2
  <2> QED BY <2>1, <2>3
<1>10. /\ IsFiniteSet(S) /\ Cardinality(S) = limit + 1 /\ IsFiniteSet(Slots)
  <2>1. DOMAIN answers = 1 .. Len(answers) /\ Len(answers) \in Int /\ 1 \in Int
        /\ limit + 1 \in Int /\ ~(1 > limit + 1) /\ (limit + 1) - 1 + 1 = limit + 1
    BY <1>1
  <2>2. IsFiniteSet(1 .. Len(answers)) /\ IsFiniteSet(S) /\ Cardinality(S) = limit + 1
    BY <2>1, FS_Interval
  <2>3. Slots \in SUBSET (1 .. Len(answers))
    BY <2>1 DEF AskedFrom
  <2> HIDE DEF Slots
  <2> QED BY <2>2, <2>3, FS_Subset
<1> HIDE DEF S, Slots, f
<1>11. ~(Cardinality(Slots) < Cardinality(S))
  BY <1>8, <1>9, <1>10, FS_PigeonHole
<1>12. Cardinality(Slots) \in Nat
  BY <1>10, FS_CardinalityType
<1>13. ~(Cardinality(Slots) <= limit)
  BY <1>1, <1>10, <1>11, <1>12
<1> QED BY <1>13 DEF Slots

-----------------------------------------------------------------------------
(***************************************************************************)
(* All of them together                                                    *)
(***************************************************************************)

\* A step of the instance is a step of each machine or leaves it alone.
LEMMA EachMachineSteps ==
  [AlgorithmsNext]_allVars =>
    /\ [Next]_vars /\ [LogNext]_logVars /\ [TransferNext]_transferVars
    /\ [TimerNext]_timerVars /\ [PoolNext]_poolVars /\ [RateNext]_rateVars
<1> SUFFICES ASSUME [AlgorithmsNext]_allVars
             PROVE  /\ [Next]_vars /\ [LogNext]_logVars /\ [TransferNext]_transferVars
                    /\ [TimerNext]_timerVars /\ [PoolNext]_poolVars /\ [RateNext]_rateVars
  OBVIOUS
<1>1. CASE Take
  BY Zenon, <1>1 DEF Take
<1>2. CASE Next /\ UNCHANGED <<logVars, transferVars, timerVars, poolVars, rateVars>>
  BY Zenon, <1>2
<1>3. CASE LogNext /\ UNCHANGED <<vars, transferVars, timerVars, poolVars, rateVars>>
  BY Zenon, <1>3
<1>4. CASE TransferNext /\ UNCHANGED <<vars, logVars, timerVars, poolVars, rateVars>>
  BY Zenon, <1>4
<1>5. CASE TimerNext /\ UNCHANGED <<vars, logVars, transferVars, poolVars, rateVars>>
  BY Zenon, <1>5
<1>6. CASE PoolNext /\ UNCHANGED <<vars, logVars, transferVars, timerVars, rateVars>>
  BY Zenon, <1>6
<1>7. CASE RateNext /\ UNCHANGED <<vars, logVars, transferVars, timerVars, poolVars>>
  BY Zenon, <1>7
<1>8. CASE UNCHANGED allVars
  BY Zenon, <1>8 DEF allVars
<1> QED BY Zenon, <1>1, <1>2, <1>3, <1>4, <1>5, <1>6, <1>7, <1>8 DEF AlgorithmsNext

\* A receiver that takes a file block by block gets all of it, whatever the
\* sizes and the number of block numbers (get_block_payload, block_to_absolute).
THEOREM FilesArriveWhole == AlgorithmsSpec => []BlocksAddUp
<1>1. AlgorithmsInit => WalkInv
  BY WalkStarts DEF AlgorithmsInit
<1>2. WalkInv /\ [AlgorithmsNext]_allVars => WalkInv'
  BY EachMachineSteps, WalkSteps
<1>3. WalkInv => BlocksAddUp
  BY WalkIsRight DEF BlocksAddUp
<1> QED BY <1>1, <1>2, <1>3, PTL DEF AlgorithmsSpec

\* The log files, the log tab and the transfer history are true and in order,
\* through rotation, crashes and restarts, and miss nothing but what KeepsTheEnd
\* and OnlyGluedAreLost name: for the log, lines a full queue dropped, lines
\* waiting when a process ended, and lines a rotation overtook; whatever the
\* numbers of lines, entries and records (core/log_buffer.rs, core/state.rs).
THEOREM RecordsAreKept == AlgorithmsSpec => []LogsAreKept
<1>1. AlgorithmsInit => LogInv /\ TransferInv
  BY LogStarts, TransferStarts DEF AlgorithmsInit
<1>2. LogInv /\ TransferInv /\ [AlgorithmsNext]_allVars => (LogInv /\ TransferInv)'
  BY EachMachineSteps, LogSteps, TransferSteps
<1>3. LogInv /\ TransferInv => LogsAreKept
  BY LogTells, HistoryTells DEF LogsAreKept
<1> QED BY <1>1, <1>2, <1>3, PTL DEF AlgorithmsSpec

-----------------------------------------------------------------------------
(***************************************************************************)
(* The access list                                                         *)
(***************************************************************************)

\* Rule k is one that decides.
Decides(rules, client, op, k) ==
  A!Names(rules[k], client, op) /\ rules[k].action \in {"allow", "deny"}

\* What the last k of len rules say
Reads(rules, mode, client, op, g) ==
  /\ g[0] = IF mode = "whitelist" THEN "deny" ELSE "allow"
  /\ \A k \in Nat : g[k + 1] = IF Decides(rules, client, op, Len(rules) - k)
                                 THEN rules[Len(rules) - k].action ELSE g[k]

LEMMA ReadLoop ==
  ASSUME NEW config, Len(config.rules) \in Nat, NEW client, NEW op
  PROVE  \E g : /\ Reads(config.rules, config.mode, client, op, g)
                /\ A!ReadAsList(config, client, op)
                     = (A!Check(A!Engine(config), client, op)
                          = (config.mode \in {"whitelist", "blacklist"}
                               => g[Len(config.rules)] = "allow"))
<1> DEFINE len == Len(config.rules)
           Y == {"allow", "deny"}
           first == IF config.mode = "whitelist" THEN "deny" ELSE "allow"
           Read(k, below) ==
             LET r == config.rules[len - k + 1]
             IN  IF A!Names(r, client, op) /\ r.action \in {"allow", "deny"} THEN r.action ELSE below
           step == [p \in Nat \X Y |-> Read(p[1] + 1, p[2])]
           Is(g) == g = [k \in Nat |-> IF k = 0 THEN first ELSE Read(k, g[k - 1])]
           F == CHOOSE g : Is(g)
<1>1. step \in [Nat \X Y -> Y] /\ first \in Y
  OBVIOUS
<1>2. PICK g \in Recursions(Y, first, step) : TRUE
  <2> HIDE DEF step, Y, first
  <2> QED BY <1>1, RecursionExists
<1>3. /\ g \in [Nat -> Y] /\ g[0] = first
      /\ \A k \in Nat : g[k + 1] = step[<<k, g[k]>>]
  <2> HIDE DEF step, Y, first
  <2> QED BY <1>2 DEF Recursions
<1> HIDE DEF Read, first
<1>4. \A k \in Nat : g[k + 1] = Read(k + 1, g[k])
  <2> SUFFICES ASSUME NEW k \in Nat PROVE g[k + 1] = Read(k + 1, g[k])
    OBVIOUS
  <2>1. <<k, g[k]>> \in Nat \X Y /\ <<k, g[k]>>[1] = k /\ <<k, g[k]>>[2] = g[k]
    BY <1>3
  <2>2. g[k + 1] = step[<<k, g[k]>>]
    BY <1>3
  <2> HIDE DEF Y
  <2> QED BY <2>1, <2>2
<1>5. Is(g)
  <2>1. ASSUME NEW k \in Nat PROVE g[k] = IF k = 0 THEN first ELSE Read(k, g[k - 1])
    <3>1. CASE k = 0
      BY <1>3, <3>1
    <3>2. CASE k # 0
      <4>1. k - 1 \in Nat /\ (k - 1) + 1 = k
        BY <3>2
      <4> QED BY <1>4, <3>2, <4>1
    <3> QED BY <3>1, <3>2
  <2> HIDE DEF Y
  <2> QED BY <1>3, <2>1
<1>6. Is(F)
  <2> HIDE DEF Is
  <2> QED BY <1>5, Zenon DEF F
<1>7. F = [k \in Nat |-> IF k = 0 THEN first ELSE Read(k, F[k - 1])]
  BY <1>6, Zenon DEF Is
<1>8. A!ReadAsList(config, client, op)
        = (A!Check(A!Engine(config), client, op)
             = (config.mode \in {"whitelist", "blacklist"} => F[len] = "allow"))
  BY Zenon DEF A!ReadAsList, F, Is, Read, first, len
<1> HIDE DEF F
<1>9. F[0] = first
  BY <1>7
<1>10. ASSUME NEW k \in Nat PROVE F[k + 1] = Read(k + 1, F[k])
  <2>1. k + 1 \in Nat /\ k + 1 # 0 /\ (k + 1) - 1 = k
    OBVIOUS
  <2> QED BY <1>7, <2>1, Zenon
<1>11. Reads(config.rules, config.mode, client, op, F)
  <2>1. ASSUME NEW k \in Nat
        PROVE  F[k + 1] = IF Decides(config.rules, client, op, len - k)
                            THEN config.rules[len - k].action ELSE F[k]
    <3>1. len - (k + 1) + 1 = len - k
      OBVIOUS
    <3>2. Read(k + 1, F[k]) = IF A!Names(config.rules[len - k], client, op)
                                    /\ config.rules[len - k].action \in {"allow", "deny"}
                               THEN config.rules[len - k].action ELSE F[k]
      BY <3>1, Zenon DEF Read
    <3> QED BY <1>10, <3>2, Zenon DEF Decides
  <2> QED BY <1>9, <2>1, Zenon DEF Reads, first, len
<1> QED BY <1>8, <1>11, Zenon DEF len

\* The topmost rule that decides, or the mode
LEMMA ReadTopmost ==
  ASSUME NEW rules, Len(rules) \in Nat, NEW mode, NEW client, NEW op, NEW g,
         Reads(rules, mode, client, op, g)
  PROVE  /\ \A k \in 1 .. Len(rules) :
              /\ Decides(rules, client, op, k)
              /\ \A j \in 1 .. k - 1 : ~Decides(rules, client, op, j)
              => g[Len(rules)] = rules[k].action
         /\ (\A k \in 1 .. Len(rules) : ~Decides(rules, client, op, k))
              => g[Len(rules)] = IF mode = "whitelist" THEN "deny" ELSE "allow"
<1> DEFINE len == Len(rules)
           D(k) == Decides(rules, client, op, k)
           first == IF mode = "whitelist" THEN "deny" ELSE "allow"
           Ok(m) == /\ \A k \in len - m + 1 .. len :
                         D(k) /\ (\A j \in len - m + 1 .. k - 1 : ~D(j)) => g[m] = rules[k].action
                    /\ (\A k \in len - m + 1 .. len : ~D(k)) => g[m] = first
           S == {m \in Nat : m <= len => Ok(m)}
<1> HIDE DEF D
<1>1. g[0] = first /\ \A k \in Nat : g[k + 1] = IF D(len - k) THEN rules[len - k].action ELSE g[k]
  BY Zenon DEF Reads, D
<1> HIDE DEF len, first
<1>0. len \in Nat
  BY DEF len
<1>2. 0 \in S
  <2>1. len - 0 + 1 .. len = {}
    BY <1>0
  <2> QED BY <1>1, <2>1
<1>3. ASSUME NEW m \in Nat, m \in S PROVE m + 1 \in S
  <2> SUFFICES ASSUME m + 1 <= len PROVE Ok(m + 1)
    OBVIOUS
  <2>1. Ok(m)
    BY <1>0, <1>3
  <2> DEFINE t == len - m
  <2>2. t \in 1 .. len /\ len - (m + 1) + 1 = t /\ len - m + 1 = t + 1
    BY <1>0
  <2>3. g[m + 1] = IF D(t) THEN rules[t].action ELSE g[m]
    BY <1>1
  <2>4. /\ \A k \in t + 1 .. len :
              D(k) /\ (\A j \in t + 1 .. k - 1 : ~D(j)) => g[m] = rules[k].action
        /\ (\A k \in t + 1 .. len : ~D(k)) => g[m] = first
    BY <2>1, <2>2
  <2> HIDE DEF t
  <2>5. ASSUME NEW k \in t .. len, D(k), \A j \in t .. k - 1 : ~D(j) PROVE g[m + 1] = rules[k].action
    <3>1. CASE k = t
      BY <2>3, <2>5, <3>1
    <3>2. CASE k # t
      <4>1. t \in t .. k - 1 /\ k \in t + 1 .. len /\ \A j \in t + 1 .. k - 1 : j \in t .. k - 1
        BY <1>0, <2>2, <3>2
      <4> QED BY <2>3, <2>4, <2>5, <4>1
    <3> QED BY <3>1, <3>2
  <2>6. ASSUME \A k \in t .. len : ~D(k) PROVE g[m + 1] = first
    <3>1. t \in t .. len /\ \A k \in t + 1 .. len : k \in t .. len
      BY <1>0, <2>2
    <3> QED BY <2>3, <2>4, <2>6, <3>1
  <2> QED BY <2>2, <2>5, <2>6
<1>4. Nat \subseteq S
  <2> HIDE DEF S
  <2> QED BY <1>2, <1>3, NatSet
<1>5. Ok(len) /\ len - len + 1 = 1
  BY <1>0, <1>4
<1> QED BY <1>5, Zenon DEF len, D, first

\* A kept rule matches when the rule of the text names the client.
LEMMA MatchNames ==
  ASSUME NEW r, NEW client, NEW op \in A!Operations, A!Usable(r)
  PROVE  A!Matches([allow |-> r.action = "allow", source |-> r.source,
                    operations |-> A!OperationsOf(r.operations)], client, op)
           <=> A!Names(r, client, op)
<1> DEFINE e == [allow |-> r.action = "allow", source |-> r.source,
                 operations |-> A!OperationsOf(r.operations)]
<1>1. e.source = r.source /\ e.operations = A!OperationsOf(r.operations)
  OBVIOUS
<1> HIDE DEF e
<1>2. /\ A!Normalized(client).family = IF client.family = "mapped" THEN "v4" ELSE client.family
      /\ A!Normalized(client).bits = client.bits
  BY DEF A!Normalized
<1>3. op \in A!OperationsOf(r.operations)
        <=> \E i \in DOMAIN r.operations : r.operations[i] \in {op, "all"}
  <2> DEFINE words == r.operations
             said == ToSet(words)
  <2>1. \A w : w \in said <=> \E i \in DOMAIN words : words[i] = w
    BY DEF ToSet
  <2>2. A!OperationsOf(words) = IF "all" \in said THEN A!Operations ELSE said \cap A!Operations
    BY Zenon DEF A!OperationsOf, A!ToSet, ToSet
  <2> HIDE DEF words, said
  <2>3. op \in A!OperationsOf(words) <=> "all" \in said \/ op \in said
    BY <2>2
  <2>4. op \in A!OperationsOf(words) <=> \E i \in DOMAIN words : words[i] \in {op, "all"}
    BY <2>1, <2>3
  <2> QED BY <2>4 DEF words
<1>4. r.source.readable
  BY DEF A!Usable
<1> QED BY <1>1, <1>2, <1>3, <1>4, Zenon DEF A!Matches, A!Covers, A!Names, e

\* For every list of rules the engine finds the topmost one that decides, though it
\* drops those it cannot use: it answers as the list reads (AclEngine::new and
\* check in core/acl/mod.rs).
THEOREM ListReads ==
  ASSUME NEW config, NEW X, config.rules \in Seq(X), NEW client, NEW op \in A!Operations
  PROVE  A!ReadAsList(config, client, op)
<1> DEFINE rules == config.rules
           len == Len(rules)
           S == {r \in ToSet(rules) : A!Usable(r)}
           kept == Select(rules, S)
           z == Len(kept)
           D(k) == Decides(rules, client, op, k)
           listed == config.mode \in {"whitelist", "blacklist"}
           engine == A!Engine(config)
           M(i) == A!Matches(engine.rules[i], client, op)
           hits == {i \in DOMAIN engine.rules : M(i)}
           hit == CHOOSE i \in hits : \A j \in hits : i <= j
<1>0. len \in Nat
  OBVIOUS
<1>1. PICK g : /\ Reads(rules, config.mode, client, op, g)
               /\ A!ReadAsList(config, client, op)
                    = (A!Check(engine, client, op) = (listed => g[len] = "allow"))
  BY <1>0, ReadLoop, Zenon
<1>2. /\ \A k \in 1 .. len : D(k) /\ (\A j \in 1 .. k - 1 : ~D(j)) => g[len] = rules[k].action
      /\ (\A k \in 1 .. len : ~D(k)) => g[len] = IF config.mode = "whitelist" THEN "deny" ELSE "allow"
  <2>1. Len(rules) \in Nat /\ Reads(rules, config.mode, client, op, g)
    BY <1>0, <1>1
  <2> HIDE DEF rules
  <2>2. /\ \A k \in 1 .. Len(rules) :
             Decides(rules, client, op, k) /\ (\A j \in 1 .. k - 1 : ~Decides(rules, client, op, j))
             => g[Len(rules)] = rules[k].action
        /\ (\A k \in 1 .. Len(rules) : ~Decides(rules, client, op, k))
             => g[Len(rules)] = IF config.mode = "whitelist" THEN "deny" ELSE "allow"
    BY <2>1, ReadTopmost
  <2> QED BY <2>2, Zenon DEF D, len
<1>3. /\ kept \in Seq(X \cap S) /\ \E f : Places(f, rules, S, kept, len)
  BY SelectPlaces
<1>4. PICK f : Places(f, rules, S, kept, len)
  BY <1>3
<1>5. z \in Nat /\ DOMAIN kept = 1 .. z
  <2> HIDE DEF kept
  <2> QED BY <1>3
<1>6. \A k \in 1 .. len : rules[k] \in S <=> A!Usable(rules[k])
  <2>1. \A k \in 1 .. len : k \in DOMAIN rules
    OBVIOUS
  <2>2. \A k \in 1 .. len : rules[k] \in ToSet(rules)
    BY <2>1, Zenon DEF ToSet
  <2> HIDE DEF len
  <2> QED BY <2>2
<1>7. /\ engine.mode = IF listed THEN config.mode ELSE "disabled"
      /\ engine.rules = [i \in 1 .. z |-> [allow      |-> kept[i].action = "allow",
                                          source     |-> kept[i].source,
                                          operations |-> A!OperationsOf(kept[i].operations)]]
  <2> DEFINE rs == [i \in DOMAIN kept |-> [allow      |-> kept[i].action = "allow",
                                          source     |-> kept[i].source,
                                          operations |-> A!OperationsOf(kept[i].operations)]]
             md == IF listed THEN config.mode ELSE "disabled"
  <2>0. kept = A!Select(rules, {r \in A!ToSet(rules) : A!Usable(r)})
    BY Zenon DEF A!Select, Select, A!ToSet, ToSet
  <2>1. engine = [mode |-> md, rules |-> rs]
    <3> HIDE DEF kept
    <3> QED BY <2>0, Zenon DEF A!Engine
  <2> HIDE DEF rs, md, engine
  <2>2. engine.mode = md /\ engine.rules = rs
    BY <2>1
  <2> QED BY <1>5, <2>2, Zenon DEF rs, md
<1>8. /\ f \in [1 .. z -> 1 .. len]
      /\ \A i \in 1 .. z : kept[i] = rules[f[i]] /\ kept[i] \in S
      /\ \A i, j \in 1 .. z : i < j => f[i] < f[j]
      /\ \A k \in 1 .. len : rules[k] \in S => \E i \in 1 .. z : f[i] = k
  BY <1>4 DEF Places
<1>9. DOMAIN engine.rules = 1 .. z
  <2> HIDE DEF engine
  <2> QED BY <1>7
<1>10. ASSUME NEW i \in 1 .. z
       PROVE  /\ f[i] \in 1 .. len /\ (M(i) <=> D(f[i]))
              /\ engine.rules[i].allow = (rules[f[i]].action = "allow")
              /\ rules[f[i]].action \in {"allow", "deny"}
  <2> DEFINE r == rules[f[i]]
  <2>1. f[i] \in 1 .. len /\ kept[i] = r /\ r \in S
    <3> HIDE DEF kept, z, len, S
    <3> QED BY <1>8
  <2>2. A!Usable(r) /\ r.action \in {"allow", "deny"}
    BY <2>1 DEF A!Usable
  <2>3. engine.rules[i] = [allow |-> r.action = "allow", source |-> r.source,
                           operations |-> A!OperationsOf(r.operations)]
    <3> HIDE DEF kept, z, engine, r
    <3> QED BY <1>7, <2>1
  <2>4. M(i) <=> A!Names(r, client, op)
    <3> HIDE DEF engine, r
    <3> QED BY <2>2, <2>3, MatchNames
  <2>5. engine.rules[i].allow = (r.action = "allow")
    <3> HIDE DEF engine, r
    <3> QED BY <2>3
  <2> QED BY <2>1, <2>2, <2>4, <2>5, Zenon DEF Decides
<1>11. ASSUME NEW k \in 1 .. len, D(k) PROVE \E i \in 1 .. z : f[i] = k
  <2>1. A!Usable(rules[k])
    BY <1>11 DEF Decides, A!Names, A!Usable
  <2> HIDE DEF S, kept, len, z
  <2> QED BY <1>6, <1>8, <2>1
<1>12. /\ hits \subseteq 1 .. z
       /\ \A i \in 1 .. z : i \in hits <=> D(f[i])
  BY <1>9, <1>10
<1>13. CASE ~listed
  <2>1. A!Check(engine, client, op) = TRUE
    BY <1>7, <1>13, Zenon DEF A!Check
  <2> QED BY <1>1, <1>13, <2>1
<1>14. CASE listed /\ hits # {}
  <2>1. hit \in hits /\ \A j \in hits : hit <= j
    <3> HIDE DEF hits
    <3>1. \E i \in hits : \A j \in hits : i <= j
      <4>1. hits \subseteq Nat
        BY <1>5, <1>12
      <4> QED BY <1>14, <4>1, Least
    <3> QED BY <3>1
  <2>2. A!Check(engine, client, op) = engine.rules[hit].allow
    <3>1. engine.mode # "disabled"
      BY <1>7, <1>14
    <3> QED BY <1>14, <3>1, Zenon DEF A!Check
  <2> HIDE DEF hits, hit, M
  <2>3. hit \in 1 .. z /\ f[hit] \in 1 .. len /\ D(f[hit])
    BY <1>10, <1>12, <2>1
  <2>4. ASSUME NEW j \in 1 .. f[hit] - 1, D(j) PROVE FALSE
    <3> HIDE DEF len, z, D
    <3>1. j \in 1 .. len
      BY <1>0, <2>3 DEF len
    <3>2. PICK i \in 1 .. z : f[i] = j
      BY <1>11, <2>4, <3>1
    <3>3. i \in hits
      BY <1>12, <2>4, <3>2
    <3>4. hit <= i
      BY <2>1, <3>3
    <3>5. f[hit] <= f[i]
      <4>1. CASE hit = i
        BY <2>3, <4>1
      <4>2. CASE hit < i
        BY <1>8, <2>3, <4>2
      <4> QED BY <2>3, <3>4, <4>1, <4>2
    <3> QED BY <2>3, <3>2, <3>5
  <2>5. g[len] = rules[f[hit]].action
    <3> HIDE DEF len, D
    <3> QED BY <1>2, <2>3, <2>4
  <2>6. engine.rules[hit].allow = (g[len] = "allow")
    BY <1>10, <2>3, <2>5
  <2> QED BY <1>1, <1>14, <2>2, <2>6
<1>15. CASE listed /\ hits = {}
  <2>1. A!Check(engine, client, op) = (engine.mode = "blacklist")
    <3>1. engine.mode # "disabled"
      BY <1>7, <1>15
    <3> QED BY <1>15, <3>1, Zenon DEF A!Check
  <2>2. \A k \in 1 .. len : ~D(k)
    <3> SUFFICES ASSUME NEW k \in 1 .. len, D(k) PROVE FALSE
      OBVIOUS
    <3>1. PICK i \in 1 .. z : f[i] = k
      BY <1>11
    <3> HIDE DEF hits, D, z, len
    <3> QED BY <1>12, <1>15, <3>1
  <2>3. g[len] = IF config.mode = "whitelist" THEN "deny" ELSE "allow"
    BY <1>2, <2>2, Zenon
  <2>4. (engine.mode = "blacklist") = (g[len] = "allow")
    BY <1>7, <1>15, <2>3
  <2> QED BY <1>1, <1>15, <2>1, <2>4
<1> QED BY <1>13, <1>14, <1>15

-----------------------------------------------------------------------------
(***************************************************************************)
(* Netascii                                                                *)
(***************************************************************************)
LEMMA SameFlatten == \A ss : T!Flatten(ss) = Flatten(ss)
BY Zenon DEF T!Flatten, Flatten

\* The pieces of a text, one for each byte
EncodedBytes(data) == [i \in DOMAIN data |-> T!Encoded(data, i)]
DecodedBytes(data) == [i \in DOMAIN data |-> T!Decoded(data, i)]
UnixBytes(data) ==
  [i \in DOMAIN data |->
     IF data[i] = T!CR /\ T!Followed(data, i, T!LF) THEN <<>> ELSE <<data[i]>>]

LEMMA Pieces ==
  ASSUME NEW data \in Seq(T!Bytes)
  PROVE  /\ EncodedBytes(data) \in Seq(Seq(T!Bytes)) /\ Len(EncodedBytes(data)) = Len(data)
         /\ DecodedBytes(data) \in Seq(Seq(T!Bytes)) /\ Len(DecodedBytes(data)) = Len(data)
         /\ UnixBytes(data) \in Seq(Seq(T!Bytes)) /\ Len(UnixBytes(data)) = Len(data)
<1> DEFINE X == T!Bytes
           z == Len(data)
<1>1. z \in Nat /\ DOMAIN data = 1 .. z /\ \A i \in 1 .. z : data[i] \in X
  OBVIOUS
<1>2. T!CR \in X /\ T!LF \in X /\ T!NUL \in X
  BY DEF T!Bytes
<1> HIDE DEF X, z
<1>3. \A a \in X : <<a>> \in Seq(X) /\ \A b \in X : <<a, b>> \in Seq(X)
  OBVIOUS
<1>4. <<>> \in Seq(X)
  OBVIOUS
<1>5. ASSUME NEW i \in 1 .. z
      PROVE  /\ T!Encoded(data, i) \in Seq(X) /\ T!Decoded(data, i) \in Seq(X)
             /\ (IF data[i] = T!CR /\ T!Followed(data, i, T!LF) THEN <<>> ELSE <<data[i]>>) \in Seq(X)
  <2> DEFINE Y == Seq(X)
  <2>1. /\ \A a \in X : <<a>> \in Y /\ \A b \in X : <<a, b>> \in Y
        /\ <<>> \in Y
    BY <1>3, <1>4
  <2>2. data[i] \in X
    BY <1>1
  <2> HIDE DEF Y
  <2>3. T!Encoded(data, i) \in Y
    BY <1>2, <2>1, <2>2 DEF T!Encoded
  <2>4. T!Decoded(data, i) \in Y
    BY <1>2, <2>1, <2>2 DEF T!Decoded
  <2> QED BY <2>1, <2>2, <2>3, <2>4 DEF Y
<1>6. \A s : s = [i \in 1 .. z |-> s[i]] /\ (\A i \in 1 .. z : s[i] \in Seq(X))
              => s \in Seq(Seq(X)) /\ Len(s) = z
  BY <1>1
<1>7. EncodedBytes(data) \in Seq(Seq(X)) /\ Len(EncodedBytes(data)) = z
  <2> DEFINE s == EncodedBytes(data)
  <2>1. s = [i \in 1 .. z |-> s[i]] /\ \A i \in 1 .. z : s[i] \in Seq(X)
    BY <1>1, <1>5, Zenon DEF EncodedBytes
  <2> HIDE DEF s
  <2>2. s \in Seq(Seq(X)) /\ Len(s) = z
    BY <1>6, <2>1, Zenon
  <2> QED BY <2>2 DEF s
<1>8. DecodedBytes(data) \in Seq(Seq(X)) /\ Len(DecodedBytes(data)) = z
  <2> DEFINE s == DecodedBytes(data)
  <2>1. s = [i \in 1 .. z |-> s[i]] /\ \A i \in 1 .. z : s[i] \in Seq(X)
    BY <1>1, <1>5, Zenon DEF DecodedBytes
  <2> HIDE DEF s
  <2>2. s \in Seq(Seq(X)) /\ Len(s) = z
    BY <1>6, <2>1, Zenon
  <2> QED BY <2>2 DEF s
<1>9. UnixBytes(data) \in Seq(Seq(X)) /\ Len(UnixBytes(data)) = z
  <2> DEFINE s == UnixBytes(data)
  <2>1. s = [i \in 1 .. z |-> s[i]] /\ \A i \in 1 .. z : s[i] \in Seq(X)
    BY <1>1, <1>5, Zenon DEF UnixBytes
  <2> HIDE DEF s
  <2>2. s \in Seq(Seq(X)) /\ Len(s) = z
    BY <1>6, <2>1, Zenon
  <2> QED BY <2>2 DEF s
<1> QED BY <1>7, <1>8, <1>9 DEF X, z

\* Byte k + 1 of a text, and what it becomes on the wire: nothing when it is the
\* LF of a CR LF, two bytes of which the first is a CR, or itself.
LEMMA ByteFacts ==
  ASSUME NEW data \in Seq(T!Bytes), NEW k \in Nat, k < Len(data)
  PROVE  LET e == T!Encoded(data, k + 1)
             pair == k > 0 /\ data[k] = T!CR /\ data[k + 1] = T!LF
         IN  \/ pair /\ e = <<>>
             \/ ~pair /\ data[k + 1] = T!LF /\ e = <<T!CR, T!LF>>
             \/ data[k + 1] = T!CR /\ T!Followed(data, k + 1, T!LF) /\ e = <<T!CR, T!LF>>
             \/ data[k + 1] = T!CR /\ ~T!Followed(data, k + 1, T!LF) /\ e = <<T!CR, T!NUL>>
             \/ data[k + 1] \notin {T!CR, T!LF} /\ e = <<data[k + 1]>>
<1>1. T!AfterCR(data, k + 1) <=> k > 0 /\ data[k] = T!CR
  <2>1. (k + 1) - 1 = k /\ (k + 1 > 1 <=> k > 0)
    OBVIOUS
  <2> QED BY <2>1, Zenon DEF T!AfterCR
<1>2. T!CR # T!LF
  BY DEF T!CR, T!LF
<1>3. CASE data[k + 1] = T!LF
  <2>1. T!Encoded(data, k + 1) = IF T!AfterCR(data, k + 1) THEN <<>> ELSE <<T!CR, T!LF>>
    BY <1>2, <1>3, Zenon DEF T!Encoded
  <2> QED BY <1>1, <1>3, <2>1, Zenon
<1>4. CASE data[k + 1] = T!CR
  <2>1. T!Encoded(data, k + 1)
          = IF T!Followed(data, k + 1, T!LF) THEN <<T!CR, T!LF>> ELSE <<T!CR, T!NUL>>
    BY <1>2, <1>4, Zenon DEF T!Encoded
  <2> QED BY <1>4, <2>1, Zenon
<1>5. CASE data[k + 1] \notin {T!CR, T!LF}
  <2>1. T!Encoded(data, k + 1) = <<data[k + 1]>>
    BY <1>5, Zenon DEF T!Encoded
  <2> QED BY <1>5, <2>1, Zenon
<1> QED BY <1>3, <1>4, <1>5

LEMMA NothingAdded ==
  ASSUME NEW X, NEW s \in Seq(X)
  PROVE  s \o <<>> = s
OBVIOUS

\* How the server reads a CR with the byte behind it, and any other byte
LEMMA ReadPair ==
  ASSUME NEW w \in Seq(T!Bytes), NEW h, Joins(h, DecodedBytes(w)), NEW p \in Nat,
         p + 2 <= Len(w), w[p + 1] = T!CR, w[p + 2] \in {T!LF, T!NUL}
  PROVE  h[p + 2] = h[p] \o (IF w[p + 2] = T!LF THEN <<T!LF>> ELSE <<T!CR>>)
<1> DEFINE X == T!Bytes
           first == IF w[p + 2] = T!LF THEN <<T!LF>> ELSE <<T!CR>>
<1>0. /\ T!CR \in X /\ T!LF \in X /\ T!NUL \in X
      /\ T!CR # T!LF /\ T!CR # T!NUL
  BY DEF T!Bytes, T!CR, T!LF, T!NUL
<1>1. /\ DecodedBytes(w) \in Seq(Seq(X)) /\ Len(DecodedBytes(w)) = Len(w)
  BY Pieces
<1>2. /\ p + 1 \in Nat /\ p \in 0 .. Len(w) /\ p < Len(w) /\ p + 1 < Len(w)
      /\ (p + 1) + 1 = p + 2 /\ p + 1 \in DOMAIN w /\ p + 2 \in DOMAIN w /\ p + 2 > 1
      /\ (p + 2) - 1 = p + 1
  OBVIOUS
<1>3. DecodedBytes(w)[p + 1] = T!Decoded(w, p + 1) /\ DecodedBytes(w)[p + 2] = T!Decoded(w, p + 2)
  BY <1>2, Zenon DEF DecodedBytes
<1>4. T!Decoded(w, p + 1) = first
  <2>1. T!Followed(w, p + 1, T!LF) <=> w[p + 2] = T!LF
    BY <1>2, Zenon DEF T!Followed
  <2>2. T!Decoded(w, p + 1) = IF T!Followed(w, p + 1, T!LF) THEN <<T!LF>> ELSE <<T!CR>>
    BY <1>0, Zenon DEF T!Decoded
  <2> QED BY <2>1, <2>2, Zenon
<1>5. T!Decoded(w, p + 2) = <<>>
  <2>1. T!AfterCR(w, p + 2)
    BY <1>2, Zenon DEF T!AfterCR
  <2>2. w[p + 2] # T!CR
    BY <1>0
  <2> QED BY <2>1, <2>2, Zenon DEF T!Decoded
<1>6. h[p + 1] = h[p] \o first
  BY <1>1, <1>2, <1>3, <1>4 DEF Joins
<1>7. h[p + 2] = h[p + 1] \o <<>>
  BY <1>1, <1>2, <1>3, <1>5 DEF Joins
<1>8. h[p + 1] \in Seq(X)
  <2>1. p + 1 \in 0 .. Len(DecodedBytes(w))
    BY <1>1, <1>2
  <2> QED BY <1>1, <2>1, JoinsKeep
<1>9. h[p + 2] = h[p + 1]
  BY <1>7, <1>8, NothingAdded
<1> QED BY <1>6, <1>9

LEMMA ReadOne ==
  ASSUME NEW w \in Seq(T!Bytes), NEW h, Joins(h, DecodedBytes(w)), NEW p \in Nat,
         p < Len(w), w[p + 1] \notin {T!CR, T!LF}, p > 0 => w[p] # T!CR
  PROVE  h[p + 1] = h[p] \o <<w[p + 1]>>
<1>1. DecodedBytes(w) \in Seq(Seq(T!Bytes)) /\ Len(DecodedBytes(w)) = Len(w)
  BY Pieces
<1>2. p + 1 \in DOMAIN w /\ (p + 1) - 1 = p /\ (p + 1 > 1 <=> p > 0)
  OBVIOUS
<1>3. DecodedBytes(w)[p + 1] = T!Decoded(w, p + 1)
  BY <1>2, Zenon DEF DecodedBytes
<1>4. ~T!AfterCR(w, p + 1)
  BY <1>2, Zenon DEF T!AfterCR
<1>5. T!Decoded(w, p + 1) = <<w[p + 1]>>
  BY <1>4, Zenon DEF T!Decoded
<1> QED BY <1>1, <1>3, <1>5 DEF Joins

\* The wire up to the end of what the first bytes became: complete pairs only
PairsOnly(w, p) ==
  \A i \in 1 .. p : /\ w[i] = T!CR => i < p /\ w[i + 1] \in {T!LF, T!NUL}
                    /\ w[i] = T!LF => i > 1 /\ w[i - 1] = T!CR

LEMMA PairMore ==
  ASSUME NEW w, NEW p \in Nat, PairsOnly(w, p), w[p + 1] = T!CR, w[p + 2] \in {T!LF, T!NUL}
  PROVE  PairsOnly(w, p + 2)
<1>1. T!CR # T!LF /\ T!CR # T!NUL
  BY DEF T!CR, T!LF, T!NUL
<1>2. \A i \in 1 .. p + 2 : i \in 1 .. p \/ i = p + 1 \/ i = p + 2
  OBVIOUS
<1>3. (p + 1) + 1 = p + 2 /\ (p + 2) - 1 = p + 1 /\ p + 2 > 1 /\ p + 1 < p + 2
  OBVIOUS
<1> QED BY <1>1, <1>2, <1>3 DEF PairsOnly

LEMMA ByteMore ==
  ASSUME NEW w, NEW p \in Nat, PairsOnly(w, p), w[p + 1] \notin {T!CR, T!LF}
  PROVE  PairsOnly(w, p + 1)
<1>1. \A i \in 1 .. p + 1 : i \in 1 .. p \/ i = p + 1
  OBVIOUS
<1> QED BY <1>1 DEF PairsOnly

\* A text that was encoded and is decoded is the text with Unix line ends, and
\* the encoded one is what a netascii receiver expects.
LEMMA NetasciiReads ==
  ASSUME NEW data \in Seq(T!Bytes)
  PROVE  /\ T!Encode(data) \in Seq(T!Bytes)
         /\ T!Decode(T!Encode(data)) = T!UnixText(data)
         /\ T!WellFormed(data)
<1> DEFINE X == T!Bytes
           z == Len(data)
           E == EncodedBytes(data)
           U == UnixBytes(data)
           w == T!Encode(data)
           D == DecodedBytes(w)
<1>0. /\ T!CR \in X /\ T!LF \in X /\ T!NUL \in X
      /\ T!CR # T!LF /\ T!CR # T!NUL /\ T!LF # T!NUL
  BY DEF T!Bytes, T!CR, T!LF, T!NUL
<1>1. /\ E \in Seq(Seq(X)) /\ Len(E) = z /\ U \in Seq(Seq(X)) /\ Len(U) = z /\ z \in Nat
  BY Pieces
<1>2. PICK g : Joins(g, E) /\ w = g[z]
  <2>1. w = Flatten(E)
    BY SameFlatten, Zenon DEF T!Encode, EncodedBytes
  <2>2. \E g : Joins(g, E) /\ Flatten(E) = g[Len(E)]
    <3> HIDE DEF E
    <3> QED BY <1>1, FlattenLoop
  <2> HIDE DEF E, w, z
  <2> QED BY <1>1, <2>1, <2>2
<1>3. w \in Seq(X) /\ \A k \in 0 .. z : g[k] \in Seq(X) /\ Len(g[k]) \in Nat
  <2> HIDE DEF E, w, z, X
  <2>1. z \in 0 .. z
    BY <1>1
  <2>2. \A k \in 0 .. Len(E) : g[k] \in Seq(X) /\ Len(g[k]) \in Nat
    BY <1>1, <1>2, JoinsKeep
  <2> QED BY <1>1, <1>2, <2>1, <2>2
<1>4. D \in Seq(Seq(X)) /\ Len(D) = Len(w)
  <2> HIDE DEF w
  <2> QED BY <1>3, Pieces
<1>5. PICK h : Joins(h, D) /\ T!Decode(w) = h[Len(w)]
  <2> HIDE DEF w
  <2>1. T!Decode(w) = Flatten(D)
    BY SameFlatten, Zenon DEF T!Decode, DecodedBytes
  <2>2. \E hh : Joins(hh, D) /\ Flatten(D) = hh[Len(D)]
    <3> HIDE DEF D
    <3> QED BY <1>4, FlattenLoop
  <2> HIDE DEF D
  <2> QED BY <1>4, <2>1, <2>2
<1>6. PICK u : Joins(u, U) /\ T!UnixText(data) = u[z]
  <2>1. T!UnixText(data) = Flatten(U)
    BY SameFlatten, Zenon DEF T!UnixText, UnixBytes
  <2>2. \E uu : Joins(uu, U) /\ Flatten(U) = uu[Len(U)]
    <3> HIDE DEF U
    <3> QED BY <1>1, FlattenLoop
  <2> HIDE DEF U, z
  <2> QED BY <1>1, <2>1, <2>2
<1>7. \A k \in 0 .. z : u[k] \in Seq(X)
  <2> HIDE DEF U, z, X
  <2> QED BY <1>1, <1>6, JoinsKeep
<1> DEFINE begun(k) == k > 0 /\ data[k] = T!CR /\ T!Followed(data, k, T!LF)
           tail(k) == IF begun(k) THEN <<T!LF>> ELSE <<>>
           p(k) == Len(g[k])
           Ok(k) == /\ p(k) > 0 => w[p(k)] # T!CR
                    /\ h[p(k)] = u[k] \o tail(k)
                    /\ PairsOnly(w, p(k))
           S == {k \in Nat : k <= z => Ok(k)}
<1>8. 0 \in S
  <2>1. g[0] = <<>> /\ h[0] = <<>> /\ u[0] = <<>>
    BY <1>2, <1>5, <1>6 DEF Joins
  <2>2. p(0) = 0
    BY <2>1
  <2>3. tail(0) = <<>>
    OBVIOUS
  <2>4. PairsOnly(w, 0)
    BY DEF PairsOnly
  <2>5. <<>> = <<>> \o <<>>
    OBVIOUS
  <2>6. Ok(0)
    <3> HIDE DEF p, tail, w
    <3> QED BY <2>1, <2>2, <2>3, <2>4, <2>5
  <2> HIDE DEF Ok
  <2> QED BY <2>6
<1>9. ASSUME NEW k \in Nat, k \in S PROVE k + 1 \in S
  <2> SUFFICES ASSUME k + 1 <= z PROVE Ok(k + 1)
    <3> HIDE DEF Ok
    <3> QED OBVIOUS
  <2>1. Ok(k) /\ k < z /\ k \in 0 .. z /\ k + 1 \in 0 .. z /\ k + 1 \in DOMAIN data
    <3>1. k < z /\ k \in 0 .. z /\ k + 1 \in 0 .. z /\ k + 1 \in DOMAIN data /\ k <= z
      BY <1>1
    <3> HIDE DEF Ok, z
    <3> QED BY <1>9, <3>1
  <2> DEFINE e == T!Encoded(data, k + 1)
             b == data[k + 1]
             pair == k > 0 /\ data[k] = T!CR /\ b = T!LF
  <2>2. /\ Len(e) \in Nat /\ p(k) \in Nat /\ p(k + 1) = p(k) + Len(e) /\ p(k + 1) <= Len(w)
        /\ \A i \in 1 .. Len(e) : w[p(k) + i] = e[i]
    <3>1. E[k + 1] = e
      BY <2>1, Zenon DEF EncodedBytes
    <3>2. k < Len(E)
      <4> HIDE DEF E, z
      <4> QED BY <1>1, <2>1
    <3> HIDE DEF E, w, z, e, X
    <3>3. E \in Seq(Seq(X)) /\ Joins(g, E)
      BY <1>1, <1>2
    <3>4. /\ Len(g[k]) \in Nat /\ E[k + 1] \in Seq(X) /\ Len(E[k + 1]) \in Nat
          /\ Len(g[k + 1]) = Len(g[k]) + Len(E[k + 1])
          /\ g[Len(E)] \in Seq(X) /\ Len(g[k + 1]) <= Len(g[Len(E)])
          /\ Stands(g[Len(E)], Len(g[k]), E[k + 1])
      BY <3>2, <3>3, JoinedPiece
    <3>5. Len(E) = z /\ E[k + 1] = e /\ g[z] = w
      BY <1>1, <1>2, <3>1
    <3> QED BY <3>4, <3>5, Zenon DEF Stands
  <2>3. \/ pair /\ e = <<>>
        \/ ~pair /\ b = T!LF /\ e = <<T!CR, T!LF>>
        \/ b = T!CR /\ T!Followed(data, k + 1, T!LF) /\ e = <<T!CR, T!LF>>
        \/ b = T!CR /\ ~T!Followed(data, k + 1, T!LF) /\ e = <<T!CR, T!NUL>>
        \/ b \notin {T!CR, T!LF} /\ e = <<b>>
    BY <2>1, ByteFacts
  <2>4. begun(k) <=> pair
    BY <1>1, <2>1, Zenon DEF T!Followed
  <2>5. begun(k + 1) <=> b = T!CR /\ T!Followed(data, k + 1, T!LF)
    <3>1. k + 1 > 0
      OBVIOUS
    <3> QED BY <3>1, Zenon
  <2>6. u[k + 1] = u[k] \o (IF begun(k + 1) THEN <<>> ELSE <<b>>)
    <3>1. U[k + 1] = IF begun(k + 1) THEN <<>> ELSE <<b>>
      BY <2>1, <2>5, Zenon DEF UnixBytes
    <3> HIDE DEF U, begun, b, z
    <3> QED BY <1>1, <1>6, <2>1, <3>1 DEF Joins
  <2>7. u[k] \in Seq(X) /\ u[k + 1] \in Seq(X)
    BY <1>7, <2>1
  <2>8. /\ p(k) > 0 => w[p(k)] # T!CR
        /\ h[p(k)] = u[k] \o tail(k)
        /\ PairsOnly(w, p(k))
    BY <2>1
  <2>9. b \in X
    BY <2>1
  <2> DEFINE q == p(k)
             r == p(k + 1)
             o == begun(k)
             n_ == begun(k + 1)
             fol == T!Followed(data, k + 1, T!LF)
             goal == /\ r > 0 => w[r] # T!CR
                     /\ h[r] = u[k + 1] \o (IF n_ THEN <<T!LF>> ELSE <<>>)
                     /\ PairsOnly(w, r)
  <2> HIDE DEF p, begun, e, b, w, X, D
  <2>10. /\ q > 0 => w[q] # T!CR
         /\ h[q] = u[k] \o (IF o THEN <<T!LF>> ELSE <<>>)
         /\ PairsOnly(w, q)
    BY <2>8, Zenon
  <2>11. q \in Nat /\ Len(e) \in Nat /\ r = q + Len(e) /\ r <= Len(w)
         /\ \A i \in 1 .. Len(e) : w[q + i] = e[i]
    BY <2>2
  <2>12. u[k + 1] = u[k] \o (IF n_ THEN <<>> ELSE <<b>>)
    BY <2>6
  <2> HIDE DEF q, r, o, n_, fol
  <2> SUFFICES goal
    BY Zenon DEF r, n_
  <2>13. CASE pair /\ e = <<>>
    <3>1. o /\ ~n_ /\ b = T!LF
      BY <1>0, <2>4, <2>5, <2>13, Zenon DEF o, n_
    <3>2. r = q
      BY <2>11, <2>13
    <3>3. h[r] = u[k] \o <<T!LF>> /\ u[k + 1] = u[k] \o <<T!LF>>
      BY <2>10, <2>12, <3>1, <3>2
    <3>4. u[k + 1] \o <<>> = u[k + 1]
      BY <2>7, NothingAdded
    <3> QED BY <2>10, <3>1, <3>2, <3>3, <3>4
  <2>14. ASSUME NEW y \in {T!LF, T!NUL}, e = <<T!CR, y>>, ~o
         PROVE  /\ h[r] = u[k] \o (IF y = T!LF THEN <<T!LF>> ELSE <<T!CR>>)
                /\ PairsOnly(w, r) /\ w[r] # T!CR
    <3>1. Len(e) = 2 /\ e[1] = T!CR /\ e[2] = y
      BY <2>14
    <3>2. r = q + 2 /\ w[q + 1] = T!CR /\ w[q + 2] = y
      BY <2>11, <3>1
    <3>3. h[q + 2] = h[q] \o (IF y = T!LF THEN <<T!LF>> ELSE <<T!CR>>)
      <4>1. w \in Seq(T!Bytes) /\ Joins(h, DecodedBytes(w))
        BY <1>3, <1>5 DEF D, X
      <4> QED BY <2>11, <3>2, <4>1, ReadPair
    <3>4. h[q] = u[k]
      BY <2>7, <2>10, <2>14, NothingAdded
    <3>5. PairsOnly(w, q + 2)
      BY <2>10, <2>11, <3>2, PairMore
    <3>6. y # T!CR
      BY <1>0
    <3> QED BY <3>2, <3>3, <3>4, <3>5, <3>6
  <2>15. CASE ~pair /\ b = T!LF /\ e = <<T!CR, T!LF>>
    <3>1. ~o /\ ~n_
      BY <1>0, <2>4, <2>5, <2>15, Zenon DEF o, n_
    <3>2. h[r] = u[k] \o <<T!LF>> /\ PairsOnly(w, r) /\ w[r] # T!CR
      BY <2>14, <2>15, <3>1
    <3>3. u[k + 1] = u[k] \o <<T!LF>> /\ u[k + 1] \o <<>> = u[k + 1]
      BY <2>7, <2>12, <2>15, <3>1, NothingAdded
    <3> QED BY <3>1, <3>2, <3>3
  <2>16. CASE b = T!CR /\ fol /\ e = <<T!CR, T!LF>>
    <3>1. ~o /\ n_
      BY <1>0, <2>4, <2>5, <2>16, Zenon DEF o, n_, fol
    <3>2. h[r] = u[k] \o <<T!LF>> /\ PairsOnly(w, r) /\ w[r] # T!CR
      BY <2>14, <2>16, <3>1
    <3>3. u[k + 1] = u[k]
      BY <2>7, <2>12, <3>1, NothingAdded
    <3> QED BY <3>1, <3>2, <3>3
  <2>17. CASE b = T!CR /\ ~fol /\ e = <<T!CR, T!NUL>>
    <3>1. ~o /\ ~n_
      BY <1>0, <2>4, <2>5, <2>17, Zenon DEF o, n_, fol
    <3>2. h[r] = u[k] \o <<T!CR>> /\ PairsOnly(w, r) /\ w[r] # T!CR
      BY <1>0, <2>14, <2>17, <3>1
    <3>3. u[k + 1] = u[k] \o <<T!CR>> /\ u[k + 1] \o <<>> = u[k + 1]
      BY <2>7, <2>12, <2>17, <3>1, NothingAdded
    <3> QED BY <3>1, <3>2, <3>3
  <2>18. CASE b \notin {T!CR, T!LF} /\ e = <<b>>
    <3>1. ~o /\ ~n_
      BY <1>0, <2>4, <2>5, <2>18, Zenon DEF o, n_
    <3>2. Len(e) = 1 /\ e[1] = b
      BY <2>18
    <3>3. r = q + 1 /\ w[q + 1] = b
      BY <2>11, <3>2
    <3>4. h[q + 1] = h[q] \o <<b>>
      <4>1. w \in Seq(T!Bytes) /\ Joins(h, DecodedBytes(w))
        BY <1>3, <1>5 DEF D, X
      <4>2. q < Len(w) /\ w[q + 1] \notin {T!CR, T!LF} /\ (q > 0 => w[q] # T!CR)
        BY <2>10, <2>11, <2>18, <3>2, <3>3
      <4>3. h[q + 1] = h[q] \o <<w[q + 1]>>
        BY <2>11, <4>1, <4>2, ReadOne, Zenon
      <4> QED BY <3>3, <4>3, Zenon
    <3>5. h[q] = u[k]
      BY <2>7, <2>10, <3>1, NothingAdded
    <3>6. PairsOnly(w, q + 1)
      BY <2>10, <2>11, <2>18, <3>3, ByteMore
    <3>7. u[k + 1] = u[k] \o <<b>> /\ u[k + 1] \o <<>> = u[k + 1]
      BY <2>7, <2>12, <3>1, NothingAdded
    <3> QED BY <2>18, <3>1, <3>3, <3>4, <3>5, <3>6, <3>7
  <2> HIDE DEF goal
  <2> QED BY <2>3, <2>13, <2>15, <2>16, <2>17, <2>18, Zenon DEF fol
<1>10. Ok(z)
  <2>1. Nat \subseteq S
    <3> HIDE DEF S
    <3> QED BY <1>8, <1>9, NatSet
  <2> HIDE DEF Ok, z
  <2> QED BY <1>1, <2>1
<1>11. T!Decode(w) = u[z]
  <2>1. tail(z) = <<>>
    <3>1. ~(z < Len(data))
      OBVIOUS
    <3> QED BY <3>1, Zenon DEF T!Followed
  <2>2. u[z] \in Seq(X)
    <3> HIDE DEF z, X
    <3> QED BY <1>1, <1>7
  <2>3. h[p(z)] = u[z] \o tail(z) /\ p(z) = Len(w)
    BY <1>2, <1>10
  <2> HIDE DEF tail, p, z, w
  <2> QED BY <1>5, <2>1, <2>2, <2>3, NothingAdded
<1>12. T!WellFormed(data)
  <2>1. PairsOnly(w, Len(w))
    BY <1>2, <1>10
  <2> HIDE DEF w
  <2>2. DOMAIN w = 1 .. Len(w)
    BY <1>3
  <2>3. \A i \in DOMAIN w : /\ w[i] = T!CR => T!Followed(w, i, T!LF) \/ T!Followed(w, i, T!NUL)
                            /\ w[i] = T!LF => i > 1 /\ w[i - 1] = T!CR
    BY <2>1, <2>2 DEF PairsOnly, T!Followed
  <2> QED BY <2>3, Zenon DEF T!WellFormed, w
<1> QED BY <1>3, <1>6, <1>11, <1>12

\* A text that was cut into blocks is put together again, wherever it was cut.
LEMMA BlocksJoin ==
  ASSUME NEW X, NEW w \in Seq(X), NEW cut \in Nat, cut >= 1
  PROVE  Flatten(T!Blocks(w, cut)) = w
<1> DEFINE z == Len(w)
           m == (z \div cut) + 1
           to(b) == IF b * cut < z THEN b * cut ELSE z
           B == T!Blocks(w, cut)
<1>1. z \in Nat /\ m \in Nat /\ m * cut > z
  <2> DEFINE q == z \div cut
             r == z % cut
  <2>1. z \in Nat
    OBVIOUS
  <2>2. q \in Nat /\ r \in 0 .. (cut - 1) /\ z = q * cut + r
    <3> HIDE DEF z
    <3> QED BY <2>1, DivMod
  <2> HIDE DEF z, q, r
  <2>3. (q + 1) * cut = q * cut + cut /\ q * cut \in Nat
    BY <2>2
  <2> QED BY <2>1, <2>2, <2>3 DEF q
<1> HIDE DEF m
<1>2. ASSUME NEW b \in Nat
      PROVE  /\ b * cut \in Nat /\ (b + 1) * cut = b * cut + cut /\ (b + 1) - 1 = b
             /\ to(b) \in 0 .. z /\ to(b + 1) \in 0 .. z /\ to(b) <= to(b + 1)
  <2>1. b * cut \in Nat /\ (b + 1) * cut = b * cut + cut
    OBVIOUS
  <2> HIDE DEF z
  <2> QED BY <1>1, <2>1
<1>3. /\ B = [b \in 1 .. m |-> SubSeq(w, (b - 1) * cut + 1, to(b))]
      /\ \A b \in Nat : b < m => B[b + 1] = SubSeq(w, b * cut + 1, to(b + 1))
  <2>1. B = [b \in 1 .. m |-> SubSeq(w, (b - 1) * cut + 1, to(b))]
    BY Zenon DEF T!Blocks, m, z
  <2> HIDE DEF B, to, z
  <2>2. ASSUME NEW b \in Nat, b < m PROVE B[b + 1] = SubSeq(w, b * cut + 1, to(b + 1))
    <3>1. b + 1 \in 1 .. m /\ (b + 1) - 1 = b
      BY <1>1, <2>2
    <3> QED BY <2>1, <3>1, Zenon
  <2> QED BY <2>1, <2>2
<1>4. B \in Seq(Seq(X)) /\ Len(B) = m
  <2>1. ASSUME NEW b \in 1 .. m PROVE SubSeq(w, (b - 1) * cut + 1, to(b)) \in Seq(X)
    <3>1. b - 1 \in Nat /\ (b - 1) + 1 = b
      OBVIOUS
    <3>2. (b - 1) * cut \in Nat /\ to(b) \in 0 .. z
      BY <1>2, <3>1
    <3> DEFINE lo == (b - 1) * cut + 1
               hi == to(b)
    <3>3. lo \in Nat /\ lo >= 1 /\ hi \in 0 .. Len(w)
      BY <3>2
    <3> HIDE DEF lo, hi
    <3> QED BY <3>3
  <2> HIDE DEF B, to, z
  <2> QED BY <1>1, <1>3, <2>1
<1>5. PICK g : Joins(g, B) /\ Flatten(B) = g[m]
  <2>1. \E g : Joins(g, B) /\ Flatten(B) = g[Len(B)]
    <3> HIDE DEF B
    <3> QED BY <1>4, FlattenLoop
  <2> HIDE DEF B
  <2> QED BY <1>4, <2>1
<1> DEFINE Ok(b) == g[b] = SubSeq(w, 1, to(b))
           S == {b \in Nat : b <= m => Ok(b)}
<1>6. 0 \in S
  <2>1. g[0] = <<>>
    BY <1>5 DEF Joins
  <2>2. to(0) = 0
    BY <1>1
  <2>3. SubSeq(w, 1, 0) = <<>>
    OBVIOUS
  <2> HIDE DEF to
  <2> QED BY <2>1, <2>2, <2>3
<1>7. ASSUME NEW b \in Nat, b \in S PROVE b + 1 \in S
  <2> SUFFICES ASSUME b + 1 <= m PROVE Ok(b + 1)
    <3> HIDE DEF Ok
    <3> QED OBVIOUS
  <2>1. Ok(b) /\ b < m
    <3>1. b <= m /\ b < m
      BY <1>1
    <3> HIDE DEF Ok
    <3> QED BY <1>7, <3>1
  <2>2. g[b + 1] = SubSeq(w, 1, to(b)) \o SubSeq(w, b * cut + 1, to(b + 1))
    <3> HIDE DEF B, to
    <3> QED BY <1>3, <1>4, <1>5, <2>1 DEF Joins
  <2>3. to(b) \in 0 .. z /\ to(b + 1) \in 0 .. z /\ b * cut \in Nat
        /\ (b * cut <= z => to(b) = b * cut)
        /\ (b * cut > z => to(b) = z /\ to(b + 1) = z)
        /\ to(b) <= to(b + 1)
    BY <1>1, <1>2
  <2> DEFINE f == to(b)
             t == to(b + 1)
             s == b * cut
             v == SubSeq(w, 1, t)
  <2> HIDE DEF f, t, s, to
  <2>4. f \in 0 .. Len(w) /\ t \in 0 .. Len(w) /\ s \in Nat /\ f <= t
        /\ (s <= Len(w) => f = s) /\ (s > Len(w) => f = Len(w) /\ t = Len(w))
    BY <2>3 DEF f, t, s
  <2>5. SubSeq(w, 1, f) \o SubSeq(w, s + 1, t) = SubSeq(w, 1, t)
    <3>1. CASE s <= Len(w)
      BY <2>4, <3>1
    <3>2. CASE s > Len(w)
      BY <2>4, <3>2
    <3> QED BY <2>4, <3>1, <3>2
  <2> QED BY <2>2, <2>5 DEF f, t, s
<1>8. Ok(m)
  <2>1. Nat \subseteq S
    <3> HIDE DEF S
    <3> QED BY <1>6, <1>7, NatSet
  <2> HIDE DEF Ok
  <2> QED BY <1>1, <2>1
<1>9. SubSeq(w, 1, to(m)) = w
  <2>1. to(m) = Len(w)
    BY <1>1
  <2> HIDE DEF to
  <2> QED BY <2>1
<1> QED BY <1>5, <1>8, <1>9

\* Every text survives the way to a netascii receiver and back, whatever the block
\* size that cuts it (core/session/netascii.rs).
THEOREM TextSurvivesAll ==
  ASSUME NEW data \in Seq(T!Bytes), NEW cut \in Nat, cut >= 1
  PROVE  T!TextSurvives(data, cut) /\ T!WellFormed(data)
<1> DEFINE w == T!Encode(data)
<1>1. w \in Seq(T!Bytes) /\ T!Decode(w) = T!UnixText(data) /\ T!WellFormed(data)
  BY NetasciiReads
<1> HIDE DEF w
<1>2. Flatten(T!Blocks(w, cut)) = w
  BY <1>1, BlocksJoin
<1>3. T!Stored(T!Blocks(w, cut)) = T!UnixText(data)
  BY <1>1, <1>2, SameFlatten, Zenon DEF T!Stored
<1> QED BY <1>1, <1>3, Zenon DEF T!TextSurvives, w

-----------------------------------------------------------------------------
(***************************************************************************)
(* Texts and their ends                                                    *)
(***************************************************************************)
LEMMA SameLists ==
  /\ \A ss : P!Flatten(ss) = Flatten(ss)
  /\ \A s, S : P!Select(s, S) = Select(s, S)
BY Zenon DEF P!Flatten, Flatten, P!Select, Select

\* e has the members of S, each once, from the least on.
Rises(e, S) ==
  /\ e \in Seq(Nat)
  /\ \A k \in 1 .. Len(e) : e[k] \in S
  /\ \A j, k \in 1 .. Len(e) : j < k => e[j] < e[k]
  /\ \A x \in S : \E k \in 1 .. Len(e) : e[k] = x

\* The members of S are the first members of R: so are their sequences.
LEMMA RisesFirst ==
  ASSUME NEW S, NEW R, NEW a, NEW b, Rises(a, S), Rises(b, R),
         S \subseteq R, \A x \in S : \A y \in R : y <= x => y \in S
  PROVE  /\ Len(a) <= Len(b) /\ Len(a) \in Nat /\ Len(b) \in Nat
         /\ \A k \in 1 .. Len(a) : a[k] = b[k]
<1> DEFINE la == Len(a)
           lb == Len(b)
<1>1. /\ la \in Nat /\ lb \in Nat
      /\ \A k \in 1 .. la : a[k] \in Nat
      /\ \A k \in 1 .. lb : b[k] \in Nat
  BY DEF Rises
<1>2. /\ \A k \in 1 .. la : a[k] \in S
      /\ \A j, k \in 1 .. la : j < k => a[j] < a[k]
      /\ \A x \in S : \E k \in 1 .. la : a[k] = x
      /\ \A k \in 1 .. lb : b[k] \in R
      /\ \A j, k \in 1 .. lb : j < k => b[j] < b[k]
      /\ \A x \in R : \E k \in 1 .. lb : b[k] = x
  BY Zenon DEF Rises
<1> HIDE DEF la, lb
<1> DEFINE Ok(k) == \A i \in 1 .. k : i <= la => i <= lb /\ a[i] = b[i]
           Good == {k \in Nat : Ok(k)}
<1>3. 0 \in Good
  OBVIOUS
<1>4. ASSUME NEW k \in Nat, k \in Good PROVE k + 1 \in Good
  <2>1. \A i \in 1 .. k : i <= la => i <= lb /\ a[i] = b[i]
    BY <1>4
  <2> SUFFICES ASSUME k + 1 <= la PROVE k + 1 <= lb /\ a[k + 1] = b[k + 1]
    <3>1. \A i \in 1 .. k + 1 : i \in 1 .. k \/ i = k + 1
      OBVIOUS
    <3> QED BY <2>1, <3>1
  <2>2. k + 1 \in 1 .. la /\ \A i \in 1 .. k : i \in 1 .. la /\ i \in 1 .. lb /\ a[i] = b[i]
    BY <1>1, <2>1
  <2>3. a[k + 1] \in S /\ a[k + 1] \in Nat
    BY <1>1, <1>2, <2>2
  <2>4. PICK j \in 1 .. lb : b[j] = a[k + 1]
    BY <1>2, <2>3
  <2>5. j \in k + 1 .. lb
    <3> SUFFICES ASSUME j \in 1 .. k PROVE FALSE
      BY <1>1
    <3>1. a[j] < a[k + 1] /\ a[j] = b[j]
      BY <1>2, <2>2
    <3> QED BY <2>3, <2>4, <3>1
  <2>6. k + 1 \in 1 .. lb /\ b[k + 1] \in Nat /\ b[k + 1] \in R
    BY <1>1, <1>2, <2>5
  <2>7. b[k + 1] <= a[k + 1]
    <3>1. CASE j = k + 1
      BY <2>3, <2>4, <3>1
    <3>2. CASE j > k + 1
      <4>0. k + 1 < j
        BY <3>2
      <4>1. b[k + 1] < b[j]
        BY <1>2, <2>4, <2>6, <4>0, Zenon
      <4> QED BY <2>3, <2>4, <2>6, <4>1
    <3> QED BY <2>5, <3>1, <3>2
  <2>8. b[k + 1] \in S
    BY <2>3, <2>6, <2>7
  <2>9. PICK i \in 1 .. la : a[i] = b[k + 1]
    BY <1>2, <2>8
  <2>10. i \in k + 1 .. la
    <3> SUFFICES ASSUME i \in 1 .. k PROVE FALSE
      BY <1>1
    <3>1. b[i] < b[k + 1] /\ a[i] = b[i]
      BY <1>2, <2>2, <2>6
    <3> QED BY <2>6, <2>9, <3>1
  <2>11. a[k + 1] <= a[i]
    <3>1. CASE i = k + 1
      BY <2>3, <3>1
    <3>2. CASE i > k + 1
      <4>1. k + 1 < i
        BY <3>2
      <4>2. a[k + 1] < a[i]
        BY <1>2, <2>2, <4>1, Zenon
      <4> QED BY <1>1, <2>3, <4>2
    <3> QED BY <2>10, <3>1, <3>2
  <2> QED BY <2>3, <2>6, <2>7, <2>9, <2>11
<1>5. Nat \subseteq Good
  <2> HIDE DEF Good
  <2> QED BY <1>3, <1>4, NatSet
<1>6. \A i \in 1 .. la : i <= lb /\ a[i] = b[i]
  <2>1. Ok(la)
    BY <1>1, <1>5
  <2> QED BY <1>1, <2>1
<1>7. la <= lb
  <2>1. CASE la = 0
    BY <1>1, <2>1
  <2>2. CASE la # 0
    <3>1. la \in 1 .. la
      BY <1>1, <2>2
    <3> QED BY <1>6, <3>1
  <2> QED BY <2>1, <2>2
<1> QED BY <1>1, <1>6, <1>7 DEF la, lb

LEMMA RisesOnce ==
  ASSUME NEW S, NEW a, NEW b, Rises(a, S), Rises(b, S)
  PROVE  a = b
<1>1. Len(a) <= Len(b) /\ Len(b) <= Len(a) /\ Len(a) \in Nat /\ Len(b) \in Nat
      /\ \A k \in 1 .. Len(a) : a[k] = b[k]
  BY RisesFirst
<1>2. a \in Seq(Nat) /\ b \in Seq(Nat)
  BY DEF Rises
<1>3. Len(a) = Len(b)
  BY <1>1
<1> QED BY <1>1, <1>2, <1>3, SameSequence

\* Where the NUL bytes are
NulsOf(units) == {i \in 1 .. Len(units) : units[i] = P!NUL}

LEMMA NulFacts ==
  ASSUME NEW X, NEW units \in Seq(X)
  PROVE  Rises(P!Nuls(units), NulsOf(units))
<1> DEFINE z == Len(units)
           s == [i \in 1 .. z |-> i]
           S == NulsOf(units)
           e == Select(s, S)
<1>1. z \in Nat /\ DOMAIN units = 1 .. z
  OBVIOUS
<1>2. P!Nuls(units) = e
  <2>1. {i \in DOMAIN units : units[i] = P!NUL} = S /\ [i \in DOMAIN units |-> i] = s
    BY <1>1, Zenon DEF NulsOf, z
  <2>2. P!Nuls(units) = P!Select([i \in DOMAIN units |-> i], {i \in DOMAIN units : units[i] = P!NUL})
    BY Zenon DEF P!Nuls
  <2> QED BY <2>1, <2>2, SameLists, Zenon
<1>3. S \subseteq 1 .. z
  BY DEF NulsOf
<1> HIDE DEF z, S
<1>4. s \in Seq(1 .. z) /\ Len(s) = z /\ \A i \in 1 .. z : s[i] = i
  BY <1>1
<1> HIDE DEF s
<1>5. e \in Seq((1 .. z) \cap S) /\ \E f : Places(f, s, S, e, z)
  BY <1>4, SelectPlaces
<1>6. PICK f : Places(f, s, S, e, z)
  BY <1>5
<1> HIDE DEF e
<1>7. /\ f \in [1 .. Len(e) -> 1 .. z]
      /\ \A i \in 1 .. Len(e) : e[i] = s[f[i]] /\ e[i] \in S
      /\ \A i, j \in 1 .. Len(e) : i < j => f[i] < f[j]
      /\ \A k \in 1 .. z : s[k] \in S => \E i \in 1 .. Len(e) : f[i] = k
  BY <1>6 DEF Places
<1>8. \A i \in 1 .. Len(e) : e[i] = f[i]
  BY <1>4, <1>7
<1>9. e \in Seq(Nat)
  <2>1. (1 .. z) \cap S \subseteq Nat
    BY <1>1
  <2> HIDE DEF e
  <2> QED BY <1>5, <2>1
<1>10. \A x \in S : \E k \in 1 .. Len(e) : e[k] = x
  BY <1>3, <1>4, <1>7, <1>8
<1>11. \A j, k \in 1 .. Len(e) : j < k => e[j] < e[k]
  BY <1>7, <1>8
<1>12. Rises(e, S)
  BY <1>7, <1>9, <1>10, <1>11 DEF Rises
<1> QED BY <1>2, <1>12 DEF S

\* The texts stand between the NUL bytes, and no NUL in them.
LEMMA TextFacts ==
  ASSUME NEW X, NEW units \in Seq(X)
  PROVE  LET e  == P!Nuls(units)
             ts == P!Texts(units)
         IN  /\ Len(e) \in Nat /\ Len(ts) = Len(e) /\ ts \in Seq(Seq(X \ {P!NUL}))
             /\ \A k \in 1 .. Len(e) :
                  ts[k] = SubSeq(units, IF k = 1 THEN 1 ELSE e[k - 1] + 1, e[k] - 1)
<1> DEFINE e == P!Nuls(units)
           ts == P!Texts(units)
           z == Len(units)
           from(k) == IF k = 1 THEN 1 ELSE e[k - 1] + 1
           Y == X \ {P!NUL}
           l == Len(e)
<1>1. z \in Nat /\ DOMAIN units = 1 .. z /\ \A i \in 1 .. z : units[i] \in X
  OBVIOUS
<1>2. Rises(e, NulsOf(units))
  BY NulFacts
<1>3. /\ e \in Seq(Nat) /\ l \in Nat /\ DOMAIN e = 1 .. l
      /\ \A k \in 1 .. l : e[k] \in 1 .. z /\ units[e[k]] = P!NUL
      /\ \A j, k \in 1 .. l : j < k => e[j] < e[k]
      /\ \A i \in 1 .. z : units[i] = P!NUL => \E k \in 1 .. l : e[k] = i
  <2> HIDE DEF e
  <2> QED BY <1>2 DEF Rises, NulsOf
<1>4. ts = [k \in DOMAIN e |-> SubSeq(units, from(k), e[k] - 1)]
  BY Zenon DEF P!Texts, P!Between
<1> HIDE DEF e, ts, z, Y, l
<1>5. ASSUME NEW k \in 1 .. l
      PROVE  SubSeq(units, from(k), e[k] - 1) \in Seq(Y)
  <2> DEFINE lo == from(k)
             hi == e[k] - 1
  <2>1. lo \in 1 .. hi + 1 /\ hi \in Nat /\ hi <= z
    <3>1. CASE k = 1
      <4>1. e[k] \in 1 .. z
        BY <1>3
      <4> QED BY <1>1, <3>1, <4>1
    <3>2. CASE k # 1
      <4>1. k - 1 \in 1 .. l /\ k - 1 < k
        BY <1>3, <3>2
      <4>2. e[k - 1] < e[k] /\ e[k - 1] \in 1 .. z /\ e[k] \in 1 .. z
        BY <1>3, <4>1
      <4> QED BY <1>1, <3>2, <4>2
    <3> QED BY <3>1, <3>2
  <2>2. ASSUME NEW i \in lo .. hi PROVE units[i] \in Y
    <3>1. i \in 1 .. z /\ i < e[k]
      BY <1>1, <1>3, <2>1
    <3>2. ASSUME units[i] = P!NUL PROVE FALSE
      <4>1. PICK j \in 1 .. l : e[j] = i
        BY <1>3, <3>1, <3>2
      <4>2. j < k
        <5>1. CASE j = k
          BY <3>1, <4>1, <5>1
        <5>2. CASE j > k
          <6>1. e[k] < e[j]
            BY <1>3, <5>2
          <6> QED BY <1>3, <3>1, <4>1, <6>1
        <5> QED BY <1>3, <5>1, <5>2
      <4>3. k # 1 /\ k - 1 \in 1 .. l /\ j <= k - 1
        BY <1>3, <4>2
      <4>4. e[j] <= e[k - 1]
        <5>1. CASE j = k - 1
          BY <1>3, <4>1, <5>1
        <5>2. CASE j < k - 1
          BY <1>3, <4>3, <5>2
        <5> QED BY <4>3, <5>1, <5>2
      <4>5. lo = e[k - 1] + 1 /\ e[k - 1] \in Nat
        BY <1>3, <4>3
      <4> QED BY <4>1, <4>4, <4>5
    <3> QED BY <1>1, <3>1, <3>2 DEF Y
  <2> HIDE DEF lo, hi
  <2>3. SubSeq(units, lo, hi) = [i \in 1 .. hi - lo + 1 |-> units[lo + i - 1]]
    <3> HIDE DEF Y
    <3> QED BY <1>1, <2>1 DEF z
  <2>4. \A i \in 1 .. hi - lo + 1 : lo + i - 1 \in lo .. hi
    BY <2>1
  <2>5. hi - lo + 1 \in Nat
    BY <2>1
  <2>6. SubSeq(units, lo, hi) \in Seq(Y)
    BY <2>2, <2>3, <2>4, <2>5
  <2> QED BY <2>6 DEF lo, hi
<1>6. ts \in Seq(Seq(Y)) /\ Len(ts) = l
  BY <1>3, <1>4, <1>5
<1>7. \A k \in 1 .. l : ts[k] = SubSeq(units, from(k), e[k] - 1)
  BY <1>3, <1>4, Zenon
<1> QED BY <1>3, <1>6, <1>7 DEF e, ts, Y, l

\* Where every element of the whole comes from
LEMMA JoinedWhere ==
  ASSUME NEW X, NEW ss \in Seq(Seq(X)), NEW g, Joins(g, ss)
  PROVE  \A i \in 1 .. Len(g[Len(ss)]) :
           \E k \in Nat : k < Len(ss) /\ Len(g[k]) < i /\ i <= Len(g[k + 1])
<1> DEFINE z == Len(ss)
           Ok(k) == \A i \in 1 .. Len(g[k]) :
                      \E m \in Nat : m < k /\ Len(g[m]) < i /\ i <= Len(g[m + 1])
           Good == {k \in Nat : k <= z => Ok(k)}
<1>1. z \in Nat /\ \A k \in 0 .. z : Len(g[k]) \in Nat
  BY JoinsKeep
<1>2. 0 \in Good
  <2>1. g[0] = <<>>
    BY DEF Joins
  <2>2. Len(g[0]) = 0
    BY <2>1
  <2> QED BY <2>2
<1> HIDE DEF z
<1>3. ASSUME NEW k \in Nat, k \in Good PROVE k + 1 \in Good
  <2> SUFFICES ASSUME k + 1 <= z, NEW i \in 1 .. Len(g[k + 1])
               PROVE  \E m \in Nat : m < k + 1 /\ Len(g[m]) < i /\ i <= Len(g[m + 1])
    OBVIOUS
  <2>1. k \in 0 .. z /\ k + 1 \in 0 .. z /\ k <= z
    BY <1>1
  <2>2. Ok(k)
    BY <1>3, <2>1
  <2>3. Len(g[k]) \in Nat /\ Len(g[k + 1]) \in Nat
    BY <1>1, <2>1
  <2>4. CASE i <= Len(g[k])
    <3>1. i \in 1 .. Len(g[k])
      BY <2>3, <2>4
    <3>2. PICK m \in Nat : m < k /\ Len(g[m]) < i /\ i <= Len(g[m + 1])
      BY <2>2, <3>1
    <3> QED BY <3>2
  <2>5. CASE Len(g[k]) < i
    BY <2>3, <2>5
  <2> QED BY <2>3, <2>4, <2>5
<1>4. Ok(z)
  <2>1. Nat \subseteq Good
    <3> HIDE DEF Good
    <3> QED BY <1>2, <1>3, NatSet
  <2> HIDE DEF Ok
  <2> QED BY <1>1, <2>1
<1> QED BY <1>4 DEF z

\* Texts that were written with their NUL are read as they were.
LEMMA TextsWritten ==
  ASSUME NEW Y, P!NUL \notin Y, NEW ts \in Seq(Seq(Y))
  PROVE  P!Terminated(ts) \in Seq(Y \cup {P!NUL}) /\ P!Texts(P!Terminated(ts)) = ts
<1> DEFINE X == Y \cup {P!NUL}
           m == Len(ts)
           ss == [i \in DOMAIN ts |-> Append(ts[i], P!NUL)]
           w == P!Terminated(ts)
<1>1. m \in Nat /\ DOMAIN ts = 1 .. m /\ \A k \in 1 .. m : ts[k] \in Seq(Y)
  OBVIOUS
<1>2. ASSUME NEW k \in 1 .. m
      PROVE  /\ ts[k] \in Seq(X) /\ Len(ts[k]) \in Nat
             /\ Append(ts[k], P!NUL) \in Seq(X)
             /\ Len(Append(ts[k], P!NUL)) = Len(ts[k]) + 1
             /\ Append(ts[k], P!NUL)[Len(ts[k]) + 1] = P!NUL
             /\ \A i \in 1 .. Len(ts[k]) : Append(ts[k], P!NUL)[i] = ts[k][i] /\ ts[k][i] \in Y
  <2> DEFINE t == ts[k]
  <2>1. t \in Seq(Y)
    BY <1>1
  <2> HIDE DEF t, m
  <2>2. t \in Seq(X) /\ P!NUL \in X /\ \A i \in 1 .. Len(t) : t[i] \in Y
    BY <2>1
  <2> HIDE DEF X
  <2>3. /\ Append(t, P!NUL) \in Seq(X) /\ Len(t) \in Nat
        /\ Len(Append(t, P!NUL)) = Len(t) + 1 /\ Append(t, P!NUL)[Len(t) + 1] = P!NUL
        /\ \A i \in 1 .. Len(t) : Append(t, P!NUL)[i] = t[i] /\ t[i] \in X
    BY <2>2, Pushed
  <2> QED BY <2>2, <2>3 DEF t
<1> HIDE DEF X, m
<1>3. /\ ss = [i \in 1 .. m |-> Append(ts[i], P!NUL)]
      /\ \A i \in 1 .. m : ss[i] = Append(ts[i], P!NUL)
  BY <1>1
<1>4. ss \in Seq(Seq(X)) /\ Len(ss) = m
  <2>1. \A i \in 1 .. m : Append(ts[i], P!NUL) \in Seq(X)
    BY <1>2
  <2>2. [i \in 1 .. m |-> Append(ts[i], P!NUL)] \in Seq(Seq(X))
    BY <1>1, <2>1
  <2>3. Len([i \in 1 .. m |-> Append(ts[i], P!NUL)]) = m
    BY <1>1
  <2> HIDE DEF ss
  <2> QED BY <1>3, <2>2, <2>3
<1>5. w = Flatten(ss)
  BY SameLists, Zenon DEF P!Terminated
<1> HIDE DEF ss, w
<1>6. PICK g : Joins(g, ss) /\ Flatten(ss) = g[Len(ss)]
  BY <1>4, FlattenLoop
<1>7. w = g[m] /\ Joins(g, ss)
  BY <1>4, <1>5, <1>6
<1>8. /\ \A k \in 0 .. m : g[k] \in Seq(X) /\ Len(g[k]) \in Nat
      /\ \A k \in 0 .. m : \A j \in 0 .. k : Len(g[j]) <= Len(g[k])
      /\ w \in Seq(X)
  <2>1. m \in 0 .. m
    BY <1>1
  <2> QED BY <1>4, <1>7, <2>1, JoinsKeep
<1> DEFINE p == [k \in 0 .. m |-> Len(g[k])]
<1>9. /\ \A k \in 0 .. m : p[k] \in Nat
      /\ p[0] = 0 /\ p[m] = Len(w)
  <2>1. g[0] = <<>> /\ 0 \in 0 .. m /\ m \in 0 .. m
    BY <1>1, <1>7 DEF Joins
  <2> QED BY <1>7, <1>8, <2>1
<1>10. ASSUME NEW k \in Nat, k < m
       PROVE  /\ p[k + 1] = p[k] + Len(ts[k + 1]) + 1 /\ p[k] \in Nat /\ p[k + 1] <= Len(w)
              /\ w[p[k + 1]] = P!NUL
              /\ \A i \in 1 .. Len(ts[k + 1]) : w[p[k] + i] = ts[k + 1][i] /\ ts[k + 1][i] \in Y
  <2> DEFINE t == ts[k + 1]
             e == ss[k + 1]
  <2>1. k + 1 \in 1 .. m /\ k \in 0 .. m /\ k + 1 \in 0 .. m
    BY <1>1, <1>10
  <2>2. p[k] = Len(g[k]) /\ p[k + 1] = Len(g[k + 1])
    BY <2>1
  <2>3. e = Append(t, P!NUL)
    BY <1>3, <2>1
  <2> HIDE DEF p, t, e
  <2>4. k < Len(ss)
    BY <1>4, <1>10
  <2>5. /\ Len(g[k]) \in Nat /\ Len(g[k + 1]) = Len(g[k]) + Len(ss[k + 1])
        /\ Len(g[k + 1]) <= Len(g[Len(ss)]) /\ Stands(g[Len(ss)], Len(g[k]), ss[k + 1])
    <3>1. ss \in Seq(Seq(X)) /\ Joins(g, ss)
      BY <1>4, <1>7
    <3>2. /\ Len(g[k]) \in Nat /\ ss[k + 1] \in Seq(X) /\ Len(ss[k + 1]) \in Nat
          /\ Len(g[k + 1]) = Len(g[k]) + Len(ss[k + 1])
          /\ g[Len(ss)] \in Seq(X) /\ Len(g[k + 1]) <= Len(g[Len(ss)])
          /\ Stands(g[Len(ss)], Len(g[k]), ss[k + 1])
      BY <2>4, <3>1, JoinedPiece
    <3> QED BY <3>2
  <2>6. /\ p[k] \in Nat /\ p[k + 1] = p[k] + Len(e) /\ p[k + 1] <= Len(w) /\ Stands(w, p[k], e)
    BY <1>4, <1>7, <2>2, <2>5 DEF e
  <2>7. /\ Len(t) \in Nat /\ Len(e) = Len(t) + 1 /\ e[Len(t) + 1] = P!NUL
        /\ \A i \in 1 .. Len(t) : e[i] = t[i] /\ t[i] \in Y
    BY <1>2, <2>1, <2>3 DEF t
  <2>8. \A i \in 1 .. Len(e) : w[p[k] + i] = e[i]
    BY <2>6 DEF Stands
  <2>9. p[k + 1] = p[k] + Len(t) + 1 /\ p[k] + (Len(t) + 1) = p[k + 1]
    <3>1. PICK q \in Nat : q = p[k]
      BY <2>6
    <3>2. PICK c \in Nat : c = Len(t)
      BY <2>7
    <3>3. p[k + 1] = q + (c + 1)
      BY <2>6, <2>7, <3>1, <3>2, Zenon
    <3>4. q + (c + 1) = q + c + 1
      OBVIOUS
    <3> QED BY <3>1, <3>2, <3>3, <3>4, Zenon
  <2>10. w[p[k + 1]] = P!NUL
    <3>1. Len(t) + 1 \in 1 .. Len(e)
      BY <2>7
    <3>2. w[p[k] + (Len(t) + 1)] = e[Len(t) + 1]
      BY <2>8, <3>1
    <3> QED BY <2>7, <2>9, <3>2
  <2>11. \A i \in 1 .. Len(t) : w[p[k] + i] = t[i] /\ t[i] \in Y
    <3>1. \A i \in 1 .. Len(t) : i \in 1 .. Len(e)
      BY <2>7
    <3> QED BY <2>7, <2>8, <3>1
  <2> QED BY <2>6, <2>9, <2>10, <2>11 DEF t
<1>11. \A i \in 1 .. Len(w) : \E k \in Nat : k < m /\ p[k] < i /\ i <= p[k + 1]
  <2>1. \A i \in 1 .. Len(w) : \E k \in Nat : k < m /\ Len(g[k]) < i /\ i <= Len(g[k + 1])
    BY <1>4, <1>7, JoinedWhere
  <2>2. \A k \in Nat : k < m => p[k] = Len(g[k]) /\ p[k + 1] = Len(g[k + 1])
    BY <1>1
  <2> HIDE DEF p
  <2> QED BY <2>1, <2>2
<1> HIDE DEF p
<1> DEFINE e == [k \in 1 .. m |-> p[k]]
<1>12. ASSUME NEW j \in 1 .. m, NEW k \in 1 .. m, j < k PROVE p[j] < p[k]
  <2>1. k - 1 \in Nat /\ k - 1 < m /\ (k - 1) + 1 = k /\ j \in 0 .. m /\ k - 1 \in 0 .. m
        /\ j \in 0 .. k - 1
    BY <1>1, <1>12
  <2>2. p[k] = p[k - 1] + Len(ts[k]) + 1 /\ Len(ts[k]) \in Nat /\ p[k - 1] \in Nat
    BY <1>2, <1>10, <2>1
  <2>3. p[j] <= p[k - 1] /\ p[j] \in Nat
    <3>1. Len(g[j]) <= Len(g[k - 1])
      BY <1>8, <2>1
    <3> QED BY <1>9, <2>1, <3>1 DEF p
  <2> QED BY <2>2, <2>3
<1>13. Rises(e, NulsOf(w))
  <2>1. e \in Seq(Nat) /\ Len(e) = m /\ \A k \in 1 .. m : e[k] = p[k]
    BY <1>1, <1>9
  <2> HIDE DEF e
  <2>2. ASSUME NEW k \in 1 .. m PROVE p[k] \in 1 .. Len(w) /\ w[p[k]] = P!NUL
    <3>1. k - 1 \in Nat /\ k - 1 < m /\ (k - 1) + 1 = k
      BY <1>1
    <3>2. /\ p[k] = p[k - 1] + Len(ts[k]) + 1 /\ p[k - 1] \in Nat /\ Len(ts[k]) \in Nat
          /\ p[k] <= Len(w) /\ w[p[k]] = P!NUL
      BY <1>2, <1>10, <3>1
    <3>3. Len(w) \in Nat
      BY <1>8
    <3> QED BY <3>2, <3>3
  <2>3. ASSUME NEW i \in 1 .. Len(w), w[i] = P!NUL PROVE \E k \in 1 .. m : p[k] = i
    <3>1. PICK k \in Nat : k < m /\ p[k] < i /\ i <= p[k + 1]
      BY <1>11
    <3>2. k + 1 \in 1 .. m
      BY <1>1, <3>1
    <3>3. /\ p[k + 1] = p[k] + Len(ts[k + 1]) + 1 /\ p[k] \in Nat /\ Len(ts[k + 1]) \in Nat
          /\ \A h \in 1 .. Len(ts[k + 1]) : w[p[k] + h] = ts[k + 1][h] /\ ts[k + 1][h] \in Y
      BY <1>2, <1>10, <3>1, <3>2
    <3>4. i = p[k + 1]
      <4> SUFFICES ASSUME i # p[k + 1] PROVE FALSE
        OBVIOUS
      <4> DEFINE h == i - p[k]
      <4>1. h \in 1 .. Len(ts[k + 1]) /\ p[k] + h = i
        <5> DEFINE n1 == Len(ts[k + 1])
        <5>1. /\ p[k + 1] = p[k] + n1 + 1 /\ p[k] \in Nat /\ n1 \in Nat
          BY <3>3
        <5>2. i \in Nat /\ p[k] < i /\ i <= p[k + 1] /\ i # p[k + 1]
          <6>1. Len(w) \in Nat
            BY <1>8
          <6> QED BY <3>1, <6>1
        <5> HIDE DEF n1
        <5>3. p[k] < i /\ i <= p[k] + n1 + 1 /\ i # p[k] + n1 + 1
          BY <5>1, <5>2, Zenon
        <5>4. PICK a \in Nat : a = p[k]
          BY <5>1
        <5>5. i - a \in 1 .. n1 /\ a + (i - a) = i
          <6>1. a \in Nat /\ i \in Nat /\ n1 \in Nat /\ a < i /\ i <= a + n1 + 1 /\ i # a + n1 + 1
            BY <5>1, <5>2, <5>3, <5>4, Zenon
          <6> QED BY <6>1
        <5>6. h = i - a
          BY <5>4 DEF h
        <5>7. h \in 1 .. n1 /\ p[k] + h = i
          BY <5>4, <5>5, <5>6
        <5> QED BY <5>7 DEF n1
      <4> HIDE DEF h
      <4>2. w[i] \in Y
        BY <3>3, <4>1
      <4> QED BY <2>3, <4>2
    <3> QED BY <3>2, <3>4
  <2> QED BY <1>12, <2>1, <2>2, <2>3 DEF Rises, NulsOf
<1>14. P!Nuls(w) = e
  <2> HIDE DEF e
  <2> QED BY <1>8, <1>13, NulFacts, RisesOnce
<1>15. /\ Len(P!Texts(w)) = m /\ P!Texts(w) \in Seq(Seq(X \ {P!NUL}))
       /\ \A k \in 1 .. m :
            P!Texts(w)[k] = SubSeq(w, IF k = 1 THEN 1 ELSE p[k - 1] + 1, p[k] - 1)
  <2>1. Len(e) = m /\ \A k \in 1 .. m : e[k] = p[k] /\ (k # 1 => e[k - 1] = p[k - 1])
    BY <1>1
  <2> HIDE DEF e
  <2>2. /\ Len(P!Texts(w)) = Len(e) /\ P!Texts(w) \in Seq(Seq(X \ {P!NUL}))
        /\ \A k \in 1 .. Len(e) :
             P!Texts(w)[k] = SubSeq(w, IF k = 1 THEN 1 ELSE e[k - 1] + 1, e[k] - 1)
    BY <1>8, <1>14, TextFacts
  <2> QED BY <2>1, <2>2
<1>16. ASSUME NEW k \in 1 .. m PROVE P!Texts(w)[k] = ts[k]
  <2> DEFINE t == ts[k]
             q == p[k - 1]
  <2>1. k - 1 \in Nat /\ k - 1 < m /\ (k - 1) + 1 = k
    BY <1>1
  <2>2. /\ p[k] = q + Len(t) + 1 /\ q \in Nat /\ p[k] <= Len(w) /\ t \in Seq(X)
        /\ \A i \in 1 .. Len(t) : w[q + i] = t[i]
    <3> DEFINE j == k - 1
    <3> HIDE DEF j
    <3>1. j \in Nat /\ j < m /\ j + 1 = k
      BY <2>1 DEF j
    <3>2. /\ p[j + 1] = p[j] + Len(ts[j + 1]) + 1 /\ p[j] \in Nat /\ p[j + 1] <= Len(w)
          /\ \A i \in 1 .. Len(ts[j + 1]) : w[p[j] + i] = ts[j + 1][i]
      BY <1>10, <3>1
    <3>3. ts[k] \in Seq(X)
      BY <1>2
    <3> QED BY <3>1, <3>2, <3>3, Zenon DEF j
  <2>3. (IF k = 1 THEN 1 ELSE p[k - 1] + 1) = q + 1
    BY <1>9
  <2>4. P!Texts(w)[k] = SubSeq(w, q + 1, p[k] - 1)
    BY <1>15, <2>3, Zenon
  <2> HIDE DEF t, q
  <2> DEFINE hi == p[k] - 1
  <2>5. Len(t) \in Nat /\ hi = q + Len(t) /\ hi <= Len(w)
    BY <1>8, <2>2
  <2> HIDE DEF hi
  <2>6. SubSeq(w, q + 1, hi) = [i \in 1 .. Len(t) |-> w[q + i]]
    BY <1>8, <2>2, <2>5
  <2>7. t = [i \in 1 .. Len(t) |-> t[i]]
    BY <2>2
  <2>8. SubSeq(w, q + 1, hi) = t
    BY <2>2, <2>6, <2>7
  <2> QED BY <2>4, <2>8 DEF t, hi
<1>17. P!Texts(w) = ts
  <2>1. P!Texts(w) = [k \in 1 .. m |-> P!Texts(w)[k]] /\ ts = [k \in 1 .. m |-> ts[k]]
    BY <1>1, <1>15
  <2> QED BY <1>16, <2>1
<1> QED BY <1>8, <1>17 DEF w, X

\* The texts of the beginning are the first texts of the whole.
LEMMA TextsCut ==
  ASSUME NEW X, NEW units \in Seq(X), NEW m \in 0 .. Len(units)
  PROVE  LET part  == P!Texts(SubSeq(units, 1, m))
             whole == P!Texts(units)
         IN  /\ Len(part) <= Len(whole) /\ Len(part) \in Nat /\ Len(whole) \in Nat
             /\ \A k \in 1 .. Len(part) : part[k] = whole[k]
<1> DEFINE cut == SubSeq(units, 1, m)
           a == P!Nuls(cut)
           b == P!Nuls(units)
<1>1. cut \in Seq(X) /\ Len(cut) = m /\ \A i \in 1 .. m : cut[i] = units[i]
  OBVIOUS
<1>2. Len(units) \in Nat
  OBVIOUS
<1> HIDE DEF cut
<1>3. Rises(a, NulsOf(cut)) /\ Rises(b, NulsOf(units))
  BY <1>1, NulFacts
<1>4. /\ NulsOf(cut) \subseteq NulsOf(units)
      /\ \A x \in NulsOf(cut) : \A y \in NulsOf(units) : y <= x => y \in NulsOf(cut)
  BY <1>1, <1>2 DEF NulsOf
<1> HIDE DEF a, b
<1>5. /\ Len(a) <= Len(b) /\ Len(a) \in Nat /\ Len(b) \in Nat
      /\ \A k \in 1 .. Len(a) : a[k] = b[k]
  BY <1>3, <1>4, RisesFirst
<1>6. /\ Len(P!Texts(cut)) = Len(a)
      /\ \A k \in 1 .. Len(a) :
           P!Texts(cut)[k] = SubSeq(cut, IF k = 1 THEN 1 ELSE a[k - 1] + 1, a[k] - 1)
  BY <1>1, TextFacts DEF a
<1>7. /\ Len(P!Texts(units)) = Len(b)
      /\ \A k \in 1 .. Len(b) :
           P!Texts(units)[k] = SubSeq(units, IF k = 1 THEN 1 ELSE b[k - 1] + 1, b[k] - 1)
  BY TextFacts DEF b
<1>8. ASSUME NEW k \in 1 .. Len(a) PROVE P!Texts(cut)[k] = P!Texts(units)[k]
  <2> DEFINE lo == IF k = 1 THEN 1 ELSE a[k - 1] + 1
             hi == a[k] - 1
  <2>1. k \in 1 .. Len(b) /\ a[k] = b[k] /\ (k # 1 => a[k - 1] = b[k - 1] /\ a[k - 1] \in Nat)
        /\ a[k] \in 1 .. m
    <3>1. k \in 1 .. Len(b) /\ (k # 1 => k - 1 \in 1 .. Len(a))
      BY <1>5
    <3>2. a[k] \in 1 .. m /\ a \in Seq(Nat)
      BY <1>1, <1>3 DEF Rises, NulsOf
    <3> QED BY <1>5, <3>1, <3>2
  <2>2. lo \in Nat /\ lo >= 1 /\ hi \in Nat /\ hi <= m
    BY <2>1
  <2>3. P!Texts(cut)[k] = SubSeq(cut, lo, hi)
    BY <1>6, Zenon
  <2>4. P!Texts(units)[k] = SubSeq(units, lo, hi)
    BY <1>7, <2>1
  <2> HIDE DEF lo, hi
  <2>5. SubSeq(cut, lo, hi) = SubSeq(units, lo, hi)
    BY <1>1, <1>2, <2>2
  <2> QED BY <2>3, <2>4, <2>5
<1> QED BY <1>5, <1>6, <1>7, <1>8 DEF cut

LEMMA LowerWord ==
  \A w : /\ P!Lower(P!Lower(w)) = P!Lower(w)
         /\ P!Lower(w) = "notUtf8" <=> w = "notUtf8"
         /\ w # P!NUL => P!Lower(w) # P!NUL
         /\ P!Lower(w) \in {w, "octet", "blksize"}
BY DEF P!Lower, P!NUL

LEMMA Utf8Is ==
  ASSUME NEW X, NEW t \in Seq(X)
  PROVE  P!IsUtf8(t) <=> \A i \in 1 .. Len(t) : t[i] # "notUtf8"
<1>1. DOMAIN t = 1 .. Len(t)
  OBVIOUS
<1>2. P!IsUtf8(t) <=> {t[i] : i \in DOMAIN t} \cap {"notUtf8"} = {}
  BY Zenon DEF P!IsUtf8, P!ToSet, P!NotUtf8
<1> QED BY <1>1, <1>2

\* The words in lower case
Lowered(X) == (X \cup {"octet", "blksize"}) \ {P!NUL}

LEMMA LowerFacts ==
  ASSUME NEW X, NEW t \in Seq(X \ {P!NUL})
  PROVE  /\ P!LowerText(t) \in Seq(Lowered(X)) /\ t \in Seq(Lowered(X))
         /\ Len(P!LowerText(t)) = Len(t)
         /\ P!LowerText(P!LowerText(t)) = P!LowerText(t)
         /\ P!IsUtf8(P!LowerText(t)) <=> P!IsUtf8(t)
<1> DEFINE u == P!LowerText(t)
           z == Len(t)
           Z == Lowered(X)
<1>1. z \in Nat /\ DOMAIN t = 1 .. z /\ \A i \in 1 .. z : t[i] \in X \ {P!NUL}
  OBVIOUS
<1>2. u = [i \in 1 .. z |-> P!Lower(t[i])]
  BY <1>1, Zenon DEF P!LowerText
<1>3. \A i \in 1 .. z : P!Lower(t[i]) \in Z /\ t[i] \in Z
  <2>1. \A w \in X \ {P!NUL} : P!Lower(w) \in Z /\ w \in Z
    BY LowerWord DEF Lowered, P!NUL
  <2> QED BY <1>1, <2>1
<1> HIDE DEF u, z, Z
<1>4. u \in Seq(Z) /\ Len(u) = z /\ DOMAIN u = 1 .. z /\ \A i \in 1 .. z : u[i] = P!Lower(t[i])
  BY <1>1, <1>2, <1>3
<1>5. t \in Seq(Z)
  <2>1. t = [i \in 1 .. z |-> t[i]]
    BY <1>1
  <2> QED BY <1>1, <1>3, <2>1
<1>6. P!LowerText(u) = u
  <2>1. P!LowerText(u) = [i \in 1 .. z |-> P!Lower(u[i])]
    BY <1>4, Zenon DEF P!LowerText
  <2>2. \A i \in 1 .. z : P!Lower(u[i]) = P!Lower(t[i])
    BY <1>4, LowerWord
  <2> QED BY <1>2, <2>1, <2>2
<1>7. P!IsUtf8(u) <=> P!IsUtf8(t)
  <2>1. P!IsUtf8(u) <=> \A i \in 1 .. z : u[i] # "notUtf8"
    BY <1>4, Utf8Is
  <2>2. P!IsUtf8(t) <=> \A i \in 1 .. z : t[i] # "notUtf8"
    BY Utf8Is DEF z
  <2> QED BY <1>4, <2>1, <2>2, LowerWord
<1> QED BY <1>4, <1>5, <1>6, <1>7 DEF u, z, Z

\* The pairs of texts
LEMMA OptionFacts ==
  ASSUME NEW X, NEW texts \in Seq(Seq(X)), NEW first \in {1, 3}, first <= Len(texts) + 1
  PROVE  LET opts == P!Options(texts, first)
             z    == (Len(texts) - first + 1) \div 2
         IN  /\ z \in Nat /\ Len(opts) = z /\ DOMAIN opts = 1 .. z
             /\ opts = [k \in 1 .. z |-> [name  |-> P!LowerText(texts[first + 2 * k - 2]),
                                          value |-> texts[first + 2 * k - 1]]]
             /\ \A k \in 1 .. z :
                  /\ first + 2 * k - 2 \in 1 .. Len(texts) /\ first + 2 * k - 1 \in 1 .. Len(texts)
                  /\ opts[k].name = P!LowerText(texts[first + 2 * k - 2])
                  /\ opts[k].value = texts[first + 2 * k - 1]
             /\ P!OptionsAreUtf8(texts, first) <=>
                  \A k \in 1 .. z : /\ P!IsUtf8(texts[first + 2 * k - 2])
                                    /\ P!IsUtf8(texts[first + 2 * k - 1])
<1> DEFINE opts == P!Options(texts, first)
           z    == (Len(texts) - first + 1) \div 2
           pairs == [k \in 1 .. z |-> [name  |-> P!LowerText(texts[first + 2 * k - 2]),
                                      value |-> texts[first + 2 * k - 1]]]
<1>1. z \in Nat /\ \A k \in 1 .. z : /\ first + 2 * k - 2 \in 1 .. Len(texts)
                                     /\ first + 2 * k - 1 \in 1 .. Len(texts)
  OBVIOUS
<1>2. opts = pairs
  BY Zenon DEF P!Options
<1> HIDE DEF opts, z
<1>3. DOMAIN opts = 1 .. z
  BY <1>2, Zenon
<1>4. Len(opts) = z
  <2>1. Len(pairs) = z
    BY <1>1
  <2> QED BY <1>2, <2>1, Zenon
<1>5. \A k \in 1 .. z :
        opts[k].name = P!LowerText(texts[first + 2 * k - 2]) /\ opts[k].value = texts[first + 2 * k - 1]
  BY <1>2
<1>6. P!OptionsAreUtf8(texts, first) <=>
        \A k \in 1 .. z : /\ P!IsUtf8(texts[first + 2 * k - 2])
                          /\ P!IsUtf8(texts[first + 2 * k - 1])
  BY <1>3, Zenon DEF P!OptionsAreUtf8, opts
<1> QED BY <1>1, <1>2, <1>3, <1>4, <1>5, <1>6 DEF opts, z

\* From position first on, ws are the names and values of the options.
Follows(ws, opts, first) ==
  /\ Len(ws) = first - 1 + 2 * Len(opts)
  /\ \A k \in 1 .. Len(opts) :
       ws[first + 2 * k - 2] = opts[k].name /\ ws[first + 2 * k - 1] = opts[k].value

\* Options that are written out are read again as they are.
LEMMA OptionsAgain ==
  ASSUME NEW X, NEW texts \in Seq(Seq(X \ {P!NUL})), NEW first \in {1, 3}, first <= Len(texts) + 1,
         P!OptionsAreUtf8(texts, first),
         NEW ws \in Seq(Seq(Lowered(X))), Follows(ws, P!Options(texts, first), first)
  PROVE  P!Options(ws, first) = P!Options(texts, first) /\ P!OptionsAreUtf8(ws, first)
<1> DEFINE W == X \ {P!NUL}
           opts == P!Options(texts, first)
           z == (Len(texts) - first + 1) \div 2
           y == (Len(ws) - first + 1) \div 2
           a(k) == first + 2 * k - 2
           b(k) == first + 2 * k - 1
<1>1. /\ z \in Nat /\ Len(opts) = z
      /\ opts = [k \in 1 .. z |-> [name |-> P!LowerText(texts[a(k)]), value |-> texts[b(k)]]]
      /\ \A k \in 1 .. z :
           /\ a(k) \in 1 .. Len(texts) /\ b(k) \in 1 .. Len(texts)
           /\ opts[k].name = P!LowerText(texts[a(k)]) /\ opts[k].value = texts[b(k)]
      /\ \A k \in 1 .. z : P!IsUtf8(texts[a(k)]) /\ P!IsUtf8(texts[b(k)])
  BY OptionFacts
<1> HIDE DEF opts, z, a, b, W
<1>2. Len(ws) = first - 1 + 2 * z
      /\ \A k \in 1 .. z : ws[a(k)] = opts[k].name /\ ws[b(k)] = opts[k].value
  BY <1>1 DEF Follows, opts, a, b
<1>3. y = z /\ first <= Len(ws) + 1
  BY <1>1, <1>2
<1>4. /\ P!Options(ws, first)
           = [k \in 1 .. y |-> [name |-> P!LowerText(ws[a(k)]), value |-> ws[b(k)]]]
      /\ P!OptionsAreUtf8(ws, first)
           <=> \A k \in 1 .. y : P!IsUtf8(ws[a(k)]) /\ P!IsUtf8(ws[b(k)])
  BY <1>3, OptionFacts DEF a, b
<1>5. ASSUME NEW k \in 1 .. z
      PROVE  /\ P!LowerText(ws[a(k)]) = P!LowerText(texts[a(k)]) /\ ws[b(k)] = texts[b(k)]
             /\ P!IsUtf8(ws[a(k)]) /\ P!IsUtf8(ws[b(k)])
  <2>1. texts[a(k)] \in Seq(X \ {P!NUL}) /\ texts[b(k)] \in Seq(X \ {P!NUL})
    BY <1>1
  <2>2. ws[a(k)] = P!LowerText(texts[a(k)]) /\ ws[b(k)] = texts[b(k)]
    BY <1>1, <1>2
  <2>3. /\ P!LowerText(P!LowerText(texts[a(k)])) = P!LowerText(texts[a(k)])
        /\ P!IsUtf8(P!LowerText(texts[a(k)])) <=> P!IsUtf8(texts[a(k)])
    BY <2>1, LowerFacts
  <2> QED BY <1>1, <2>2, <2>3, Zenon
<1> HIDE DEF y
<1>6. P!Options(ws, first) = opts
  <2> DEFINE c(k) == [name |-> P!LowerText(ws[a(k)]), value |-> ws[b(k)]]
             d(k) == [name |-> P!LowerText(texts[a(k)]), value |-> texts[b(k)]]
  <2>1. \A k \in 1 .. z : c(k) = d(k)
    BY <1>5
  <2>2. P!Options(ws, first) = [k \in 1 .. z |-> c(k)] /\ opts = [k \in 1 .. z |-> d(k)]
    BY <1>1, <1>3, <1>4, Zenon
  <2> HIDE DEF c, d
  <2> QED BY <2>1, <2>2, Zenon
<1>7. P!OptionsAreUtf8(ws, first)
  BY <1>3, <1>4, <1>5
<1> QED BY <1>6, <1>7, Zenon DEF opts

\* The options one after the other
LEMMA ListedFacts ==
  ASSUME NEW X, NEW texts \in Seq(Seq(X \ {P!NUL})), NEW first \in {1, 3}, first <= Len(texts) + 1
  PROVE  LET opts == P!Options(texts, first)
             all == P!Listed(opts)
         IN  /\ all \in Seq(Seq(Lowered(X))) /\ Len(opts) \in Nat /\ Len(all) = 2 * Len(opts)
             /\ \A k \in 1 .. Len(opts) :
                  all[2 * k - 1] = opts[k].name /\ all[2 * k] = opts[k].value
<1> DEFINE opts == P!Options(texts, first)
           all == P!Listed(opts)
           z == Len(opts)
           Y == Seq(Lowered(X))
<1>1. z \in Nat /\ \A k \in 1 .. z : opts[k].name \in Y /\ opts[k].value \in Y
  <2>1. /\ z \in Nat
        /\ \A k \in 1 .. z :
             /\ first + 2 * k - 2 \in 1 .. Len(texts) /\ first + 2 * k - 1 \in 1 .. Len(texts)
             /\ opts[k].name = P!LowerText(texts[first + 2 * k - 2])
             /\ opts[k].value = texts[first + 2 * k - 1]
    BY OptionFacts
  <2> HIDE DEF opts, z, Y
  <2>2. \A i \in 1 .. Len(texts) : P!LowerText(texts[i]) \in Y /\ texts[i] \in Y
    <3>1. ASSUME NEW i \in 1 .. Len(texts) PROVE texts[i] \in Seq(X \ {P!NUL})
      OBVIOUS
    <3>2. \A t \in Seq(X \ {P!NUL}) : P!LowerText(t) \in Y /\ t \in Y
      BY LowerFacts DEF Y
    <3> QED BY <3>1, <3>2
  <2> QED BY <2>1, <2>2
<1> DEFINE at(i) == IF i % 2 = 1 THEN opts[(i + 1) \div 2].name ELSE opts[i \div 2].value
<1>2. all = [i \in 1 .. 2 * z |-> at(i)]
  BY Zenon DEF P!Listed
<1> HIDE DEF opts, all, z, Y
<1>3. \A i \in 1 .. 2 * z : at(i) \in Y
  <2> SUFFICES ASSUME NEW i \in 1 .. 2 * z PROVE at(i) \in Y
    OBVIOUS
  <2>1. CASE i % 2 = 1
    <3>1. (i + 1) \div 2 \in 1 .. z
      BY <1>1, <2>1
    <3> QED BY <1>1, <2>1, <3>1
  <2>2. CASE i % 2 # 1
    <3>1. i \div 2 \in 1 .. z
      BY <1>1, <2>2
    <3> QED BY <1>1, <2>2, <3>1
  <2> QED BY <2>1, <2>2
<1>4. \A k \in 1 .. z : /\ 2 * k - 1 \in 1 .. 2 * z /\ 2 * k \in 1 .. 2 * z
                        /\ at(2 * k - 1) = opts[k].name /\ at(2 * k) = opts[k].value
  <2> SUFFICES ASSUME NEW k \in 1 .. z
               PROVE  /\ 2 * k - 1 \in 1 .. 2 * z /\ 2 * k \in 1 .. 2 * z
                      /\ at(2 * k - 1) = opts[k].name /\ at(2 * k) = opts[k].value
    OBVIOUS
  <2>1. /\ 2 * k - 1 \in 1 .. 2 * z /\ 2 * k \in 1 .. 2 * z
        /\ (2 * k - 1) % 2 = 1 /\ (2 * k) % 2 = 0
        /\ ((2 * k - 1) + 1) \div 2 = k /\ (2 * k) \div 2 = k
    BY <1>1
  <2> QED BY <2>1
<1> HIDE DEF at
<1>5. all \in Seq(Y) /\ Len(all) = 2 * z
  <2>1. 2 * z \in Nat
    BY <1>1
  <2>2. [i \in 1 .. 2 * z |-> at(i)] \in Seq(Y)
    BY <1>3, <2>1
  <2>3. Len([i \in 1 .. 2 * z |-> at(i)]) = 2 * z
    BY <2>1
  <2> QED BY <1>2, <2>2, <2>3, Zenon
<1>6. \A k \in 1 .. z : all[2 * k - 1] = opts[k].name /\ all[2 * k] = opts[k].value
  <2>1. \A i \in 1 .. 2 * z : all[i] = at(i)
    BY <1>2, Zenon
  <2> QED BY <1>4, <2>1
<1> QED BY <1>1, <1>5, <1>6 DEF opts, all, z, Y

\* Good packet is its opcode and what follows.
LEMMA Datagram ==
  ASSUME NEW X, NEW op, NEW s \in Seq(X)
  PROVE  LET raw == <<op>> \o s
         IN  raw # <<>> /\ raw[1] = op /\ Tail(raw) = s /\ Len(raw) = Len(s) + 1
<1> DEFINE Y == X \cup {op}
<1>1. <<op>> \in Seq(Y) /\ Len(<<op>>) = 1 /\ <<op>>[1] = op /\ s \in Seq(Y)
  OBVIOUS
<1> DEFINE raw == <<op>> \o s
<1> HIDE DEF Y
<1>2. /\ raw \in Seq(Y) /\ Len(raw) = Len(s) + 1 /\ Len(s) \in Nat
      /\ \A i \in 1 .. Len(raw) : raw[i] = IF i <= 1 THEN <<op>>[i] ELSE s[i - 1]
  BY <1>1, Appended
<1> HIDE DEF raw
<1>3. raw # <<>> /\ raw[1] = op
  BY <1>1, <1>2
<1>4. Tail(raw) \in Seq(Y) /\ Len(Tail(raw)) = Len(s) /\ \A i \in 1 .. Len(s) : Tail(raw)[i] = raw[i + 1]
  BY <1>2, <1>3
<1>5. \A i \in 1 .. Len(s) : Tail(raw)[i] = s[i]
  BY <1>2, <1>4
<1>6. Tail(raw) = s
  BY <1>1, <1>4, <1>5, SameSequence
<1> QED BY <1>2, <1>3, <1>6 DEF raw

\* serialize_packet of a request and of an OACK, parse_packet of a request
LEMMA WrittenRequest ==
  ASSUME NEW p, p.op \in {1, 2}
  PROVE  P!Serialize(p) = <<p.op>> \o P!Terminated(<<p.filename, p.mode>> \o P!Listed(p.options))
<1>1. p.op # 3 /\ p.op # 4 /\ p.op # 5 /\ p.op # 6
  OBVIOUS
<1> QED BY <1>1, Zenon DEF P!Serialize
LEMMA WrittenOack ==
  ASSUME NEW p, p.op = 6
  PROVE  P!Serialize(p) = <<6>> \o P!Terminated(P!Listed(p.options))
<1>1. p.op # 3 /\ p.op # 4 /\ p.op # 5 /\ p.op \notin {1, 2}
  OBVIOUS
<1> QED BY <1>1, Zenon DEF P!Serialize
LEMMA ReadRequest ==
  ASSUME NEW raw, raw # <<>>, raw[1] \in {1, 2}
  PROVE  P!Parse(raw) = P!ParseRequest(raw[1], Tail(raw))
<1>1. raw[1] # 3 /\ raw[1] # 4 /\ raw[1] # 5 /\ raw[1] # 6 /\ raw[1] \in 1 .. 6 /\ raw[1] \notin 3 .. 5
  OBVIOUS
<1> QED BY <1>1, Zenon DEF P!Parse, P!Opcodes

LEMMA ReadOack ==
  ASSUME NEW raw, raw # <<>>, raw[1] = 6
  PROVE  P!Parse(raw) = P!ParseOack(Tail(raw))
<1>1. raw[1] # 3 /\ raw[1] # 4 /\ raw[1] # 5 /\ raw[1] \notin {1, 2} /\ raw[1] \in 1 .. 6 /\ raw[1] \notin 3 .. 5
  OBVIOUS
<1> QED BY <1>1, Zenon DEF P!Parse, P!Opcodes

LEMMA Asked ==
  ASSUME NEW op \in {1, 2}, NEW units
  PROVE  LET p     == P!ParseRequest(op, units)
             texts == P!Texts(units)
         IN  p # P!Rejected =>
               /\ Len(texts) >= 2 /\ P!ValidFilename(texts[1])
               /\ P!LowerText(texts[2]) \in P!Modes /\ P!OptionsAreUtf8(texts, 3)
               /\ p = [op |-> op, filename |-> texts[1], mode |-> P!LowerText(texts[2]),
                       options |-> P!Options(texts, 3)]
BY Zenon DEF P!ParseRequest

LEMMA RequestAgain ==
  ASSUME NEW X, NEW units \in Seq(X), NEW op \in {1, 2}, P!ParseRequest(op, units) # P!Rejected
  PROVE  LET p == P!ParseRequest(op, units)
         IN  P!Parse(P!Serialize(p)) = p
<1> DEFINE p == P!ParseRequest(op, units)
           texts == P!Texts(units)
           f == texts[1]
           m == P!LowerText(texts[2])
           opts == P!Options(texts, 3)
           all == P!Listed(opts)
           ws == <<f, m>> \o all
           Y == Lowered(X)
<1>1. /\ Len(texts) >= 2 /\ P!ValidFilename(f) /\ m \in P!Modes /\ P!OptionsAreUtf8(texts, 3)
      /\ p = [op |-> op, filename |-> f, mode |-> m, options |-> opts]
  BY Asked, Zenon
<1>2. texts \in Seq(Seq(X \ {P!NUL})) /\ Len(texts) \in Nat
  BY TextFacts
<1>3. 3 <= Len(texts) + 1 /\ texts[1] \in Seq(X \ {P!NUL}) /\ texts[2] \in Seq(X \ {P!NUL})
  <2> HIDE DEF texts, f, m, opts
  <2> QED BY <1>1, <1>2
<1>4. f \in Seq(Y) /\ m \in Seq(Y) /\ P!LowerText(m) = m
  <2> HIDE DEF texts, Y
  <2> QED BY <1>3, LowerFacts DEF Y
<1>5. /\ all \in Seq(Seq(Y)) /\ Len(opts) \in Nat /\ Len(all) = 2 * Len(opts)
      /\ \A k \in 1 .. Len(opts) : all[2 * k - 1] = opts[k].name /\ all[2 * k] = opts[k].value
  <2> HIDE DEF texts, Y
  <2> QED BY <1>2, <1>3, ListedFacts DEF Y
<1> HIDE DEF p, texts, f, m, opts, all, Y
<1>6. /\ <<f, m>> \in Seq(Seq(Y)) /\ Len(<<f, m>>) = 2 /\ <<f, m>>[1] = f /\ <<f, m>>[2] = m
  BY <1>4
<1>7. /\ ws \in Seq(Seq(Y)) /\ Len(ws) = 2 + Len(all)
      /\ \A i \in 1 .. Len(ws) : ws[i] = IF i <= 2 THEN <<f, m>>[i] ELSE all[i - 2]
  BY <1>5, <1>6, Appended
<1> HIDE DEF ws
<1>8. ws[1] = f /\ ws[2] = m /\ Len(ws) >= 2
  BY <1>5, <1>6, <1>7
<1>9. Follows(ws, opts, 3)
  <2>1. ASSUME NEW k \in 1 .. Len(opts)
        PROVE  ws[3 + 2 * k - 2] = opts[k].name /\ ws[3 + 2 * k - 1] = opts[k].value
    <3>1. /\ 3 + 2 * k - 2 \in 1 .. Len(ws) /\ ~(3 + 2 * k - 2 <= 2) /\ (3 + 2 * k - 2) - 2 = 2 * k - 1
          /\ 3 + 2 * k - 1 \in 1 .. Len(ws) /\ ~(3 + 2 * k - 1 <= 2) /\ (3 + 2 * k - 1) - 2 = 2 * k
      <4> DEFINE l == Len(opts)
                 n1 == Len(ws)
      <4>1. l \in Nat /\ n1 = 2 + 2 * l /\ k \in 1 .. l
        BY <1>5, <1>7
      <4> HIDE DEF l, n1
      <4>2. /\ 3 + 2 * k - 2 \in 1 .. n1 /\ ~(3 + 2 * k - 2 <= 2) /\ (3 + 2 * k - 2) - 2 = 2 * k - 1
            /\ 3 + 2 * k - 1 \in 1 .. n1 /\ ~(3 + 2 * k - 1 <= 2) /\ (3 + 2 * k - 1) - 2 = 2 * k
        BY <4>1
      <4> QED BY <4>2 DEF n1
    <3>2. \A i \in 1 .. Len(ws) : ~(i <= 2) => ws[i] = all[i - 2]
      BY <1>7
    <3>3. ws[3 + 2 * k - 2] = all[2 * k - 1] /\ ws[3 + 2 * k - 1] = all[2 * k]
      BY <3>1, <3>2
    <3> QED BY <1>5, <3>3
  <2>2. Len(ws) = 3 - 1 + 2 * Len(opts)
    BY <1>5, <1>7
  <2> QED BY <2>1, <2>2 DEF Follows
<1>10. P!Options(ws, 3) = opts /\ P!OptionsAreUtf8(ws, 3)
  BY <1>1, <1>2, <1>3, <1>7, <1>9, OptionsAgain DEF opts, Y
<1> DEFINE s == P!Terminated(ws)
<1>11. s \in Seq(Y \cup {P!NUL}) /\ P!Texts(s) = ws
  <2>1. P!NUL \notin Y
    BY DEF Y, Lowered
  <2> QED BY <1>7, <2>1, TextsWritten
<1> HIDE DEF s
<1>12. P!ParseRequest(op, s) = p
  BY <1>1, <1>4, <1>8, <1>10, <1>11 DEF P!ParseRequest
<1>13. P!Serialize(p) = <<op>> \o s
  <2>1. p.op = op /\ p.filename = f /\ p.mode = m /\ p.options = opts
    BY <1>1
  <2>2. P!Serialize(p) = <<p.op>> \o P!Terminated(<<p.filename, p.mode>> \o P!Listed(p.options))
    <3>1. p.op \in {1, 2}
      BY <2>1
    <3> QED BY <3>1, WrittenRequest
  <2> QED BY <2>1, <2>2, Zenon DEF s, ws, all
<1> DEFINE raw == <<op>> \o s
<1>14. raw # <<>> /\ raw[1] = op /\ Tail(raw) = s
  BY <1>11, Datagram
<1> HIDE DEF raw
<1>15. P!Parse(raw) = P!ParseRequest(op, s)
  BY <1>14, ReadRequest
<1> QED BY <1>12, <1>13, <1>15 DEF p, raw

LEMMA OackAgain ==
  ASSUME NEW X, NEW units \in Seq(X), P!ParseOack(units) # P!Rejected
  PROVE  LET p == P!ParseOack(units)
         IN  P!Parse(P!Serialize(p)) = p
<1> DEFINE p == P!ParseOack(units)
           texts == P!Texts(units)
           opts == P!Options(texts, 1)
           all == P!Listed(opts)
           Y == Lowered(X)
<1>1. P!OptionsAreUtf8(texts, 1) /\ p = [op |-> 6, options |-> opts]
  BY Zenon DEF P!ParseOack
<1>2. texts \in Seq(Seq(X \ {P!NUL})) /\ Len(texts) \in Nat
  BY TextFacts
<1>3. 1 <= Len(texts) + 1
  <2> HIDE DEF texts
  <2> QED BY <1>2
<1>4. /\ all \in Seq(Seq(Y)) /\ Len(opts) \in Nat /\ Len(all) = 2 * Len(opts)
      /\ \A k \in 1 .. Len(opts) : all[2 * k - 1] = opts[k].name /\ all[2 * k] = opts[k].value
  <2> HIDE DEF texts, Y
  <2> QED BY <1>2, <1>3, ListedFacts DEF Y
<1> HIDE DEF p, texts, opts, all, Y
<1>5. Follows(all, opts, 1)
  <2>1. ASSUME NEW k \in 1 .. Len(opts)
        PROVE  all[1 + 2 * k - 2] = opts[k].name /\ all[1 + 2 * k - 1] = opts[k].value
    <3>1. 1 + 2 * k - 2 = 2 * k - 1 /\ 1 + 2 * k - 1 = 2 * k
      BY <1>4
    <3> QED BY <1>4, <3>1
  <2>2. Len(all) = 1 - 1 + 2 * Len(opts)
    BY <1>4
  <2> QED BY <2>1, <2>2 DEF Follows
<1>6. P!Options(all, 1) = opts /\ P!OptionsAreUtf8(all, 1)
  BY <1>1, <1>2, <1>3, <1>4, <1>5, OptionsAgain DEF opts, Y
<1> DEFINE s == P!Terminated(all)
<1>7. s \in Seq(Y \cup {P!NUL}) /\ P!Texts(s) = all
  <2>1. P!NUL \notin Y
    BY DEF Y, Lowered
  <2> QED BY <1>4, <2>1, TextsWritten
<1> HIDE DEF s
<1>8. P!ParseOack(s) = p
  BY <1>1, <1>6, <1>7 DEF P!ParseOack
<1>9. P!Serialize(p) = <<6>> \o s
  <2>1. p.op = 6 /\ p.options = opts
    BY <1>1
  <2>2. P!Serialize(p) = <<6>> \o P!Terminated(P!Listed(p.options))
    BY <2>1, WrittenOack
  <2> QED BY <2>1, <2>2, Zenon DEF s, all
<1> DEFINE raw == <<6>> \o s
<1>10. raw # <<>> /\ raw[1] = 6 /\ Tail(raw) = s
  BY <1>7, Datagram
<1> HIDE DEF raw
<1>11. P!Parse(raw) = P!ParseOack(s)
  BY <1>10, ReadOack
<1> QED BY <1>8, <1>9, <1>11 DEF p, raw

\* What stands before the first NUL, or everything
Message(units) ==
  LET nuls == {i \in DOMAIN units : units[i] = P!NUL}
  IN  SubSeq(units, 1, IF nuls = {} THEN Len(units) ELSE P!Min(nuls) - 1)

LEMMA MessageFacts ==
  ASSUME NEW X, NEW units \in Seq(X)
  PROVE  Message(units) \in Seq(X \ {P!NUL})
<1> DEFINE nuls == {i \in DOMAIN units : units[i] = P!NUL}
           e == P!Nuls(units)
           z == Len(units)
<1>1. z \in Nat /\ DOMAIN units = 1 .. z /\ \A i \in 1 .. z : units[i] \in X
  OBVIOUS
<1>2. nuls = NulsOf(units) /\ Rises(e, nuls)
  <2>1. nuls = NulsOf(units)
    BY <1>1, Zenon DEF NulsOf, z
  <2> QED BY <2>1, NulFacts
<1> HIDE DEF e
<1>3. ASSUME nuls # {}
      PROVE  P!Min(nuls) \in 1 .. z /\ \A i \in 1 .. z : i < P!Min(nuls) => units[i] # P!NUL
  <2>1. /\ Len(e) \in Nat /\ \A k \in 1 .. Len(e) : e[k] \in nuls /\ e[k] \in Nat
        /\ \A j, k \in 1 .. Len(e) : j < k => e[j] < e[k]
        /\ \A x \in nuls : \E k \in 1 .. Len(e) : e[k] = x
    BY <1>2 DEF Rises
  <2>2. 1 \in 1 .. Len(e)
    <3> HIDE DEF nuls
    <3> QED BY <1>3, <2>1
  <2>3. e[1] \in nuls /\ e[1] \in Nat
    <3> HIDE DEF nuls
    <3> QED BY <2>1, <2>2
  <2>4. \A x \in nuls : x \in Nat /\ e[1] <= x
    <3> SUFFICES ASSUME NEW x \in nuls PROVE x \in Nat /\ e[1] <= x
      OBVIOUS
    <3> HIDE DEF nuls
    <3>1. PICK k \in 1 .. Len(e) : e[k] = x
      BY <2>1
    <3>2. CASE k = 1
      BY <2>1, <2>3, <3>1, <3>2
    <3>3. CASE k # 1
      <4>1. 1 < k
        BY <3>3
      <4>2. e[1] < e[k] /\ e[k] \in Nat
        BY <2>1, <2>2, <4>1
      <4> QED BY <2>3, <3>1, <4>2
    <3> QED BY <3>2, <3>3
  <2> DEFINE m == P!Min(nuls)
  <2>5. m = CHOOSE x \in nuls : \A y \in nuls : x <= y
    BY Zenon DEF P!Min
  <2>6. m \in nuls /\ \A y \in nuls : m <= y
    <3> HIDE DEF m, nuls
    <3> QED BY <2>3, <2>4, <2>5
  <2> HIDE DEF m
  <2>7. m \in 1 .. z
    BY <1>1, <2>6
  <2>8. ASSUME NEW i \in 1 .. z, i < m, units[i] = P!NUL PROVE FALSE
    <3>1. i \in nuls
      BY <1>1, <2>8
    <3> HIDE DEF nuls
    <3> QED BY <2>6, <2>7, <2>8, <3>1
  <2> QED BY <2>7, <2>8 DEF m
<1> DEFINE hi == IF nuls = {} THEN z ELSE P!Min(nuls) - 1
           message == SubSeq(units, 1, hi)
<1>4. hi \in 0 .. z
  <2> HIDE DEF nuls
  <2> QED BY <1>1, <1>3
<1>5. \A i \in 1 .. hi : units[i] \in X \ {P!NUL}
  <2> SUFFICES ASSUME NEW i \in 1 .. hi PROVE units[i] \in X \ {P!NUL}
    OBVIOUS
  <2>1. i \in 1 .. z
    <3> HIDE DEF hi
    <3> QED BY <1>1, <1>4
  <2>2. units[i] # P!NUL
    <3>1. CASE nuls = {}
      BY <1>1, <2>1, <3>1
    <3>2. CASE nuls # {}
      <4> HIDE DEF nuls
      <4>1. i < P!Min(nuls)
        BY <1>1, <1>3, <3>2
      <4> QED BY <1>3, <2>1, <3>2, <4>1
    <3> QED BY <3>1, <3>2
  <2> QED BY <1>1, <2>1, <2>2
<1> HIDE DEF hi
<1>6. message = [i \in 1 .. hi |-> units[i]]
  BY <1>1, <1>4 DEF z
<1>7. message \in Seq(X \ {P!NUL})
  <2> HIDE DEF message
  <2> QED BY <1>4, <1>5, <1>6
<1> QED BY <1>7, Zenon DEF Message, nuls, message, hi, z

\* The message ends at the one NUL behind it.
LEMMA MessageWritten ==
  ASSUME NEW Y, P!NUL \notin Y, NEW m \in Seq(Y)
  PROVE  Message(m \o <<P!NUL>>) = m
<1> DEFINE X == Y \cup {P!NUL}
           s == m \o <<P!NUL>>
           z == Len(m)
           nuls == {i \in DOMAIN s : s[i] = P!NUL}
<1>1. m \in Seq(X) /\ <<P!NUL>> \in Seq(X) /\ z \in Nat /\ \A i \in 1 .. z : m[i] # P!NUL
  OBVIOUS
<1>2. /\ s \in Seq(X) /\ Len(s) = z + 1
      /\ \A i \in 1 .. Len(s) : s[i] = IF i <= z THEN m[i] ELSE <<P!NUL>>[i - z]
  <2>1. Len(<<P!NUL>>) = 1
    OBVIOUS
  <2> HIDE DEF X
  <2> QED BY <1>1, <2>1, Appended
<1> HIDE DEF s, z, X
<1>3. /\ DOMAIN s = 1 .. z + 1 /\ s[z + 1] = P!NUL
      /\ \A i \in 1 .. z : s[i] = m[i] /\ s[i] # P!NUL
  <2>1. (z + 1) - z = 1 /\ ~(z + 1 <= z)
    BY <1>1
  <2> QED BY <1>1, <1>2, <2>1
<1>4. nuls = {z + 1}
  BY <1>1, <1>3
<1>5. P!Min(nuls) = z + 1
  <2>1. \A x \in {z + 1} : x = z + 1
    OBVIOUS
  <2>2. z + 1 <= z + 1
    BY <1>1
  <2>3. P!Min({z + 1}) = CHOOSE x \in {z + 1} : \A y \in {z + 1} : x <= y
    BY Zenon DEF P!Min
  <2>4. P!Min({z + 1}) \in {z + 1}
    BY <2>2, <2>3
  <2> HIDE DEF nuls
  <2> QED BY <1>4, <2>4
<1> HIDE DEF nuls
<1>6. Message(s) = SubSeq(s, 1, z)
  <2>1. nuls # {} /\ P!Min(nuls) - 1 = z
    BY <1>1, <1>4, <1>5
  <2> QED BY <2>1, Zenon DEF Message, nuls
<1>7. SubSeq(s, 1, z) = m
  <2>1. SubSeq(s, 1, z) \in Seq(X) /\ Len(SubSeq(s, 1, z)) = z /\ \A i \in 1 .. z : SubSeq(s, 1, z)[i] = s[i]
    BY <1>1, <1>2
  <2>2. \A i \in 1 .. z : SubSeq(s, 1, z)[i] = m[i]
    BY <1>3, <2>1
  <2> HIDE DEF s
  <2> QED BY <1>1, <2>1, <2>2, SameSequence DEF z
<1> QED BY <1>6, <1>7 DEF s

LEMMA ErrorRead ==
  ASSUME NEW code, NEW units
  PROVE  P!ParseErrorPacket(code, units) =
           [op |-> 5, code |-> IF code \in 0 .. 8 THEN code ELSE 0,
            message |-> IF P!IsUtf8(Message(units)) THEN Message(units)
                        ELSE <<"invalid error message">>]
BY Zenon DEF P!ParseErrorPacket, Message, P!ErrorCodes

\* Good packet of which the second unit is a number
LEMMA Numbered ==
  ASSUME NEW X, NEW op, NEW number, NEW s \in Seq(X)
  PROVE  LET raw == <<op, number>> \o s
         IN  /\ raw # <<>> /\ raw[1] = op /\ raw[2] = number /\ Len(raw) # 1
             /\ SubSeq(raw, 3, Len(raw)) = s
<1> DEFINE Y == X \cup {op, number}
           h == <<op, number>>
           raw == h \o s
           z == Len(s)
<1>1. h \in Seq(Y) /\ Len(h) = 2 /\ h[1] = op /\ h[2] = number /\ s \in Seq(Y)
  OBVIOUS
<1> HIDE DEF Y, h
<1>2. /\ raw \in Seq(Y) /\ Len(raw) = z + 2 /\ z \in Nat
      /\ \A i \in 1 .. Len(raw) : raw[i] = IF i <= 2 THEN h[i] ELSE s[i - 2]
  <2>1. /\ h \o s \in Seq(Y) /\ Len(h \o s) = Len(h) + Len(s)
        /\ Len(h) \in Nat /\ Len(s) \in Nat
        /\ \A i \in 1 .. Len(h \o s) : (h \o s)[i] = IF i <= Len(h) THEN h[i] ELSE s[i - Len(h)]
    BY <1>1, Appended
  <2>2. raw = h \o s
    OBVIOUS
  <2> HIDE DEF raw
  <2> QED BY <1>1, <2>1, <2>2
<1> HIDE DEF raw, z
<1>3. raw # <<>> /\ raw[1] = op /\ raw[2] = number /\ Len(raw) # 1
  BY <1>1, <1>2
<1>4. /\ SubSeq(raw, 3, Len(raw)) \in Seq(Y) /\ Len(SubSeq(raw, 3, Len(raw))) = z
      /\ \A i \in 1 .. z : SubSeq(raw, 3, Len(raw))[i] = raw[i + 2]
  BY <1>2
<1>5. \A i \in 1 .. z : raw[i + 2] = s[i]
  <2> SUFFICES ASSUME NEW i \in 1 .. z PROVE raw[i + 2] = s[i]
    OBVIOUS
  <2>1. i + 2 \in 1 .. Len(raw) /\ ~(i + 2 <= 2) /\ (i + 2) - 2 = i
    BY <1>2
  <2> QED BY <1>2, <2>1
<1>6. SubSeq(raw, 3, Len(raw)) = s
  BY <1>1, <1>4, <1>5, SameSequence DEF z
<1> QED BY <1>3, <1>6 DEF raw, h

LEMMA ReadNumbered ==
  ASSUME NEW raw, raw # <<>>, raw[1] \in 3 .. 5, Len(raw) # 1
  PROVE  /\ raw[1] = 3 => P!Parse(raw) = [op |-> 3, block |-> raw[2], data |-> SubSeq(raw, 3, Len(raw))]
         /\ raw[1] = 4 => P!Parse(raw) = [op |-> 4, block |-> raw[2]]
         /\ raw[1] = 5 => P!Parse(raw) = P!ParseErrorPacket(raw[2], SubSeq(raw, 3, Len(raw)))
<1>1. raw[1] # 6 /\ raw[1] \notin {1, 2} /\ raw[1] \in 1 .. 6
  OBVIOUS
<1>2. CASE raw[1] = 3
  <2>1. raw[1] # 4 /\ raw[1] # 5
    BY <1>2
  <2> QED BY <1>1, <1>2, <2>1, Zenon DEF P!Parse, P!Opcodes
<1>3. CASE raw[1] = 4
  <2>1. raw[1] # 3 /\ raw[1] # 5
    BY <1>3
  <2> QED BY <1>1, <1>3, <2>1, Zenon DEF P!Parse, P!Opcodes
<1>4. CASE raw[1] = 5
  <2>1. raw[1] # 3 /\ raw[1] # 4
    BY <1>4
  <2> QED BY <1>1, <1>4, <2>1, Zenon DEF P!Parse, P!Opcodes
<1> QED BY <1>2, <1>3, <1>4

LEMMA WrittenNumbered ==
  ASSUME NEW p
  PROVE  /\ p.op = 3 => P!Serialize(p) = <<3, p.block>> \o p.data
         /\ p.op = 4 => P!Serialize(p) = <<4, p.block>>
         /\ p.op = 5 => P!Serialize(p) = <<5, p.code>> \o p.message \o <<P!NUL>>
<1>1. CASE p.op = 3
  <2>1. p.op \notin {1, 2} /\ p.op # 4 /\ p.op # 5 /\ p.op # 6
    BY <1>1
  <2> QED BY <1>1, <2>1, Zenon DEF P!Serialize
<1>2. CASE p.op = 4
  <2>1. p.op \notin {1, 2} /\ p.op # 3 /\ p.op # 5 /\ p.op # 6
    BY <1>2
  <2> QED BY <1>2, <2>1, Zenon DEF P!Serialize
<1>3. CASE p.op = 5
  <2>1. p.op \notin {1, 2} /\ p.op # 3 /\ p.op # 4 /\ p.op # 6
    BY <1>3
  <2> QED BY <1>3, <2>1, Zenon DEF P!Serialize
<1> QED BY <1>1, <1>2, <1>3

LEMMA DataAgain ==
  ASSUME NEW X, NEW raw \in Seq(X), raw # <<>>, raw[1] = 3, Len(raw) # 1
  PROVE  P!Parse(P!Serialize(P!Parse(raw))) = P!Parse(raw)
<1> DEFINE b == raw[2]
           d == SubSeq(raw, 3, Len(raw))
           p == [op |-> 3, block |-> b, data |-> d]
           r == <<3, b>> \o d
<1>1. P!Parse(raw) = p
  <2>1. raw[1] \in 3 .. 5
    OBVIOUS
  <2> QED BY <2>1, ReadNumbered
<1>2. d \in Seq(X)
  OBVIOUS
<1> HIDE DEF b, d
<1>3. P!Serialize(p) = r
  <2>1. p.op = 3 /\ p.block = b /\ p.data = d
    OBVIOUS
  <2> QED BY <2>1, WrittenNumbered, Zenon
<1>4. r # <<>> /\ r[1] = 3 /\ r[2] = b /\ Len(r) # 1 /\ SubSeq(r, 3, Len(r)) = d
  BY <1>2, Numbered
<1> HIDE DEF r
<1>5. P!Parse(r) = p
  <2>1. r[1] \in 3 .. 5
    BY <1>4
  <2>2. P!Parse(r) = [op |-> 3, block |-> r[2], data |-> SubSeq(r, 3, Len(r))]
    BY <1>4, <2>1, ReadNumbered
  <2> QED BY <1>4, <2>2, Zenon
<1> QED BY <1>1, <1>3, <1>5, Zenon

LEMMA AckAgain ==
  ASSUME NEW X, NEW raw \in Seq(X), raw # <<>>, raw[1] = 4, Len(raw) # 1
  PROVE  P!Parse(P!Serialize(P!Parse(raw))) = P!Parse(raw)
<1> DEFINE b == raw[2]
           p == [op |-> 4, block |-> b]
           r == <<4, b>>
<1>1. P!Parse(raw) = p
  <2>1. raw[1] \in 3 .. 5
    OBVIOUS
  <2> QED BY <2>1, ReadNumbered
<1> HIDE DEF b
<1>3. P!Serialize(p) = r
  <2>1. p.op = 4 /\ p.block = b
    OBVIOUS
  <2> QED BY <2>1, WrittenNumbered, Zenon
<1>4. r # <<>> /\ r[1] = 4 /\ r[2] = b /\ Len(r) # 1
  OBVIOUS
<1> HIDE DEF r
<1>5. P!Parse(r) = p
  <2>1. r[1] \in 3 .. 5
    BY <1>4
  <2>2. P!Parse(r) = [op |-> 4, block |-> r[2]]
    BY <1>4, <2>1, ReadNumbered
  <2> QED BY <1>4, <2>2, Zenon
<1> QED BY <1>1, <1>3, <1>5, Zenon

LEMMA ErrorAgain ==
  ASSUME NEW X, NEW raw \in Seq(X), raw # <<>>, raw[1] = 5, Len(raw) # 1
  PROVE  P!Parse(P!Serialize(P!Parse(raw))) = P!Parse(raw)
<1> DEFINE units == SubSeq(raw, 3, Len(raw))
           Y == (X \cup {"invalid error message"}) \ {P!NUL}
           c == IF raw[2] \in 0 .. 8 THEN raw[2] ELSE 0
           m == IF P!IsUtf8(Message(units)) THEN Message(units) ELSE <<"invalid error message">>
           p == [op |-> 5, code |-> c, message |-> m]
           t == m \o <<P!NUL>>
           r == <<5, c>> \o t
<1>1. P!Parse(raw) = p
  <2>1. raw[1] \in 3 .. 5
    OBVIOUS
  <2>2. P!Parse(raw) = P!ParseErrorPacket(raw[2], units)
    BY <2>1, ReadNumbered
  <2> QED BY <2>2, ErrorRead, Zenon
<1>2. units \in Seq(X)
  OBVIOUS
<1> HIDE DEF units
<1>3. Message(units) \in Seq(X \ {P!NUL})
  BY <1>2, MessageFacts
<1>4. m \in Seq(Y) /\ P!IsUtf8(m)
  <2>1. Message(units) \in Seq(Y)
    <3>1. X \ {P!NUL} \subseteq Y
      OBVIOUS
    <3> HIDE DEF Y
    <3> QED BY <1>3, <3>1
  <2> DEFINE w == "invalid error message"
  <2>2. <<w>> \in Seq(Y)
    BY DEF P!NUL
  <2>3. P!IsUtf8(<<w>>)
    <3>1. \A i \in 1 .. Len(<<w>>) : <<w>>[i] # "notUtf8"
      <4>1. Len(<<w>>) = 1 /\ <<w>>[1] = w /\ w # "notUtf8"
        OBVIOUS
      <4> HIDE DEF w
      <4>2. \A i \in 1 .. 1 : i = 1
        OBVIOUS
      <4> QED BY <4>1, <4>2
    <3> HIDE DEF w, Y
    <3> QED BY <2>2, <3>1, Utf8Is
  <2> QED BY <2>1, <2>2, <2>3
<1>5. c \in 0 .. 8
  OBVIOUS
<1>6. P!NUL \notin Y
  OBVIOUS
<1> HIDE DEF m, c, Y
<1>7. Message(t) = m /\ t \in Seq(Y \cup {P!NUL})
  <2>1. m \in Seq(Y \cup {P!NUL}) /\ <<P!NUL>> \in Seq(Y \cup {P!NUL})
    BY <1>4
  <2> QED BY <1>4, <1>6, <2>1, Appended, MessageWritten
<1>8. P!Serialize(p) = r
  <2>1. p.op = 5 /\ p.code = c /\ p.message = m
    OBVIOUS
  <2>2. P!Serialize(p) = (<<5, c>> \o m) \o <<P!NUL>>
    BY <2>1, WrittenNumbered, Zenon
  <2>3. (<<5, c>> \o m) \o <<P!NUL>> = <<5, c>> \o (m \o <<P!NUL>>)
    <3> DEFINE Z == Y \cup {5, c, P!NUL}
               a == <<5, c>>
               b == <<P!NUL>>
    <3>1. a \in Seq(Z) /\ b \in Seq(Z) /\ m \in Seq(Z)
      BY <1>4
    <3> HIDE DEF a, b, Z
    <3>2. (a \o m) \o b = a \o (m \o b)
      BY <3>1
    <3> QED BY <3>2 DEF a, b
  <2> QED BY <2>2, <2>3, Zenon
<1> HIDE DEF t
<1>9. r # <<>> /\ r[1] = 5 /\ r[2] = c /\ Len(r) # 1 /\ SubSeq(r, 3, Len(r)) = t
  BY <1>7, Numbered
<1> HIDE DEF r
<1>10. P!Parse(r) = p
  <2>1. r[1] \in 3 .. 5
    BY <1>9
  <2>2. P!Parse(r) = P!ParseErrorPacket(c, t)
    BY <1>9, <2>1, ReadNumbered
  <2>3. P!ParseErrorPacket(c, t) = [op |-> 5, code |-> c, message |-> m]
    BY <1>4, <1>5, <1>7, ErrorRead
  <2> QED BY <2>2, <2>3, Zenon
<1> QED BY <1>1, <1>8, <1>10, Zenon

\* serialize_packet writes what parse_packet reads, for every sequence of units
\* that is a packet (core/protocol/packet.rs).
THEOREM PacketRereads ==
  ASSUME NEW X, NEW raw \in Seq(X)
  PROVE  P!Reread(raw)
<1> SUFFICES ASSUME P!Parse(raw) # P!Rejected
             PROVE  P!Parse(P!Serialize(P!Parse(raw))) = P!Parse(raw)
  BY Zenon DEF P!Reread
<1>1. raw # <<>> /\ raw[1] \in P!Opcodes /\ ~(raw[1] \in 3 .. 5 /\ Len(raw) = 1)
  BY Zenon DEF P!Parse
<1>2. raw[1] \in 1 .. 6
  BY <1>1 DEF P!Opcodes
<1>3. CASE raw[1] \in {1, 2}
  <2>1. Tail(raw) \in Seq(X)
    BY <1>1
  <2>2. P!Parse(raw) = P!ParseRequest(raw[1], Tail(raw))
    BY <1>1, <1>3, ReadRequest
  <2> DEFINE op == raw[1]
             units == Tail(raw)
  <2>3. op \in {1, 2} /\ units \in Seq(X) /\ P!ParseRequest(op, units) # P!Rejected
    BY <1>3, <2>1, <2>2
  <2> HIDE DEF op, units
  <2>4. P!Parse(P!Serialize(P!ParseRequest(op, units))) = P!ParseRequest(op, units)
    BY <2>3, RequestAgain
  <2> QED BY <2>2, <2>4, Zenon DEF op, units
<1>4. CASE raw[1] = 6
  <2>1. Tail(raw) \in Seq(X)
    BY <1>1
  <2>2. P!Parse(raw) = P!ParseOack(Tail(raw))
    BY <1>1, <1>4, ReadOack
  <2> DEFINE units == Tail(raw)
  <2>3. units \in Seq(X) /\ P!ParseOack(units) # P!Rejected
    BY <2>1, <2>2
  <2> HIDE DEF units
  <2>4. P!Parse(P!Serialize(P!ParseOack(units))) = P!ParseOack(units)
    BY <2>3, OackAgain
  <2> QED BY <2>2, <2>4, Zenon DEF units
<1>5. CASE raw[1] \in 3 .. 5
  <2>1. Len(raw) # 1
    BY <1>1, <1>5
  <2>2. CASE raw[1] = 3
    BY <1>1, <2>1, <2>2, DataAgain
  <2>3. CASE raw[1] = 4
    BY <1>1, <2>1, <2>3, AckAgain
  <2>4. CASE raw[1] = 5
    BY <1>1, <2>1, <2>4, ErrorAgain
  <2> QED BY <1>5, <2>2, <2>3, <2>4
<1> QED BY <1>2, <1>3, <1>4, <1>5

\* The options of the first texts are the first options.
LEMMA FirstOptions ==
  ASSUME NEW X, NEW part \in Seq(Seq(X \ {P!NUL})), NEW whole \in Seq(Seq(X \ {P!NUL})),
         Len(part) >= 2, Len(part) <= Len(whole), \A k \in 1 .. Len(part) : part[k] = whole[k]
  PROVE  P!IsPrefix(P!Options(part, 3), P!Options(whole, 3))
<1> DEFINE N == Seq(Lowered(X))
           a == P!Options(part, 3)
           b == P!Options(whole, 3)
           y == (Len(part) - 3 + 1) \div 2
           z == (Len(whole) - 3 + 1) \div 2
           of(t, k) == [name |-> P!LowerText(t[3 + 2 * k - 2]), value |-> t[3 + 2 * k - 1]]
<1>1. Len(part) \in Nat /\ Len(whole) \in Nat /\ 3 <= Len(part) + 1 /\ 3 <= Len(whole) + 1
  OBVIOUS
<1>2. /\ y \in Nat /\ Len(a) = y /\ a = [k \in 1 .. y |-> of(part, k)]
      /\ \A k \in 1 .. y : 3 + 2 * k - 2 \in 1 .. Len(part) /\ 3 + 2 * k - 1 \in 1 .. Len(part)
  BY <1>1, OptionFacts
<1>3. /\ z \in Nat /\ Len(b) = z /\ b = [k \in 1 .. z |-> of(whole, k)]
      /\ \A k \in 1 .. z : 3 + 2 * k - 2 \in 1 .. Len(whole) /\ 3 + 2 * k - 1 \in 1 .. Len(whole)
  BY <1>1, OptionFacts
<1>4. y <= z
  BY <1>1
<1>5. \A t \in Seq(X \ {P!NUL}) : P!LowerText(t) \in N /\ t \in N
  BY LowerFacts
<1> HIDE DEF N, a, b, y, z
<1>6. \A k \in 1 .. y : of(part, k) = of(whole, k)
  BY <1>2
<1> DEFINE S == [name : N, value : N]
<1>7. \A k \in 1 .. z : of(whole, k) \in S
  <2> SUFFICES ASSUME NEW k \in 1 .. z PROVE of(whole, k) \in S
    OBVIOUS
  <2>1. whole[3 + 2 * k - 2] \in Seq(X \ {P!NUL}) /\ whole[3 + 2 * k - 1] \in Seq(X \ {P!NUL})
    BY <1>3
  <2>2. P!LowerText(whole[3 + 2 * k - 2]) \in N /\ whole[3 + 2 * k - 1] \in N
    BY <1>5, <2>1
  <2> QED BY <2>2
<1> HIDE DEF of, S
<1>8. \A k \in 1 .. y : k \in 1 .. z
  BY <1>2, <1>3, <1>4
<1>9. b \in Seq(S)
  BY <1>3, <1>7
<1>10. a \in Seq(S)
  BY <1>2, <1>6, <1>7, <1>8
<1>11. \A k \in 1 .. y : a[k] = b[k]
  BY <1>2, <1>3, <1>6, <1>8
<1>12. SubSeq(a, 1, Len(a)) = SubSeq(b, 1, Len(a))
  <2>1. SubSeq(a, 1, y) = [k \in 1 .. y |-> a[k]]
    BY <1>2, <1>10
  <2>2. SubSeq(b, 1, y) = [k \in 1 .. y |-> b[k]]
    BY <1>2, <1>3, <1>4, <1>9
  <2> QED BY <1>2, <1>11, <2>1, <2>2
<1> QED BY <1>2, <1>3, <1>4, <1>12, Zenon DEF P!IsPrefix, a, b

\* A request cut short anywhere is no request of another file and has no option the
\* whole one does not have (parse_request in core/protocol/packet.rs).
THEOREM RequestCut ==
  ASSUME NEW X, NEW raw \in Seq(X), raw # <<>>, raw[1] \in {1, 2}
  PROVE  P!CutShort(raw)
<1> SUFFICES ASSUME NEW k \in 0 .. Len(raw),
                    P!Parse(SubSeq(raw, 1, k)) # P!Rejected, P!Parse(raw) # P!Rejected
             PROVE  /\ P!Parse(SubSeq(raw, 1, k)).filename = P!Parse(raw).filename
                    /\ P!Parse(SubSeq(raw, 1, k)).mode = P!Parse(raw).mode
                    /\ P!IsPrefix(P!Parse(SubSeq(raw, 1, k)).options, P!Parse(raw).options)
  BY Zenon DEF P!CutShort
<1> DEFINE cut == SubSeq(raw, 1, k)
           op == raw[1]
           units == Tail(raw)
           less == SubSeq(units, 1, k - 1)
           pt == P!Texts(less)
           wt == P!Texts(units)
<1>1. cut # <<>>
  BY Zenon DEF P!Parse
<1>2. k \in 1 .. Len(raw)
  <2>1. k # 0
    BY <1>1
  <2> QED BY <2>1
<1>3. units \in Seq(X) /\ Len(units) = Len(raw) - 1 /\ \A i \in 1 .. Len(units) : units[i] = raw[i + 1]
  OBVIOUS
<1>4. cut \in Seq(X) /\ Len(cut) = k /\ \A i \in 1 .. k : cut[i] = raw[i]
  BY <1>2
<1>5. cut[1] = op
  BY <1>2, <1>4
<1> HIDE DEF cut, units
<1>6. k - 1 \in 0 .. Len(units) /\ Len(raw) \in Nat
  BY <1>2, <1>3
<1>7. Tail(cut) = less
  <2>1. Tail(cut) \in Seq(X) /\ Len(Tail(cut)) = k - 1 /\ \A i \in 1 .. k - 1 : Tail(cut)[i] = cut[i + 1]
    BY <1>1, <1>2, <1>4
  <2>2. less \in Seq(X) /\ Len(less) = k - 1 /\ \A i \in 1 .. k - 1 : less[i] = units[i]
    BY <1>3, <1>6
  <2>3. \A i \in 1 .. k - 1 : Tail(cut)[i] = less[i]
    <3> HIDE DEF less
    <3> SUFFICES ASSUME NEW i \in 1 .. k - 1 PROVE Tail(cut)[i] = less[i]
      OBVIOUS
    <3>1. i + 1 \in 1 .. k /\ i \in 1 .. Len(units)
      BY <1>2, <1>6
    <3> QED BY <1>3, <1>4, <2>1, <2>2, <3>1
  <2> HIDE DEF less
  <2> QED BY <2>1, <2>2, <2>3, SameSequence
<1> HIDE DEF op
<1>8. P!Parse(cut) = P!ParseRequest(op, less) /\ P!Parse(raw) = P!ParseRequest(op, units) /\ op \in {1, 2}
  <2>1. P!Parse(cut) = P!ParseRequest(cut[1], Tail(cut))
    BY <1>1, <1>5, ReadRequest DEF op
  <2>2. P!Parse(raw) = P!ParseRequest(raw[1], Tail(raw))
    BY ReadRequest
  <2> QED BY <1>5, <1>7, <2>1, <2>2, Zenon DEF op, units
<1>9. /\ Len(pt) <= Len(wt) /\ Len(pt) \in Nat /\ Len(wt) \in Nat
      /\ \A i \in 1 .. Len(pt) : pt[i] = wt[i]
  BY <1>3, <1>6, TextsCut
<1>10. pt \in Seq(Seq(X \ {P!NUL})) /\ wt \in Seq(Seq(X \ {P!NUL}))
  <2>1. less \in Seq(X)
    BY <1>3, <1>6
  <2> HIDE DEF less
  <2> QED BY <1>3, <2>1, TextFacts
<1>11. /\ Len(pt) >= 2
       /\ P!Parse(cut) = [op |-> op, filename |-> pt[1], mode |-> P!LowerText(pt[2]),
                          options |-> P!Options(pt, 3)]
  BY <1>8, Asked, Zenon DEF cut
<1>12. P!Parse(raw) = [op |-> op, filename |-> wt[1], mode |-> P!LowerText(wt[2]),
                       options |-> P!Options(wt, 3)]
  BY <1>8, Asked, Zenon
<1> HIDE DEF pt, wt
<1>13. pt[1] = wt[1] /\ pt[2] = wt[2]
  BY <1>9, <1>11
<1>14. P!IsPrefix(P!Options(pt, 3), P!Options(wt, 3))
  BY <1>9, <1>10, <1>11, FirstOptions
<1> QED BY <1>11, <1>12, <1>13, <1>14 DEF cut

-----------------------------------------------------------------------------
(***************************************************************************)
(* Virtual roots                                                           *)
(***************************************************************************)

\* The least of some positions
LEMMA LeastPlace ==
  ASSUME NEW S, S \subseteq Nat, S # {}
  PROVE  V!Min(S) \in S /\ \A y \in S : V!Min(S) <= y
<1>1. V!Min(S) = CHOOSE x \in S : \A y \in S : x <= y
  BY Zenon DEF V!Min
<1>2. \E x \in S : \A y \in S : x <= y
  BY Least
<1> QED BY <1>1, <1>2, Zenon

LEMMA GreatestPlace ==
  ASSUME NEW S, S \subseteq Nat, S # {}, NEW z \in Nat, \A y \in S : y <= z
  PROVE  V!Max(S) \in S /\ \A y \in S : y <= V!Max(S)
<1>1. V!Max(S) = CHOOSE x \in S : \A y \in S : x >= y
  BY Zenon DEF V!Max
<1>2. PICK x \in S : \A y \in S : y <= x
  <2>1. S \subseteq Int /\ z \in Int
    OBVIOUS
  <2> QED BY <2>1, Greatest
<1>3. \A y \in S : x >= y
  BY <1>2
<1>4. V!Max(S) \in S /\ \A y \in S : V!Max(S) >= y
  BY <1>1, <1>3, Zenon
<1> QED BY <1>4

\* The roots: aliases that are texts
Aliased(aliases) ==
  /\ Len(aliases) \in Nat /\ DOMAIN aliases = 1 .. Len(aliases)
  /\ \A i \in 1 .. Len(aliases) : Len(aliases[i].alias) \in Nat

\* The stable sort puts every root at a place of its own, the longer first.
LEMMA PlacesFill ==
  ASSUME NEW aliases, Aliased(aliases)
  PROVE  LET z == Len(aliases)
         IN  /\ \A i \in 1 .. z : V!Place(aliases, i) \in 1 .. z
             /\ \A i, j \in 1 .. z : V!Longer(aliases, i, j) => V!Place(aliases, i) < V!Place(aliases, j)
             /\ \A i, j \in 1 .. z : V!Place(aliases, i) = V!Place(aliases, j) => i = j
             /\ \A k \in 1 .. z : \E i \in 1 .. z : V!Place(aliases, i) = k
<1> DEFINE z == Len(aliases)
           D == 1 .. z
           over(i) == {j \in D : V!Longer(aliases, j, i)}
           c(i) == Cardinality(over(i))
<1>1. z \in Nat /\ DOMAIN aliases = D /\ \A i \in D : Len(aliases[i].alias) \in Nat
  BY DEF Aliased
<1>2. \A i \in D : V!Place(aliases, i) = c(i) + 1
  BY <1>1, Zenon DEF V!Place, V!Cardinality, Cardinality
<1>3. IsFiniteSet(D) /\ Cardinality(D) = z
  <2>1. 1 \in Int /\ z \in Int
    BY <1>1
  <2> HIDE DEF z
  <2>2. IsFiniteSet(1 .. z) /\ Cardinality(1 .. z) = IF 1 > z THEN 0 ELSE z - 1 + 1
    BY <2>1, FS_Interval
  <2>3. z \in Nat
    BY <1>1
  <2> QED BY <2>2, <2>3
<1> HIDE DEF z
<1>4. \A i, j \in D : V!Longer(aliases, i, j) \/ V!Longer(aliases, j, i) \/ i = j
  BY <1>1 DEF V!Longer
<1>5. \A i, j, k \in D : V!Longer(aliases, i, j) /\ V!Longer(aliases, j, k) => V!Longer(aliases, i, k)
  BY <1>1 DEF V!Longer
<1>6. \A i \in D : ~ V!Longer(aliases, i, i)
  BY <1>1 DEF V!Longer
<1> HIDE DEF D
<1>7. \A i \in D : IsFiniteSet(over(i)) /\ c(i) \in Nat
  <2> SUFFICES ASSUME NEW i \in D PROVE IsFiniteSet(over(i)) /\ c(i) \in Nat
    OBVIOUS
  <2>1. over(i) \subseteq D
    OBVIOUS
  <2> HIDE DEF over
  <2> QED BY <1>3, <2>1, FS_Subset, FS_CardinalityType
<1>8. \A i \in D : c(i) < z
  <2> SUFFICES ASSUME NEW i \in D PROVE c(i) < z
    OBVIOUS
  <2>1. over(i) \subseteq D /\ over(i) # D
    BY <1>6
  <2>2. over(i) \in SUBSET D
    BY <2>1
  <2> HIDE DEF over
  <2>3. Cardinality(over(i)) <= Cardinality(D) /\ (Cardinality(D) = Cardinality(over(i)) => D = over(i))
    BY <1>3, <2>2, FS_Subset
  <2>4. Cardinality(over(i)) \in Nat
    BY <1>7
  <2> QED BY <1>1, <1>3, <2>1, <2>3, <2>4
<1>9. \A i, j \in D : V!Longer(aliases, i, j) => c(i) < c(j)
  <2> SUFFICES ASSUME NEW i \in D, NEW j \in D, V!Longer(aliases, i, j) PROVE c(i) < c(j)
    OBVIOUS
  <2>1. over(i) \subseteq over(j)
    BY <1>5
  <2>2. i \in over(j) /\ i \notin over(i)
    BY <1>6
  <2>3. IsFiniteSet(over(j))
    BY <1>7
  <2>4. over(i) \in SUBSET over(j) /\ over(i) # over(j)
    BY <2>1, <2>2
  <2> HIDE DEF over
  <2>5. /\ Cardinality(over(i)) <= Cardinality(over(j))
        /\ Cardinality(over(j)) = Cardinality(over(i)) => over(j) = over(i)
    BY <2>3, <2>4, FS_Subset
  <2>6. Cardinality(over(i)) \in Nat /\ Cardinality(over(j)) \in Nat
    BY <1>7
  <2> QED BY <2>4, <2>5, <2>6
<1> HIDE DEF over, c
<1>10. \A i, j \in D : c(i) = c(j) => i = j
  <2> SUFFICES ASSUME NEW i \in D, NEW j \in D, c(i) = c(j), i # j PROVE FALSE
    OBVIOUS
  <2>1. c(i) \in Nat /\ c(j) \in Nat
    BY <1>7
  <2>2. c(i) < c(j) \/ c(j) < c(i)
    BY <1>4, <1>9
  <2> QED BY <2>1, <2>2
<1> DEFINE f == [i \in D |-> c(i) + 1]
<1>11. \A i \in D : c(i) + 1 \in D
  BY <1>1, <1>7, <1>8 DEF D
<1>12. f \in Injection(D, D)
  <2>1. f \in [D -> D]
    BY <1>11
  <2>2. \A a, b \in D : f[a] = f[b] => a = b
    BY <1>7, <1>10
  <2> QED BY <2>1, <2>2 DEF Injection, IsInjective
<1>13. f \in Surjection(D, D)
  BY <1>3, <1>12, FS_Injection
<1>14. \A k \in D : \E i \in D : c(i) + 1 = k
  <2>1. \A k \in D : \E i \in D : f[i] = k
    BY <1>13 DEF Surjection
  <2> QED BY <2>1
<1>15. \A i, j \in D : V!Longer(aliases, i, j) => c(i) + 1 < c(j) + 1
  BY <1>7, <1>9
<1>16. \A i, j \in D : c(i) + 1 = c(j) + 1 => i = j
  BY <1>7, <1>10
<1>17. /\ \A i \in D : V!Place(aliases, i) \in D
       /\ \A i, j \in D : V!Longer(aliases, i, j) => V!Place(aliases, i) < V!Place(aliases, j)
       /\ \A i, j \in D : V!Place(aliases, i) = V!Place(aliases, j) => i = j
       /\ \A k \in D : \E i \in D : V!Place(aliases, i) = k
  BY <1>2, <1>11, <1>14, <1>15, <1>16
<1> QED BY <1>17, Zenon DEF D, z

\* What the loop of resolve returns at a root
Behind(root, name) ==
  LET rest == V!Trim(SubSeq(name, Len(root.alias) + 1, Len(name)))
  IN  IF rest = <<>> THEN V!Nowhere ELSE V!At(root.dir, rest)

Begins(aliases, name) == {i \in 1 .. Len(aliases) : V!IsPrefix(aliases[i].alias, name)}

\* The loop finds a longest alias with which the name begins.
LEMMA LongestFound ==
  ASSUME NEW aliases, Aliased(aliases), NEW name
  PROVE  LET hits == Begins(aliases, name)
             found == V!FirstAlias(V!Sorted(aliases), name)
         IN  /\ hits = {} => found = V!Nowhere
             /\ hits # {} => \E o \in hits : /\ found = Behind(aliases[o], name)
                                             /\ \A i \in hits : Len(aliases[i].alias) <= Len(aliases[o].alias)
<1> DEFINE z == Len(aliases)
           hits == Begins(aliases, name)
           sorted == V!Sorted(aliases)
           places == {k \in DOMAIN sorted : V!IsPrefix(sorted[k].alias, name)}
           at(k) == CHOOSE i \in DOMAIN aliases : V!Place(aliases, i) = k
<1>1. /\ z \in Nat /\ DOMAIN aliases = 1 .. z
      /\ \A i \in 1 .. z : Len(aliases[i].alias) \in Nat
  BY DEF Aliased
<1>2. /\ \A i \in 1 .. z : V!Place(aliases, i) \in 1 .. z
      /\ \A i, j \in 1 .. z : V!Longer(aliases, i, j) => V!Place(aliases, i) < V!Place(aliases, j)
      /\ \A i, j \in 1 .. z : V!Place(aliases, i) = V!Place(aliases, j) => i = j
      /\ \A k \in 1 .. z : \E i \in 1 .. z : V!Place(aliases, i) = k
  BY PlacesFill
<1>3. sorted = [k \in DOMAIN aliases |-> aliases[at(k)]]
  BY Zenon DEF V!Sorted
<1> HIDE DEF sorted, z
<1>4. \A k \in 1 .. z : at(k) \in 1 .. z /\ V!Place(aliases, at(k)) = k
  <2>1. \A k \in 1 .. z : \E i \in DOMAIN aliases : V!Place(aliases, i) = k
    BY <1>1, <1>2
  <2>2. \A k \in 1 .. z : at(k) \in DOMAIN aliases /\ V!Place(aliases, at(k)) = k
    BY <2>1, Zenon
  <2> QED BY <1>1, <2>2
<1>5. DOMAIN sorted = 1 .. z /\ \A k \in 1 .. z : sorted[k] = aliases[at(k)]
  BY <1>1, <1>3
<1> HIDE DEF at
<1>6. \A i \in 1 .. z : at(V!Place(aliases, i)) = i
  BY <1>2, <1>4
<1>7. \A i : i \in hits <=> i \in 1 .. z /\ V!IsPrefix(aliases[i].alias, name)
  BY Zenon DEF Begins, z
<1>8. \A k \in 1 .. z : k \in places <=> at(k) \in hits
  BY <1>4, <1>5, <1>7
<1>9. V!FirstAlias(sorted, name) = IF places = {} THEN V!Nowhere ELSE Behind(sorted[V!Min(places)], name)
  BY Zenon DEF V!FirstAlias, Behind, places
<1>10. places \subseteq 1 .. z
  BY <1>5
<1> HIDE DEF hits, places
<1>11. ASSUME hits = {} PROVE V!FirstAlias(sorted, name) = V!Nowhere
  <2>1. places = {}
    BY <1>8, <1>10, <1>11
  <2> QED BY <1>9, <2>1
<1>12. ASSUME hits # {}
       PROVE  \E o \in hits : /\ V!FirstAlias(sorted, name) = Behind(aliases[o], name)
                              /\ \A i \in hits : Len(aliases[i].alias) <= Len(aliases[o].alias)
  <2>1. \A i \in hits : i \in 1 .. z /\ V!Place(aliases, i) \in places
    BY <1>2, <1>6, <1>7, <1>8
  <2>2. places # {} /\ places \subseteq Nat
    BY <1>10, <1>12, <2>1
  <2> DEFINE m == V!Min(places)
             o == at(m)
  <2>3. m \in places /\ \A k \in places : m <= k
    BY <2>2, LeastPlace
  <2> HIDE DEF m
  <2>4. m \in 1 .. z /\ o \in 1 .. z /\ V!Place(aliases, o) = m /\ sorted[m] = aliases[o] /\ o \in hits
    BY <1>4, <1>5, <1>8, <1>10, <2>3
  <2> HIDE DEF o
  <2>5. V!FirstAlias(sorted, name) = Behind(aliases[o], name)
    BY <1>9, <2>2, <2>4 DEF m
  <2>6. ASSUME NEW i \in hits PROVE Len(aliases[i].alias) <= Len(aliases[o].alias)
    <3>1. i \in 1 .. z /\ m <= V!Place(aliases, i) /\ V!Place(aliases, i) \in 1 .. z
      BY <1>2, <2>1, <2>3
    <3>2. ~ V!Longer(aliases, i, o)
      <4> SUFFICES ASSUME V!Longer(aliases, i, o) PROVE FALSE
        OBVIOUS
      <4>1. V!Place(aliases, i) < m
        BY <1>2, <2>4, <3>1
      <4> QED BY <2>4, <3>1, <4>1
    <3> QED BY <1>1, <2>4, <3>1, <3>2 DEF V!Longer
  <2> QED BY <2>4, <2>5, <2>6
<1> QED BY <1>11, <1>12, Zenon DEF hits, sorted

\* A trimmed name is the end of the name.
LEMMA DropFacts ==
  ASSUME NEW X, NEW c, NEW name \in Seq(X)
  PROVE  V!Drop(c, name) \in Seq(X) /\ Len(V!Drop(c, name)) \in Nat
<1> DEFINE body == {i \in DOMAIN name : name[i] # c}
<1>1. body \subseteq 1 .. Len(name) /\ Len(name) \in Nat /\ body \subseteq Nat
  OBVIOUS
<1>2. V!Drop(c, name) = IF body = {} THEN <<>> ELSE SubSeq(name, V!Min(body), Len(name))
  BY Zenon DEF V!Drop
<1> HIDE DEF body
<1>3. body # {} => V!Min(body) \in 1 .. Len(name)
  BY <1>1, LeastPlace
<1>4. V!Drop(c, name) \in Seq(X)
  <2>1. CASE body = {}
    BY <1>2, <2>1
  <2>2. CASE body # {}
    <3>1. SubSeq(name, V!Min(body), Len(name)) \in Seq(X)
      BY <1>3, <2>2
    <3> QED BY <1>2, <2>2, <3>1
  <2> QED BY <2>1, <2>2
<1> QED BY <1>4

LEMMA TrimFacts ==
  ASSUME NEW X, NEW name \in Seq(X)
  PROVE  V!Trim(name) \in Seq(X) /\ Len(V!Trim(name)) \in Nat
<1> DEFINE dropped == V!Drop("/", name)
<1>1. dropped \in Seq(X)
  BY DropFacts
<1>2. V!Trim(name) = V!Drop(V!Backslash, dropped)
  BY Zenon DEF V!Trim
<1> HIDE DEF dropped
<1> QED BY <1>1, <1>2, DropFacts

\* Virtual roots as a configuration gives them, aliases of the characters X
Configured(X, roots) ==
  /\ Len(roots) \in Nat /\ DOMAIN roots = 1 .. Len(roots)
  /\ \A i \in 1 .. Len(roots) : roots[i].alias \in Seq(X)

LEMMA TrimmedRoots ==
  ASSUME NEW X, NEW roots, Configured(X, roots)
  PROVE  LET aliases == V!Trimmed(roots)
         IN  /\ Aliased(aliases) /\ Len(aliases) = Len(roots)
             /\ \A i \in 1 .. Len(roots) : /\ aliases[i].alias = V!Trim(roots[i].alias)
                                           /\ aliases[i].alias \in Seq(X)
                                           /\ aliases[i].dir = roots[i].dir
<1> DEFINE z == Len(roots)
           all == V!Trimmed(roots)
           of(i) == [alias |-> V!Trim(roots[i].alias), dir |-> roots[i].dir]
<1>1. z \in Nat /\ DOMAIN roots = 1 .. z /\ \A i \in 1 .. z : roots[i].alias \in Seq(X)
  BY DEF Configured
<1>2. \A i \in 1 .. z : V!Trim(roots[i].alias) \in Seq(X) /\ Len(V!Trim(roots[i].alias)) \in Nat
  <2> SUFFICES ASSUME NEW i \in 1 .. z
               PROVE  V!Trim(roots[i].alias) \in Seq(X) /\ Len(V!Trim(roots[i].alias)) \in Nat
    OBVIOUS
  <2>1. roots[i].alias \in Seq(X)
    BY <1>1
  <2> QED BY <2>1, TrimFacts
<1>3. all = [i \in DOMAIN roots |-> of(i)]
  BY Zenon DEF V!Trimmed
<1> HIDE DEF all, z
<1>4. DOMAIN all = 1 .. z /\ \A i \in 1 .. z : all[i] = of(i)
  BY <1>1, <1>3
<1>5. Len(all) = z
  <2>1. all = [i \in 1 .. z |-> of(i)]
    BY <1>1, <1>3, Zenon
  <2> HIDE DEF of
  <2>2. Len([i \in 1 .. z |-> of(i)]) = z
    BY <1>1
  <2> QED BY <2>1, <2>2, Zenon
<1>6. \A i \in 1 .. z : all[i].alias = V!Trim(roots[i].alias) /\ all[i].dir = roots[i].dir
  BY <1>4
<1>7. Aliased(all)
  BY <1>1, <1>2, <1>4, <1>5, <1>6 DEF Aliased
<1> QED BY <1>1, <1>2, <1>5, <1>6, <1>7 DEF all, z

\* Two beginnings of a name that are equally long are the same.
LEMMA OneBeginning ==
  ASSUME NEW X, NEW a \in Seq(X), NEW b \in Seq(X), NEW name,
         V!IsPrefix(a, name), V!IsPrefix(b, name), Len(a) = Len(b)
  PROVE  a = b
<1>1. SubSeq(a, 1, Len(a)) = a /\ SubSeq(b, 1, Len(b)) = b
  OBVIOUS
<1>2. SubSeq(a, 1, Len(a)) = SubSeq(name, 1, Len(a)) /\ SubSeq(b, 1, Len(b)) = SubSeq(name, 1, Len(b))
  BY Zenon DEF V!IsPrefix
<1> QED BY <1>1, <1>2, Zenon

\* The root that is found is the same for every order of the roots, whatever the
\* aliases and the name (VirtualRoots::new and resolve in core/fs/mod.rs).
THEOREM AnyOrder ==
  ASSUME NEW X, NEW roots, Configured(X, roots), NEW name, NEW mainRoot
  PROVE  V!OrderIrrelevant(roots, mainRoot, name)
<1> SUFFICES ASSUME \A i, j \in DOMAIN roots : V!Trim(roots[i].alias) = V!Trim(roots[j].alias) => i = j,
                    NEW p \in V!Orders(roots)
             PROVE  V!Virtual([i \in DOMAIN roots |-> roots[p[i]]], name) = V!Virtual(roots, name)
  BY Zenon DEF V!OrderIrrelevant, V!Resolved
<1> DEFINE z == Len(roots)
           back == [i \in DOMAIN roots |-> roots[p[i]]]
           a == V!Trimmed(roots)
           b == V!Trimmed(back)
           t == V!Trim(name)
           ha == Begins(a, t)
           hb == Begins(b, t)
<1>1. z \in Nat /\ DOMAIN roots = 1 .. z /\ \A i \in 1 .. z : roots[i].alias \in Seq(X)
  BY DEF Configured
<1>2. back = [i \in 1 .. z |-> roots[p[i]]]
  BY <1>1
<1>20. /\ \A i \in 1 .. z : p[i] \in 1 .. z
       /\ \A i \in 1 .. z : \E j \in 1 .. z : p[j] = i
  BY <1>1 DEF V!Orders
<1> HIDE DEF back, z
<1>3. /\ Configured(X, back) /\ Len(back) = z
      /\ \A i \in 1 .. z : p[i] \in 1 .. z /\ back[i] = roots[p[i]]
  <2>2. \A i \in 1 .. z : back[i] = roots[p[i]]
    BY <1>2
  <2>3. \A i \in 1 .. z : back[i].alias \in Seq(X)
    BY <1>1, <1>20, <2>2
  <2>4. DOMAIN back = 1 .. z /\ Len(back) = z
    BY <1>1, <1>2
  <2> QED BY <1>1, <1>20, <2>2, <2>3, <2>4 DEF Configured
<1>4. /\ Aliased(a) /\ Len(a) = z
      /\ \A i \in 1 .. z : /\ a[i].alias = V!Trim(roots[i].alias) /\ a[i].alias \in Seq(X)
                           /\ a[i].dir = roots[i].dir
  <2>1. /\ Aliased(a) /\ Len(a) = Len(roots)
        /\ \A i \in 1 .. Len(roots) : /\ a[i].alias = V!Trim(roots[i].alias)
                                      /\ a[i].alias \in Seq(X)
                                      /\ a[i].dir = roots[i].dir
    BY TrimmedRoots
  <2> QED BY <2>1 DEF z
<1>5. /\ Aliased(b) /\ Len(b) = z
      /\ \A i \in 1 .. z : /\ b[i].alias = V!Trim(back[i].alias) /\ b[i].dir = back[i].dir
  <2>1. /\ Aliased(b) /\ Len(b) = Len(back)
        /\ \A i \in 1 .. Len(back) : /\ b[i].alias = V!Trim(back[i].alias)
                                     /\ b[i].alias \in Seq(X)
                                     /\ b[i].dir = back[i].dir
    BY <1>3, TrimmedRoots
  <2> QED BY <1>3, <2>1
<1> HIDE DEF a, b, t, ha, hb
<1>6. \A i \in 1 .. z : b[i].alias = a[p[i]].alias /\ b[i].dir = a[p[i]].dir
  BY <1>3, <1>4, <1>5
<1>7. \A i : /\ i \in ha <=> i \in 1 .. z /\ V!IsPrefix(a[i].alias, t)
             /\ i \in hb <=> i \in 1 .. z /\ V!IsPrefix(b[i].alias, t)
  BY <1>4, <1>5, Zenon DEF Begins, ha, hb
<1>8. \A i \in hb : p[i] \in ha
  BY <1>3, <1>6, <1>7
<1>9. \A i \in ha : \E j \in hb : p[j] = i
  <2> SUFFICES ASSUME NEW i \in ha PROVE \E j \in hb : p[j] = i
    OBVIOUS
  <2>1. i \in 1 .. z /\ V!IsPrefix(a[i].alias, t)
    BY <1>7
  <2>2. PICK j \in 1 .. z : p[j] = i
    BY <1>20, <2>1
  <2>3. b[j].alias = a[i].alias
    BY <1>6, <2>2
  <2> QED BY <1>7, <2>1, <2>2, <2>3
<1> DEFINE fa == V!FirstAlias(V!Sorted(a), t)
           fb == V!FirstAlias(V!Sorted(b), t)
<1>10. /\ ha = {} => fa = V!Nowhere
       /\ ha # {} => \E o \in ha : /\ fa = Behind(a[o], t)
                                   /\ \A i \in ha : Len(a[i].alias) <= Len(a[o].alias)
  BY <1>4, LongestFound DEF ha
<1>11. /\ hb = {} => fb = V!Nowhere
       /\ hb # {} => \E o \in hb : /\ fb = Behind(b[o], t)
                                   /\ \A i \in hb : Len(b[i].alias) <= Len(b[o].alias)
  BY <1>5, LongestFound DEF hb
<1> HIDE DEF fa, fb
<1>12. fa = fb
  <2>1. CASE ha = {}
    <3>1. hb = {}
      BY <1>8, <2>1
    <3> QED BY <1>10, <1>11, <2>1, <3>1
  <2>2. CASE ha # {}
    <3>1. hb # {}
      BY <1>9, <2>2
    <3>2. PICK o \in ha : fa = Behind(a[o], t) /\ \A i \in ha : Len(a[i].alias) <= Len(a[o].alias)
      BY <1>10, <2>2
    <3>3. PICK q \in hb : fb = Behind(b[q], t) /\ \A i \in hb : Len(b[i].alias) <= Len(b[q].alias)
      BY <1>11, <3>1
    <3>4. p[q] \in ha /\ \E j \in hb : p[j] = o
      BY <1>8, <1>9
    <3>5. PICK r \in hb : p[r] = o
      BY <3>4
    <3>6. PICK s \in ha : s = p[q]
      BY <3>4
    <3>7. q \in 1 .. z /\ r \in 1 .. z
      BY <1>7
    <3>8. /\ o \in 1 .. z /\ s \in 1 .. z
          /\ V!IsPrefix(a[o].alias, t) /\ V!IsPrefix(a[s].alias, t)
      BY <1>7
    <3>9. b[q].alias = a[s].alias /\ b[q].dir = a[s].dir /\ b[r].alias = a[o].alias
      BY <1>6, <3>5, <3>6, <3>7
    <3>10. Len(a[o].alias) = Len(a[s].alias)
      <4>1. Len(a[s].alias) <= Len(a[o].alias)
        BY <3>2
      <4>2. Len(a[o].alias) <= Len(a[s].alias)
        BY <3>3, <3>9
      <4>3. Len(a[o].alias) \in Nat /\ Len(a[s].alias) \in Nat
        BY <1>4, <3>8 DEF Aliased
      <4> QED BY <4>1, <4>2, <4>3
    <3>11. a[o].alias = a[s].alias
      <4>1. a[o].alias \in Seq(X) /\ a[s].alias \in Seq(X)
        BY <1>4, <3>8
      <4> QED BY <3>8, <3>10, <4>1, OneBeginning
    <3>12. o = s
      <4>1. V!Trim(roots[o].alias) = V!Trim(roots[s].alias)
        BY <1>4, <3>8, <3>11
      <4> QED BY <1>1, <3>8, <4>1
    <3>13. Behind(b[q], t) = Behind(a[o], t)
      BY <3>9, <3>12, Zenon DEF Behind
    <3> QED BY <3>2, <3>3, <3>13
  <2> QED BY <2>1, <2>2
<1> QED BY <1>12, Zenon DEF V!Virtual, fa, fb, a, b, t, back

\* What a name asks of a root is not empty.
LEMMA ResolvedBelow ==
  ASSUME NEW X, NEW roots, Configured(X, roots), NEW mainRoot, NEW name \in Seq(X),
         V!Resolved(roots, mainRoot, name) # V!Nowhere
  PROVE  \E r, rest : /\ V!Resolved(roots, mainRoot, name) = V!At(r, rest)
                      /\ rest \in Seq(X) /\ rest # <<>>
<1> DEFINE aliases == V!Trimmed(roots)
           t == V!Trim(name)
           virtual == V!Virtual(roots, name)
<1>1. t \in Seq(X) /\ Len(t) \in Nat
  BY TrimFacts
<1>2. /\ Aliased(aliases) /\ Len(aliases) = Len(roots)
      /\ \A i \in 1 .. Len(roots) : /\ aliases[i].alias = V!Trim(roots[i].alias)
                                    /\ aliases[i].alias \in Seq(X)
                                    /\ aliases[i].dir = roots[i].dir
  BY TrimmedRoots
<1>3. virtual = V!FirstAlias(V!Sorted(aliases), t)
  BY Zenon DEF V!Virtual
<1>4. V!Resolved(roots, mainRoot, name) =
        IF virtual # V!Nowhere THEN virtual
        ELSE IF t # <<>> THEN V!At(mainRoot, t) ELSE V!Nowhere
  BY Zenon DEF V!Resolved
<1> HIDE DEF aliases, t, virtual
<1>5. CASE virtual = V!Nowhere
  <2>1. t # <<>> /\ V!Resolved(roots, mainRoot, name) = V!At(mainRoot, t)
    BY <1>4, <1>5, Zenon
  <2> QED BY <1>1, <2>1, Zenon
<1>6. CASE virtual # V!Nowhere
  <2> DEFINE hits == Begins(aliases, t)
  <2>1. /\ hits = {} => V!FirstAlias(V!Sorted(aliases), t) = V!Nowhere
        /\ hits # {} => \E o \in hits : /\ V!FirstAlias(V!Sorted(aliases), t) = Behind(aliases[o], t)
                                        /\ \A i \in hits : Len(aliases[i].alias) <= Len(aliases[o].alias)
    BY <1>2, LongestFound
  <2>2. PICK o \in hits : virtual = Behind(aliases[o], t)
    BY <1>3, <1>6, <2>1, Zenon
  <2>3. aliases[o].alias \in Seq(X)
    BY <1>2 DEF Begins
  <2> DEFINE rest == V!Trim(SubSeq(t, Len(aliases[o].alias) + 1, Len(t)))
  <2>4. SubSeq(t, Len(aliases[o].alias) + 1, Len(t)) \in Seq(X)
    BY <1>1, <2>3
  <2>5. rest \in Seq(X) /\ Len(rest) \in Nat
    BY <2>4, TrimFacts
  <2>6. Behind(aliases[o], t) = IF rest = <<>> THEN V!Nowhere ELSE V!At(aliases[o].dir, rest)
    BY Zenon DEF Behind
  <2>7. V!Resolved(roots, mainRoot, name) = V!At(aliases[o].dir, rest) /\ rest # <<>>
    BY <1>4, <1>6, <2>2, <2>6, Zenon
  <2> QED BY <2>5, <2>7, Zenon
<1> QED BY <1>5, <1>6

\* The path of a file ends with what was asked, below the root that was asked or
\* the one of the file system.
LEMMA JoinedBelow ==
  ASSUME NEW X, NEW r, NEW rest \in Seq(X), rest # <<>>
  PROVE  \E q, end : V!Join(V!At(r, rest)) = V!At(q, end) /\ end \in Seq(X)
<1>1. V!At(r, rest).name = rest
  BY DEF V!At
<1>2. V!Join(V!At(r, rest)) = IF rest[1] = "/" THEN V!At(V!System, V!Drop("/", rest)) ELSE V!At(r, rest)
  BY <1>1, Zenon DEF V!Join
<1>3. V!Drop("/", rest) \in Seq(X)
  BY DropFacts
<1> QED BY <1>2, <1>3, Zenon

\* The way to a file is the way to its directory, and the file.
LEMMA WayToFile ==
  ASSUME NEW X, NEW r, NEW rest \in Seq(X), rest # <<>>, V!Last(rest) # "/"
  PROVE  /\ V!Ancestors(V!At(r, rest)) =
              V!Ancestors(V!Parent(V!At(r, rest))) \cup {V!At(r, rest)}
         /\ V!Parent(V!At(r, rest)).root = r
<1> DEFINE z == Len(rest)
           slashes == {i \in DOMAIN rest : rest[i] = "/"}
           up == IF slashes = {} THEN <<>> ELSE SubSeq(rest, 1, V!Max(slashes) - 1)
           ways(s) == {j \in DOMAIN s : j = Len(s) \/ s[j + 1] = "/"}
           m == V!Max(slashes)
<1>1. V!At(r, rest).root = r /\ V!At(r, rest).name = rest
  BY DEF V!At
<1>2. V!Parent(V!At(r, rest)) = V!At(r, up)
  BY <1>1, Zenon DEF V!Parent
<1>3. V!At(r, up).root = r /\ V!At(r, up).name = up
  BY DEF V!At
<1>4. z \in Nat /\ DOMAIN rest = 1 .. z /\ rest[z] # "/" /\ z > 0
  <2>1. rest[z] # "/"
    BY Zenon DEF V!Last
  <2> QED BY <2>1
<1>5. /\ V!Ancestors(V!At(r, rest)) = {V!At(r, SubSeq(rest, 1, i)) : i \in ways(rest)}
      /\ V!Ancestors(V!At(r, up)) = {V!At(r, SubSeq(up, 1, i)) : i \in ways(up)}
  BY <1>1, <1>3, Zenon DEF V!Ancestors
<1>6. slashes \subseteq 1 .. z
  BY <1>4
<1>7. slashes # {} => /\ m \in 1 .. z - 1 /\ rest[m] = "/"
                      /\ \A i \in 1 .. z : rest[i] = "/" => i <= m
  <2> SUFFICES ASSUME slashes # {}
               PROVE  /\ m \in 1 .. z - 1 /\ rest[m] = "/"
                      /\ \A i \in 1 .. z : rest[i] = "/" => i <= m
    OBVIOUS
  <2>1. \A i : i \in slashes <=> i \in 1 .. z /\ rest[i] = "/"
    BY <1>4
  <2>2. slashes \subseteq Nat /\ \A y \in slashes : y <= z
    BY <1>4, <1>6
  <2> HIDE DEF slashes, z
  <2>3. V!Max(slashes) \in slashes /\ \A y \in slashes : y <= V!Max(slashes)
    BY <1>4, <2>2, GreatestPlace
  <2>4. m # z
    BY <1>4, <2>1, <2>3
  <2> QED BY <1>4, <2>1, <2>3, <2>4
<1> DEFINE q == IF slashes = {} THEN 0 ELSE m - 1
<1>8. /\ q \in 0 .. z - 1
      /\ up = SubSeq(rest, 1, q)
      /\ q = 0 \/ rest[q + 1] = "/"
      /\ \A i \in 1 .. z : rest[i] = "/" => i <= q + 1
  <2>1. CASE slashes = {}
    <3>1. up = <<>> /\ q = 0
      BY <2>1
    <3>2. SubSeq(rest, 1, 0) = <<>>
      OBVIOUS
    <3> QED BY <1>4, <2>1, <3>1, <3>2
  <2>2. CASE slashes # {}
    <3>1. up = SubSeq(rest, 1, q) /\ q = m - 1
      BY <2>2, Zenon
    <3> HIDE DEF slashes, up, m, q
    <3> QED BY <1>4, <1>7, <2>2, <3>1
  <2> QED BY <2>1, <2>2
<1> HIDE DEF slashes, up, m, q
<1>9. up \in Seq(X) /\ Len(up) = q /\ \A i \in 1 .. q : up[i] = rest[i]
  BY <1>4, <1>8
<1>10. ways(up) = {j \in 1 .. q : j = q \/ rest[j + 1] = "/"}
  BY <1>8, <1>9
<1>11. ways(rest) = {j \in 1 .. z : j = z \/ rest[j + 1] = "/"}
  BY <1>4
<1> HIDE DEF ways, z
<1>12. ways(rest) = ways(up) \cup {z}
  BY <1>4, <1>8, <1>10, <1>11
<1>13. \A i \in ways(up) : SubSeq(up, 1, i) = SubSeq(rest, 1, i)
  <2> SUFFICES ASSUME NEW i \in ways(up) PROVE SubSeq(up, 1, i) = SubSeq(rest, 1, i)
    OBVIOUS
  <2>1. i \in 1 .. q
    BY <1>10
  <2>2. SubSeq(up, 1, i) = [k \in 1 .. i |-> up[k]] /\ SubSeq(rest, 1, i) = [k \in 1 .. i |-> rest[k]]
    BY <1>4, <1>8, <1>9, <2>1 DEF z
  <2>3. \A k \in 1 .. i : up[k] = rest[k]
    BY <1>8, <1>9, <2>1
  <2>4. [k \in 1 .. i |-> up[k]] = [k \in 1 .. i |-> rest[k]]
    BY <2>3
  <2> QED BY <2>2, <2>4
<1>14. SubSeq(rest, 1, z) = rest
  BY <1>4 DEF z
<1>15. {V!At(r, SubSeq(rest, 1, i)) : i \in ways(rest)} =
          {V!At(r, SubSeq(rest, 1, i)) : i \in ways(up)} \cup {V!At(r, SubSeq(rest, 1, z))}
  BY <1>12
<1>16. {V!At(r, SubSeq(rest, 1, i)) : i \in ways(up)} = {V!At(r, SubSeq(up, 1, i)) : i \in ways(up)}
  BY <1>13
<1>17. V!Ancestors(V!At(r, rest)) = V!Ancestors(V!At(r, up)) \cup {V!At(r, rest)}
  BY <1>5, <1>14, <1>15, <1>16, Zenon
<1> QED BY <1>2, <1>3, <1>17, Zenon

\* Canonical takes a file below the root that its directory is below: the way to
\* the one has the links of the way to the other.
LEMMA SameRoot ==
  ASSUME NEW disk, NEW target, NEW parent, parent.root = target.root,
         V!Links(disk, target) = V!Links(disk, parent)
  PROVE  V!Canonical(disk, target).root = V!Canonical(disk, parent).root
<1>1. CASE V!Links(disk, target) = {}
  BY <1>1, Zenon DEF V!Canonical
<1>2. CASE V!Links(disk, target) # {}
  <2> DEFINE link == CHOOSE l \in V!Links(disk, target) : TRUE
             over == CHOOSE l \in V!Links(disk, parent) : TRUE
  <2>1. link = over
    BY Zenon
  <2> DEFINE end(loc) == V!At(disk.links[link].root,
                              disk.links[link].name \o SubSeq(loc.name, Len(link.name) + 1, Len(loc.name)))
  <2>2. V!Canonical(disk, target) = end(target)
    BY <1>2, Zenon DEF V!Canonical
  <2>3. V!Canonical(disk, parent) = end(parent)
    BY <1>2, Zenon DEF V!Canonical
  <2> HIDE DEF link
  <2>4. end(target).root = disk.links[link].root /\ end(parent).root = disk.links[link].root
    BY DEF V!At
  <2> QED BY <2>2, <2>3, <2>4, Zenon
<1> QED BY <1>1, <1>2

\* What is stored under a name is read under it and lies below the root that was
\* asked, whatever the roots, the name and what is on the disk, unless create_dirs
\* made a directory nobody had checked (resolve_against_root in core/fs/mod.rs,
\* spawn_write_session in core/session/mod.rs).
THEOREM StoredIsFound ==
  ASSUME NEW X, NEW roots, Configured(X, roots), NEW mainRoot, NEW name \in Seq(X),
         NEW disk, NEW policy
  PROVE  V!ReadsBack(disk, roots, mainRoot, policy, name)
<1> DEFINE target == V!WriteTarget(disk, roots, mainRoot, policy, name)
           asked == V!Resolved(roots, mainRoot, name)
           path == V!Join(asked)
           up == V!Parent(target)
           node == V!Canonical(disk, target)
           dirs == {V!Canonical(disk, dir) : dir \in V!Ancestors(up)}
           kinds == [l \in DOMAIN disk.kind \cup {node} \cup dirs |->
                       CASE l = node                             -> "file"
                         [] l # node /\ l \in DOMAIN disk.kind   -> disk.kind[l]
                         [] l # node /\ l \notin DOMAIN disk.kind -> "dir"]
           stored == V!Stored(disk, target)
<1> SUFFICES ASSUME V!Storable(disk, target),
                    ~(policy.createDirs /\ V!Unchecked(disk, roots, mainRoot, name, target))
             PROVE  /\ V!ReadTarget(stored, roots, mainRoot, policy, name) = node
                    /\ node.root = asked.root
  BY Zenon DEF V!ReadsBack
<1>1. /\ target # V!Nowhere /\ V!Last(target.name) # "/"
      /\ V!KindOf(disk, target) # "dir" /\ target \notin DOMAIN disk.links
  BY Zenon DEF V!Storable
<1>2. /\ V!ValidName(name) /\ target = V!WriteAgainst(disk, policy, asked)
      /\ V!Exists(disk, up) \/ policy.createDirs
  BY <1>1, Zenon DEF V!WriteTarget
<1>3. /\ asked # V!Nowhere /\ target = path
      /\ V!Exists(disk, V!Parent(path)) =>
           /\ policy.follow \/ V!Links(disk, V!Parent(path)) = {}
           /\ V!Canonical(disk, V!Parent(path)).root = asked.root
  BY <1>1, <1>2, Zenon DEF V!WriteAgainst
<1>4. V!Exists(disk, up) => /\ policy.follow \/ V!Links(disk, up) = {}
                            /\ V!Canonical(disk, up).root = asked.root
  BY <1>3, Zenon
<1>5. ~V!Exists(disk, up) => target.root = asked.root /\ V!Links(disk, up) = {}
  BY <1>2, Zenon DEF V!Unchecked
<1> HIDE DEF target, asked, path
<1>6. PICK r, rest : target = V!At(r, rest) /\ rest \in Seq(X)
  <2>1. PICK q, end : asked = V!At(q, end) /\ end \in Seq(X) /\ end # <<>>
    BY <1>3, ResolvedBelow DEF asked
  <2>2. \E p, e : V!Join(V!At(q, end)) = V!At(p, e) /\ e \in Seq(X)
    BY <2>1, JoinedBelow
  <2>3. target = V!Join(V!At(q, end))
    BY <1>3, <2>1, Zenon DEF path
  <2> QED BY <2>2, <2>3, Zenon
<1>7. target.root = r /\ target.name = rest
  <2>1. V!At(r, rest).root = r /\ V!At(r, rest).name = rest
    BY DEF V!At
  <2> QED BY <1>6, <2>1, Zenon
<1>8. V!KindOf(disk, target) = IF node.name = <<>> THEN "dir"
                               ELSE IF node \in DOMAIN disk.kind THEN disk.kind[node] ELSE "absent"
  BY Zenon DEF V!KindOf
<1>9. node.name # <<>>
  BY <1>1, <1>8, Zenon
<1>10. rest # <<>>
  <2> SUFFICES ASSUME rest = <<>> PROVE FALSE
    OBVIOUS
  <2>1. DOMAIN target.name = {}
    BY <1>7
  <2>2. V!Ancestors(target) = {}
    BY <2>1 DEF V!Ancestors
  <2>3. V!Links(disk, target) = {}
    BY <2>2, Zenon DEF V!Links
  <2>4. node = target
    BY <2>3, Zenon DEF V!Canonical
  <2> QED BY <1>7, <1>9, <2>4
<1>11. V!Ancestors(target) = V!Ancestors(up) \cup {target} /\ up.root = r
  BY <1>1, <1>6, <1>7, <1>10, WayToFile
<1>12. V!Links(disk, target) = V!Links(disk, up)
  BY <1>1, <1>11 DEF V!Links
<1>13. node.root = V!Canonical(disk, up).root
  BY <1>7, <1>11, <1>12, SameRoot
<1>14. node.root = asked.root
  <2>1. CASE V!Exists(disk, up)
    BY <1>4, <1>13, <2>1
  <2>2. CASE ~V!Exists(disk, up)
    <3>1. node = target
      BY <1>5, <1>12, <2>2, Zenon DEF V!Canonical
    <3> QED BY <1>5, <2>2, <3>1
  <2> QED BY <2>1, <2>2
<1>15. policy.follow \/ V!Links(disk, target) = {}
  BY <1>4, <1>5, <1>12, Zenon
<1>16. stored = [kind |-> kinds, links |-> disk.links]
  BY Zenon DEF V!Stored
<1>17. stored.kind = kinds /\ stored.links = disk.links
  <2> HIDE DEF stored, kinds
  <2> QED BY <1>16
<1> HIDE DEF stored
<1>18. V!Links(stored, target) = V!Links(disk, target)
  BY <1>17, Zenon DEF V!Links
<1>19. V!Canonical(stored, target) = node
  BY <1>17, <1>18, Zenon DEF V!Canonical
<1>20. node \in DOMAIN kinds /\ kinds[node] = "file"
  <2> HIDE DEF node, dirs
  <2>1. node \in DOMAIN kinds
    OBVIOUS
  <2> QED BY <2>1
<1> HIDE DEF kinds
<1>21. V!KindOf(stored, target) = "file"
  BY <1>9, <1>17, <1>19, <1>20, Zenon DEF V!KindOf
<1>22. V!ReadAgainst(stored, policy, asked) = node
  <2>1. V!Join(asked) = target
    BY <1>3, Zenon DEF path
  <2> HIDE DEF node
  <2> QED BY <1>3, <1>14, <1>15, <1>18, <1>19, <1>21, <2>1, Zenon DEF V!ReadAgainst
<1> QED BY <1>2, <1>14, <1>22, Zenon DEF V!ReadTarget, asked

-----------------------------------------------------------------------------
\* The units of the packets
Words == {"f", "..", "OCTET", "BLKSIZE", "notUtf8"}
Units == 0 .. 9 \cup Words \cup {P!NUL}

\* The characters of the names
Chars == {"a", "b", "/", "..", V!Backslash}

\* What is asked of the functions: options of a configuration that has the
\* protocol's defaults, waits that max_timeout does not cut below the first,
\* lists of rules, texts, packets and names.
InputInv ==
  /\ input.kind = "negotiation" =>
       /\ ShippedDefaults(input.config) /\ input.options \in Seq(SomeOptions)
       /\ input.size \in Int
  /\ input.kind = "backoff" =>
       /\ input.base \in Nat /\ input.max \in Nat /\ input.base <= input.max
       /\ input.exponential \in BOOLEAN
  /\ input.kind = "rules" => input.config.rules \in Seq(Rules)
  /\ input.kind = "text" => input.data \in Seq(T!Bytes) /\ input.size \in 1 .. 3
  /\ input.kind = "packet" => input.raw \in Seq(Units)
  /\ input.kind = "name" => Configured(Chars, input.roots) /\ input.name \in Seq(Chars)

LEMMA ConfigsAreShipped == \A config \in Configs : ShippedDefaults(config)
BY DEF Configs, ShippedDefaults

LEMMA InputStarts == AlgorithmsInit => InputInv
<1> SUFFICES ASSUME AlgorithmsInit PROVE InputInv
  OBVIOUS
<1>1. input = [kind |-> "none"]
  BY DEF AlgorithmsInit, NoInput
<1>2. input.kind = "none"
  BY <1>1
<1> QED BY <1>2 DEF InputInv

\* The choice of a part asks nothing of the functions.
LEMMA OtherInput ==
  ASSUME NEW part \in {"walk", "log", "transfers", "timer", "pool", "rates"},
         input'.kind = part
  PROVE  InputInv'
BY DEF InputInv

LEMMA InputSteps == InputInv /\ [AlgorithmsNext]_allVars => InputInv'
<1> SUFFICES ASSUME InputInv, [AlgorithmsNext]_allVars PROVE InputInv'
  OBVIOUS
<1>1. ASSUME TakeNegotiation PROVE InputInv'
  <2>1. PICK config \in Configs, options \in BoundedSeq(SomeOptions, 2), fileSize \in {None, 0, 700} :
          input' = [kind |-> "negotiation", config |-> config, options |-> options, size |-> fileSize]
    BY <1>1, Zenon DEF TakeNegotiation
  <2>2. options \in Seq(SomeOptions)
    <3>1. \E m \in 0 .. 2 : options \in [1 .. m -> SomeOptions]
      BY DEF BoundedSeq, SeqOf
    <3> QED BY <3>1
  <2>3. fileSize \in Int
    BY DEF None
  <2>4. ShippedDefaults(config)
    BY ConfigsAreShipped
  <2>5. /\ input'.kind = "negotiation" /\ input'.config = config /\ input'.options = options
        /\ input'.size = fileSize
    BY <2>1
  <2> QED BY <2>2, <2>3, <2>4, <2>5 DEF InputInv
<1>2. ASSUME TakeBackoff PROVE InputInv'
  <2>1. PICK base \in 1 .. 4, exponential \in BOOLEAN, extra \in {0, 3, 250} :
          input' = [kind |-> "backoff", base |-> base, exponential |-> exponential,
                    max |-> base + extra]
    BY <1>2, Zenon DEF TakeBackoff
  <2>2. /\ input'.kind = "backoff" /\ input'.base = base /\ input'.max = base + extra
        /\ input'.exponential = exponential
    BY <2>1
  <2>3. base \in Nat /\ base + extra \in Nat /\ base <= base + extra
    OBVIOUS
  <2> QED BY <2>2, <2>3 DEF InputInv
<1>3. ASSUME TakeName PROVE InputInv'
  <2>1. PICK roots \in RootLists, name \in Names :
          \E d, p : input' = [kind |-> "name", roots |-> roots, name |-> name, disk |-> d,
                             policy |-> p]
    BY <1>3, Zenon DEF TakeName
  <2>2. name \in Seq(Chars)
    <3>0. {"a", "b", "/", V!Backslash} \subseteq Chars /\ ".." \in Chars
      BY DEF Chars
    <3>1. CASE name \in BoundedSeq({"a", "b", "/", V!Backslash}, 4)
      <4>1. PICK m \in 0 .. 4 : name \in [1 .. m -> {"a", "b", "/", V!Backslash}]
        BY <3>1, Zenon DEF BoundedSeq, SeqOf
      <4>2. name \in [1 .. m -> Chars]
        BY <3>0, <4>1
      <4> QED BY <4>2
    <3>2. ASSUME NEW first \in {"a", "b", V!Backslash}, NEW last \in {"a", "b"}
          PROVE  <<first, "/", "b", "/", last>> \in Seq(Chars)
      <4>1. first \in Chars /\ last \in Chars /\ "/" \in Chars /\ "b" \in Chars
        BY <3>0
      <4> QED BY <4>1
    <3>3. <<"a", "/", "..">> \in Seq(Chars)
      <4>1. "a" \in Chars /\ "/" \in Chars /\ ".." \in Chars
        BY <3>0
      <4> QED BY <4>1
    <3> DEFINE Short == {m \in BoundedSeq({"a", "b", "/", V!Backslash}, 4) :
                           \A i \in 1 .. Len(m) - 1 : ~(m[i] = "/" /\ m[i + 1] = "/")}
               Deep == {<<first, "/", "b", "/", last>> :
                          first \in {"a", "b", V!Backslash}, last \in {"a", "b"}}
    <3>4. name \in Short \cup Deep \cup {<<"a", "/", "..">>}
      <4>1. Names = Short \cup Deep \cup {<<"a", "/", "..">>}
        BY DEF Names
      <4> QED BY <4>1, <2>1
    <3>5. name \in Short => name \in BoundedSeq({"a", "b", "/", V!Backslash}, 4)
      OBVIOUS
    <3>6. name \in Deep => \E first \in {"a", "b", V!Backslash}, last \in {"a", "b"} :
                             name = <<first, "/", "b", "/", last>>
      OBVIOUS
    <3> HIDE DEF Short, Deep
    <3> QED BY <3>1, <3>2, <3>3, <3>4, <3>5, <3>6, Zenon
  <2>3. Configured(Chars, roots)
    <3>1. ASSUME roots = <<>> PROVE Configured(Chars, roots)
      <4>1. Len(roots) = 0 /\ DOMAIN roots = 1 .. 0
        BY <3>1
      <4> QED BY <4>1 DEF Configured
    <3>2. ASSUME NEW a \in {<<"a">>, <<"a", "b">>, <<V!Backslash, "b">>},
                 NEW b \in {<<"a">>, <<"a", "b">>, <<V!Backslash, "b">>},
                 roots = <<[alias |-> a, dir |-> "one"], [alias |-> b, dir |-> "two"]>>
          PROVE  Configured(Chars, roots)
      <4>1. a \in Seq(Chars) /\ b \in Seq(Chars)
        <5>1. "a" \in Chars /\ "b" \in Chars /\ V!Backslash \in Chars
          BY DEF Chars
        <5>2. <<"a">> \in Seq(Chars) /\ <<"a", "b">> \in Seq(Chars) /\ <<V!Backslash, "b">> \in Seq(Chars)
          BY <5>1
        <5> QED BY <5>2, Zenon
      <4>2. Len(roots) = 2 /\ DOMAIN roots = 1 .. 2 /\ roots[1].alias = a /\ roots[2].alias = b
        BY <3>2
      <4>3. \A i \in 1 .. 2 : i = 1 \/ i = 2
        OBVIOUS
      <4>4. \A i \in 1 .. 2 : roots[i].alias \in Seq(Chars)
        BY <4>1, <4>2, <4>3, Zenon
      <4> QED BY <4>2, <4>4 DEF Configured
    <3> QED BY <3>1, <3>2 DEF RootLists
  <2>4. input'.kind = "name" /\ input'.roots = roots /\ input'.name = name
    BY <2>1
  <2> QED BY <2>2, <2>3, <2>4 DEF InputInv
<1>8. ASSUME TakeText PROVE InputInv'
  <2>1. PICK data \in BoundedSeq(T!Bytes, MaxText), cut \in 1 .. 3 :
          input' = [kind |-> "text", data |-> data, size |-> cut]
    BY <1>8, Zenon DEF TakeText
  <2>2. data \in Seq(T!Bytes)
    <3>1. \E m \in 0 .. MaxText : data \in [1 .. m -> T!Bytes]
      BY Zenon DEF BoundedSeq, SeqOf
    <3>2. PICK m \in 0 .. MaxText : data \in [1 .. m -> T!Bytes]
      BY <3>1
    <3>3. m \in Nat
      OBVIOUS
    <3> QED BY <3>2, <3>3
  <2>3. input'.kind = "text" /\ input'.data = data /\ input'.size = cut
    BY <2>1
  <2> QED BY <2>2, <2>3 DEF InputInv
<1>9. ASSUME TakeRequest PROVE InputInv'
  <2>1. PICK op \in {1, 6, 7}, texts \in BoundedSeq(SomeTexts, 4) :
          input' = [kind |-> "packet", raw |-> <<op>> \o P!Terminated(texts)]
    BY <1>9, Zenon DEF TakeRequest
  <2>2. texts \in Seq(Seq(Words))
    <3>1. \E m \in 0 .. 4 : texts \in [1 .. m -> SomeTexts]
      BY Zenon DEF BoundedSeq, SeqOf
    <3>2. PICK m \in 0 .. 4 : texts \in [1 .. m -> SomeTexts]
      BY <3>1
    <3>3. SomeTexts \subseteq Seq(Words)
      BY DEF SomeTexts, Words
    <3>4. texts \in [1 .. m -> Seq(Words)]
      BY <3>2, <3>3
    <3> QED BY <3>4
  <2> DEFINE rest == P!Terminated(texts)
             raw == <<op>> \o rest
  <2>3. rest \in Seq(Words \cup {P!NUL})
    <3>1. P!NUL \notin Words
      BY DEF Words, P!NUL
    <3> QED BY <2>2, <3>1, TextsWritten
  <2> HIDE DEF rest
  <2>4. rest \in Seq(Units) /\ <<op>> \in Seq(Units)
    <3>1. Words \cup {P!NUL} \subseteq Units /\ op \in Units
      BY DEF Units
    <3> QED BY <2>3, <3>1
  <2>5. raw \in Seq(Units)
    BY <2>4, Appended
  <2> HIDE DEF raw
  <2>6. input'.kind = "packet" /\ input'.raw = raw
    BY <2>1 DEF raw, rest
  <2> QED BY <2>5, <2>6 DEF InputInv
<1>10. ASSUME TakeShortPacket PROVE InputInv'
  <2>1. PICK op \in 3 .. 5, number \in {0, 1, 9}, rest \in BoundedSeq({"f", "notUtf8", P!NUL}, 2) :
          \E len \in 0 .. Len(rest) + 2 :
            input' = [kind |-> "packet", raw |-> SubSeq(<<op, number>> \o rest, 1, len)]
    BY <1>10, Zenon DEF TakeShortPacket
  <2>2. PICK len \in 0 .. Len(rest) + 2 :
          input' = [kind |-> "packet", raw |-> SubSeq(<<op, number>> \o rest, 1, len)]
    BY <2>1
  <2>3. rest \in Seq(Units)
    <3>1. \E m \in 0 .. 2 : rest \in [1 .. m -> {"f", "notUtf8", P!NUL}]
      BY Zenon DEF BoundedSeq, SeqOf
    <3>2. PICK m \in 0 .. 2 : rest \in [1 .. m -> {"f", "notUtf8", P!NUL}]
      BY <3>1
    <3>3. {"f", "notUtf8", P!NUL} \subseteq Units
      BY DEF Units, Words
    <3>4. rest \in [1 .. m -> Units]
      BY <3>2, <3>3
    <3> QED BY <3>4
  <2> DEFINE all == <<op, number>> \o rest
  <2>4. <<op, number>> \in Seq(Units) /\ Len(<<op, number>>) = 2
    BY DEF Units
  <2>5. all \in Seq(Units) /\ Len(all) = Len(rest) + 2 /\ Len(rest) \in Nat
    BY <2>3, <2>4, Appended
  <2> HIDE DEF all
  <2>6. SubSeq(all, 1, len) \in Seq(Units)
    BY <2>5
  <2>7. input'.kind = "packet" /\ input'.raw = SubSeq(all, 1, len)
    BY <2>2 DEF all
  <2> QED BY <2>6, <2>7 DEF InputInv
<1>7. ASSUME TakeRules PROVE InputInv'
  <2>1. PICK r1, r2 \in Rules :
          \E md, c : input' = [kind |-> "rules", config |-> [mode |-> md, rules |-> <<r1, r2>>],
                              client |-> c]
    BY <1>7, Zenon DEF TakeRules
  <2>2. input'.kind = "rules" /\ input'.config.rules = <<r1, r2>>
    BY <2>1
  <2>3. <<r1, r2>> \in Seq(Rules)
    OBVIOUS
  <2> QED BY <2>2, <2>3 DEF InputInv
<1>4. ASSUME NEW part \in {"walk", "log", "transfers", "timer", "pool", "rates"}, Choose(part)
      PROVE  InputInv'
  BY <1>4, OtherInput DEF Choose
<1>5. CASE UNCHANGED allVars
  BY <1>5 DEF allVars, InputInv
<1>6. Take => InputInv'
  BY <1>1, <1>2, <1>3, <1>7, <1>8, <1>9, <1>10 DEF Take
<1> QED BY <1>4, <1>5, <1>6 DEF AlgorithmsNext

\* What the functions are asked is answered within the limits.
LEMMA FunctionsKeepLimits == InputInv => GrantsNoMore /\ WaitsGrow /\ ClientKnows
<1> SUFFICES ASSUME InputInv PROVE GrantsNoMore /\ WaitsGrow /\ ClientKnows
  OBVIOUS
<1>1. ASSUME input.kind = "negotiation"
      PROVE  /\ OnlyWhatWasAsked(input.config, input.options, input.size)
             /\ SharedView(input.config, input.options, input.size)
  <2>1. /\ ShippedDefaults(input.config) /\ input.options \in Seq(SomeOptions)
        /\ input.size \in Int
    BY <1>1 DEF InputInv
  <2> QED BY <2>1, OnlyAsked, ViewShared
<1>2. ASSUME input.kind = "backoff"
      PROVE  PatienceGrows(input.base, input.exponential, input.max, 24)
  <2>1. /\ input.base \in Nat /\ input.max \in Nat /\ input.base <= input.max
        /\ input.exponential \in BOOLEAN
    BY <1>2 DEF InputInv
  <2> DEFINE b == input.base
             m == input.max
             e == input.exponential
  <2>2. b \in Nat /\ m \in Nat /\ b <= m /\ e \in BOOLEAN
    BY <2>1
  <2> HIDE DEF b, m, e
  <2>3. \A a \in 0 .. 24 : a \in Nat
    OBVIOUS
  <2>4. PatienceGrows(b, e, m, 24)
    BY <2>2, <2>3, BackoffFacts DEF PatienceGrows
  <2> QED BY <2>4 DEF b, m, e
<1> QED BY <1>1, <1>2 DEF GrantsNoMore, WaitsGrow, ClientKnows

\* Sizes, waits, rates and buffers stay within their limits, and nothing else is
\* limited: for every rate limit and window, timeout, number of retries and of
\* buffers (negotiate_options, compute_backoff, the receive loops, check_rate_limit,
\* core/buffer_pool.rs).
THEOREM LimitsHold == AlgorithmsSpec => []LimitsAreKept
<1> DEFINE Inv == InputInv /\ TimerInv /\ RateInv /\ PoolInv
<1>1. AlgorithmsInit => Inv
  BY InputStarts, TimerStarts, RateStarts, PoolStarts DEF AlgorithmsInit
<1>2. Inv /\ [AlgorithmsNext]_allVars => Inv'
  BY EachMachineSteps, InputSteps, TimerSteps, RateSteps, PoolSteps
<1>3. Inv => LimitsAreKept
  <2>1. InputInv => GrantsNoMore /\ WaitsGrow
    BY FunctionsKeepLimits
  <2>2. TimerInv => TimerIsKept
    BY DEF TimerInv
  <2>3. RateInv => NoBurst /\ NeverPunished /\ CleanupInvisible
    BY BurstsAreShort, RefusedExceeds DEF RateInv
  <2>4. PoolInv => PoolIsSound
    BY DEF PoolInv, PoolIsSound
  <2> QED BY <2>1, <2>2, <2>3, <2>4 DEF LimitsAreKept
<1> QED BY <1>1, <1>2, <1>3, PTL DEF AlgorithmsSpec

\* The access list answers as an administrator reads its text, topmost rule first,
\* whatever the rules, the client and the operation (AclEngine::new and check in
\* core/acl/mod.rs); the order of the virtual roots decides nothing, and an upload is
\* read back under its name, whatever is on the disk (VirtualRoots::new and resolve,
\* resolve_against_root in core/fs/mod.rs).
THEOREM RequestsFollowTheConfiguration == AlgorithmsSpec => []RequestsAreJudged
<1>1. InputInv => RequestsAreJudged
  <2> SUFFICES ASSUME InputInv PROVE RequestsAreJudged
    OBVIOUS
  <2>1. ListIsRead
    <3> SUFFICES ASSUME input.kind = "rules", NEW op \in A!Operations
                 PROVE  A!ReadAsList(input.config, input.client, op)
      BY Zenon DEF ListIsRead
    <3>1. input.config.rules \in Seq(Rules)
      BY DEF InputInv
    <3> QED BY <3>1, ListReads
  <2>2. ASSUME input.kind = "name"
        PROVE  Configured(Chars, input.roots) /\ input.name \in Seq(Chars)
    BY <2>2 DEF InputInv
  <2>3. RootsInAnyOrder
    BY <2>2, AnyOrder DEF RootsInAnyOrder
  <2>4. UploadReadsBack
    BY <2>2, StoredIsFound DEF UploadReadsBack
  <2> QED BY <2>1, <2>3, <2>4 DEF RequestsAreJudged
<1> QED BY <1>1, InputStarts, InputSteps, PTL DEF AlgorithmsSpec

\* Options, texts and packets mean the same at both ends, whatever the options, the
\* bytes of the file, the block size and the units of the packet: the OACK, netascii
\* through any cut into blocks, serialize_packet against parse_packet, and requests
\* cut short (core/session/mod.rs, core/protocol/packet.rs).
THEOREM PeersReadTheSame == AlgorithmsSpec => []PeersAgree
<1>1. InputInv => PeersAgree
  <2> SUFFICES ASSUME InputInv PROVE PeersAgree
    OBVIOUS
  <2>1. ClientKnows
    BY FunctionsKeepLimits
  <2>2. TextRoundTrip /\ TextOnTheWire
    <3>1. ASSUME input.kind = "text"
          PROVE  T!TextSurvives(input.data, input.size) /\ T!WellFormed(input.data)
      <4>1. input.data \in Seq(T!Bytes) /\ input.size \in Nat /\ input.size >= 1
        BY <3>1 DEF InputInv
      <4> QED BY <4>1, TextSurvivesAll
    <3> QED BY <3>1 DEF TextRoundTrip, TextOnTheWire
  <2>3. CodecAgrees /\ CutRequestIsNoOther
    <3>1. ASSUME input.kind = "packet" PROVE input.raw \in Seq(Units)
      BY <3>1 DEF InputInv
    <3>2. CodecAgrees
      BY <3>1, PacketRereads DEF CodecAgrees
    <3>3. CutRequestIsNoOther
      BY <3>1, RequestCut DEF CutRequestIsNoOther
    <3> QED BY <3>2, <3>3
  <2> QED BY <2>1, <2>2, <2>3 DEF PeersAgree
<1> QED BY <1>1, InputStarts, InputSteps, PTL DEF AlgorithmsSpec
=============================================================================
