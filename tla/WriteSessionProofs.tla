------------------------- MODULE WriteSessionProofs -------------------------
(***************************************************************************)
(* Type correctness and safety of the write session, for every file size,  *)
(* block size, window size, limit and set of faults.                       *)
(***************************************************************************)
EXTENDS MCSessionLife, TftpBlocksProofs, FiniteSetTheorems

\* The bytes of blocks 1..n
Offset(n) == EndOffset(n, FileSize, BlkSize)

\* What the server has taken in: the window buffer and the received data hold
\* every block at its own place.
BufferInv ==
  /\ expected \in 1 .. (Total + 1)
  /\ windowEnd \in Nat /\ windowEnd <= expected + WindowSize - 1
  /\ DOMAIN windowBuf \subseteq (expected + 1) .. windowEnd
  /\ \A a \in DOMAIN windowBuf : a <= Total
  /\ windowBuf = [a \in DOMAIN windowBuf |-> a]
  /\ received = [a \in 1 .. (expected - 1) |-> a]

\* The types of the other variables, the channels apart
ScalarsInv ==
  /\ phase \in {"start", "rejected", "open", "receive", "write", "fill", "done", "failed"}
  /\ retries \in 0 .. (MaxRetries + 1)
  /\ file \in {"absent", "foreign", "partial", "written"}
  /\ shutdown \in BOOLEAN
  /\ status \in {"none", "Negotiating", "Transferring", "Completed", "Failed", "Cancelled"}
  /\ totalRx \in Nat /\ errors \in 0 .. 1
  /\ losses \in 0 .. MaxLosses
  /\ clientPhase \in {"request", "send", "done", "gone"}
  /\ clientBase \in 1 .. (Total + 1) /\ resends \in 0 .. MaxResends

\* What the client has sent bounds what can arrive, and what the server holds
\* bounds what the client can believe.
PacketsInv ==
  /\ toClient \subseteq {Oack, Error} \cup {Ack(n) : n \in 0 .. (expected - 1)}
  /\ toServer \subseteq {Error} \cup {Data(n) : n \in 1 .. ClientWindowEnd(clientBase)}
  /\ expected <= ClientWindowEnd(clientBase) + 1
  /\ \A a \in DOMAIN windowBuf : a <= ClientWindowEnd(clientBase)
  /\ AckedIsReceived

\* The outcome and the file in each phase
PhaseInv ==
  /\ bytes \in 0 .. MaxFileSize
  /\ phase \in {"start", "open"} => expected = 1 /\ retries = 0
  /\ phase \in {"start", "open", "receive"} => bytes = Offset(expected - 1)
  /\ phase \in {"start", "open", "receive", "write", "fill"} =>
       errors = 0 /\ status # "Completed" /\ retries <= MaxRetries
  /\ phase \in {"write", "fill", "done"} => expected = Total + 1 /\ bytes = FileSize
  /\ phase = "fill" => file = "partial"
  /\ phase = "done" => file = "written"
  /\ status = "Completed" => phase = "done"
  /\ file \in {"partial", "written"} =>
       bytes = FileSize /\ phase \in {"fill", "done", "failed"}

\* HalfRange is not a fact of the program (see WriteSession_wide.cfg); every
\* theorem that needs it says so.
IInv == HalfRange /\ BufferInv /\ ScalarsInv /\ PacketsInv /\ PhaseInv

-----------------------------------------------------------------------------
(***************************************************************************)
(* Constants                                                               *)
(***************************************************************************)

LEMMA TotalFacts ==
  /\ Total \in Nat /\ Total >= 1 /\ Offset(Total) = FileSize
  /\ \A n \in 1 .. Total : PayloadLen(n, FileSize, BlkSize) < BlkSize <=> n = Total
BY OnlyTheLastBlockIsShort, WriteAssumption DEF Total, Offset

LEMMA BoundFacts ==
  /\ MaxRetries \in Nat /\ MaxLosses \in Nat /\ MaxResends \in Nat /\ MaxFileSize \in Nat
  /\ WindowSize \in Nat /\ WindowSize >= 1 /\ WindowSize < WireMod /\ WireMod \in Nat
BY WriteAssumption, WireModAssumption

LEMMA OffsetFacts ==
  /\ Offset(0) = 0
  /\ \A n \in Nat : Offset(n) \in Nat
  /\ \A n \in Nat \ {0} : PayloadLen(n, FileSize, BlkSize) \in Nat
<1>1. FileSize \in Nat /\ BlkSize \in Nat /\ BlkSize >= 1
  BY WriteAssumption
<1>2. /\ EndOffset(0, FileSize, BlkSize) = 0
      /\ \A n \in Nat : EndOffset(n, FileSize, BlkSize) \in 0 .. FileSize
      /\ \A n \in Nat \ {0} : PayloadLen(n, FileSize, BlkSize) \in Nat
  BY <1>1, EndOffsetFacts
<1> QED BY <1>1, <1>2 DEF Offset

LEMMA ClientWindowFacts ==
  /\ \A b \in 1 .. (Total + 1) : /\ ClientWindowEnd(b) \in 0 .. Total
                                 /\ ClientWindowEnd(b) <= b + WindowSize - 1
  /\ \A b, c \in 1 .. (Total + 1) : b <= c => ClientWindowEnd(b) <= ClientWindowEnd(c)
BY TotalFacts, BoundFacts DEF ClientWindowEnd

-----------------------------------------------------------------------------
(***************************************************************************)
(* The window buffer                                                       *)
(***************************************************************************)

\* The elements of D that no earlier number from e on is missing for are an
\* interval, and their number says where it ends.
LEMMA InitialSegment ==
  ASSUME NEW e \in Nat, NEW w \in Int, NEW D \in SUBSET (e .. w)
  PROVE  LET C == {k \in D : e .. k \subseteq D}
             c == Cardinality(C)
         IN  /\ c \in Nat
             /\ C = e .. (e + c - 1)
             /\ e + c \notin D
<1> DEFINE C == {k \in D : e .. k \subseteq D}
           c == Cardinality(C)
<1>1. IsFiniteSet(C) /\ c \in Nat
  <2>1. IsFiniteSet(e .. w) /\ C \in SUBSET (e .. w)
    <3>1. e \in Int
      OBVIOUS
    <3>2. IsFiniteSet(e .. w)
      BY <3>1, FS_Interval
    <3>3. C \subseteq D
      OBVIOUS
    <3> QED BY <3>2, <3>3
  <2>2. IsFiniteSet(C)
    BY <2>1, FS_Subset
  <2> QED BY <2>2, FS_CardinalityType
<1>2. C \subseteq e .. (e + c - 1)
  <2> SUFFICES ASSUME NEW k \in C PROVE k \in e .. (e + c - 1)
    OBVIOUS
  <2>1. k \in Int /\ e <= k /\ e .. k \subseteq D
    <3>1. k \in D /\ e .. k \subseteq D
      OBVIOUS
    <3>2. k \in e .. w
      BY <3>1
    <3> QED BY <3>1, <3>2
  <2>2. e .. k \in SUBSET C
    <3> SUFFICES ASSUME NEW j \in e .. k PROVE j \in C
      OBVIOUS
    <3>1. e .. j \subseteq e .. k
      BY <2>1
    <3> QED BY <3>1
  <2>3. Cardinality(e .. k) = k - e + 1
    BY <2>1, FS_Interval
  <2>4. Cardinality(e .. k) <= c
    BY <1>1, <2>2, FS_Subset
  <2> HIDE DEF c, C
  <2> QED BY <1>1, <2>1, <2>3, <2>4
<1>3. C = e .. (e + c - 1)
  <2>1. IsFiniteSet(e .. (e + c - 1)) /\ Cardinality(e .. (e + c - 1)) = c
    <3> HIDE DEF c, C
    <3>1. /\ IsFiniteSet(e .. (e + c - 1))
          /\ Cardinality(e .. (e + c - 1)) =
               IF e > e + c - 1 THEN 0 ELSE (e + c - 1) - e + 1
      BY <1>1, FS_Interval
    <3> QED BY <1>1, <3>1
  <2>2. C \in SUBSET (e .. (e + c - 1))
    BY <1>2
  <2> HIDE DEF C
  <2>3. Cardinality(e .. (e + c - 1)) = Cardinality(C) => e .. (e + c - 1) = C
    BY <2>1, <2>2, FS_Subset
  <2> QED BY <2>1, <2>3 DEF c
<1>4. e + c \notin D
  <2> SUFFICES ASSUME e + c \in D PROVE FALSE
    OBVIOUS
  <2>1. e .. (e + c) \subseteq D
    <3> SUFFICES ASSUME NEW j \in e .. (e + c) PROVE j \in D
      OBVIOUS
    <3>1. CASE j = e + c
      BY <3>1
    <3>2. CASE j # e + c
      <4> HIDE DEF c
      <4>1. j \in e .. (e + c - 1)
        BY <1>1, <3>2
      <4>2. j \in C
        BY <4>1, <1>3
      <4> QED BY <4>2 DEF C
    <3> QED BY <3>1, <3>2
  <2>2. e + c \in C
    BY <2>1
  <2> HIDE DEF c, C
  <2>3. e + c \in e .. (e + c - 1)
    BY <1>3, <2>2
  <2> QED BY <1>1, <2>3
<1> QED BY <1>1, <1>3, <1>4

\* A DATA packet that falls into the window carries the block of that number.
LEMMA DataIsExact ==
  ASSUME IInv, NEW n \in 1 .. Total, n <= ClientWindowEnd(clientBase), DataAlive(n),
         DataInWindow(BlockToAbsolute(WireBlock(n), expected))
  PROVE  /\ BlockToAbsolute(WireBlock(n), expected) = n
         /\ n \in expected .. windowEnd
<1>1. /\ expected \in 1 .. (Total + 1) /\ clientBase \in 1 .. (Total + 1)
      /\ windowEnd \in Nat /\ clientBase <= expected
      /\ n <= clientBase + WindowSize - 1 /\ n + WireMod > windowEnd
  <2>1. /\ expected \in 1 .. (Total + 1) /\ clientBase \in 1 .. (Total + 1)
        /\ windowEnd \in Nat /\ clientBase <= expected
        /\ windowEnd <= expected + WindowSize - 1
        /\ expected <= ClientWindowEnd(clientBase) + 1
    BY DEF IInv, BufferInv, ScalarsInv, PacketsInv, AckedIsReceived
  <2>2. /\ ClientWindowEnd(clientBase) \in 0 .. Total
        /\ ClientWindowEnd(clientBase) <= clientBase + WindowSize - 1
    BY <2>1, ClientWindowFacts
  <2>3. windowEnd <= clientBase + 2 * WindowSize - 1
    BY <2>1, <2>2, BoundFacts
  <2>4. 2 * WindowSize < WireMod
    BY DEF IInv, HalfRange
  <2>5. n + WireMod > windowEnd
    BY <2>1, <2>3, <2>4, BoundFacts, TotalFacts DEF DataAlive
  <2> QED BY <2>1, <2>2, <2>5, BoundFacts, TotalFacts
<1>2. CASE expected <= n
  <2>1. n < expected + WireMod
    BY <1>1, BoundFacts, TotalFacts
  <2>2. BlockToAbsolute(WireBlock(n), expected) = n
    BY <1>1, <1>2, <2>1, BlockToAbsoluteExact, TotalFacts
  <2> QED BY <1>1, <1>2, <2>2, TotalFacts DEF DataInWindow
<1>3. CASE n < expected
  <2>1. CASE expected <= n + WireMod
    <3>1. BlockToAbsolute(WireBlock(n), expected) = n + WireMod
      BY <1>1, <1>3, <2>1, StaleBlockTurnsOver, TotalFacts
    <3> QED BY <1>1, <3>1, BoundFacts DEF DataInWindow
  <2>2. CASE n + WireMod < expected
    <3> DEFINE abs == BlockToAbsolute(WireBlock(n), expected)
    <3>1. expected <= windowEnd
      <4>1. abs \in Int
        BY <1>1, WireDivMod, BoundFacts, TotalFacts DEF BlockToAbsolute, WireBlock
      <4> QED BY <1>1, <4>1, TotalFacts DEF DataInWindow
    <3> QED BY <1>1, <2>2, <3>1, BoundFacts, TotalFacts
  <2> QED BY <1>1, <2>1, <2>2, BoundFacts, TotalFacts
<1> QED BY <1>1, <1>2, <1>3, TotalFacts

\* An ACK that falls into the client's window is for the block it was sent for.
LEMMA AckIsExact ==
  ASSUME IInv, NEW n \in 1 .. Total, n < expected, AckAlive(n),
         BlockToAbsolute(WireBlock(n), clientBase) <= ClientWindowEnd(clientBase)
  PROVE  /\ BlockToAbsolute(WireBlock(n), clientBase) = n
         /\ clientBase <= n
<1> DEFINE end == ClientWindowEnd(clientBase)
<1>1. /\ expected \in 1 .. (Total + 1) /\ clientBase \in 1 .. (Total + 1)
      /\ end \in 0 .. Total /\ end <= clientBase + WindowSize - 1
      /\ expected <= end + 1 /\ n + WireMod > end
  <2>1. /\ expected \in 1 .. (Total + 1) /\ clientBase \in 1 .. (Total + 1)
        /\ end \in 0 .. Total /\ end <= clientBase + WindowSize - 1
        /\ expected <= end + 1
    BY ClientWindowFacts DEF IInv, BufferInv, ScalarsInv, PacketsInv
  <2>2. n + WindowSize + 1 >= clientBase \/ n + WireMod > end
    BY DEF AckAlive
  <2>3. 2 * WindowSize < WireMod
    BY DEF IInv, HalfRange
  <2> HIDE DEF end
  <2> QED BY <2>1, <2>2, <2>3, BoundFacts, TotalFacts
<1>2. BlockToAbsolute(WireBlock(n), clientBase) <= end
  OBVIOUS
<1> HIDE DEF end
<1>3. CASE clientBase <= n
  <2>1. n < clientBase + WireMod
    BY <1>1, BoundFacts, TotalFacts
  <2> QED BY <1>1, <1>3, <2>1, BlockToAbsoluteExact, TotalFacts
<1>4. CASE n < clientBase
  <2>1. CASE clientBase <= n + WireMod
    <3>1. BlockToAbsolute(WireBlock(n), clientBase) = n + WireMod
      BY <1>1, <1>4, <2>1, StaleBlockTurnsOver, TotalFacts
    <3> QED BY <1>1, <1>2, <3>1, BoundFacts, TotalFacts
  <2>2. CASE n + WireMod < clientBase
    <3>1. end >= clientBase - 1
      BY <1>1, TotalFacts, BoundFacts DEF end, ClientWindowEnd
    <3> QED BY <1>1, <2>2, <3>1, BoundFacts, TotalFacts
  <2> QED BY <1>1, <2>1, <2>2, BoundFacts, TotalFacts
<1> QED BY <1>1, <1>3, <1>4, TotalFacts

\* What the flush of a window with block n inserted leaves and takes
LEMMA FlushFacts ==
  ASSUME BufferInv, NEW n \in 1 .. Total, n \in expected .. windowEnd,
         NEW sent \in Nat, n <= sent, expected <= sent + 1,
         \A a \in DOMAIN windowBuf : a <= sent
  PROVE  LET buf  == Insert(n, n)
             next == expected + Cardinality(Contiguous(buf))
             rest == [a \in {b \in DOMAIN buf : b >= next} |-> buf[a]]
         IN  /\ next \in expected .. (Total + 1) /\ next <= windowEnd + 1 /\ next <= sent + 1
             /\ DOMAIN rest \subseteq (next + 1) .. windowEnd
             /\ \A a \in DOMAIN rest : a <= Total /\ a <= sent
             /\ rest = [a \in DOMAIN rest |-> a]
             /\ \A a \in expected .. (next - 1) : buf[a] = a
             /\ DOMAIN rest = {} => n < next
<1> DEFINE buf  == Insert(n, n)
           D    == DOMAIN windowBuf \cup {n}
           c    == Cardinality(Contiguous(buf))
           next == expected + c
           rest == [a \in {b \in DOMAIN buf : b >= next} |-> buf[a]]
<1>1. buf = [a \in D |-> a]
  BY DEF BufferInv, Insert
<1>2. /\ expected \in Nat /\ windowEnd \in Int
      /\ D \in SUBSET (expected .. windowEnd) /\ \A a \in D : a <= Total /\ a <= sent
  BY TotalFacts DEF BufferInv
<1>3. Contiguous(buf) = {k \in D : expected .. k \subseteq D}
  BY <1>1 DEF Contiguous
<1>4. /\ c \in Nat
      /\ {k \in D : expected .. k \subseteq D} = expected .. (expected + c - 1)
      /\ next \notin D
  BY ZenonT(40), <1>2, <1>3, InitialSegment
<1> HIDE DEF c, D
<1>5. \A a \in expected .. (next - 1) : a \in D
  <2> SUFFICES ASSUME NEW a \in expected .. (next - 1) PROVE a \in D
    OBVIOUS
  <2>1. a \in expected .. (expected + c - 1)
    BY <1>2, <1>4
  <2> QED BY <2>1, <1>4
<1>6. next \in expected .. (Total + 1) /\ next <= windowEnd + 1 /\ next <= sent + 1
  <2>1. CASE c = 0
    BY <1>2, <1>4, <2>1, TotalFacts DEF BufferInv
  <2>2. CASE c # 0
    <3>1. next - 1 \in D
      BY <1>2, <1>4, <1>5, <2>2
    <3> QED BY <1>2, <1>4, <2>2, <3>1, TotalFacts
  <2> QED BY <2>1, <2>2
<1> HIDE DEF buf, next
<1>7. /\ DOMAIN rest = {b \in D : b >= next}
      /\ rest = [a \in DOMAIN rest |-> a]
      /\ \A a \in expected .. (next - 1) : buf[a] = a
  BY <1>1, <1>5
<1>8. /\ DOMAIN rest \subseteq (next + 1) .. windowEnd
      /\ \A a \in DOMAIN rest : a <= Total /\ a <= sent
  <2> HIDE DEF rest
  <2> SUFFICES ASSUME NEW a \in DOMAIN rest
               PROVE  a \in (next + 1) .. windowEnd /\ a <= Total /\ a <= sent
    OBVIOUS
  <2>1. a \in D /\ a >= next
    BY <1>7
  <2>2. a # next
    BY <1>4, <2>1 DEF next
  <2> QED BY <1>2, <1>6, <2>1, <2>2, TotalFacts
<1>9. ASSUME DOMAIN rest = {} PROVE n < next
  <2>1. n \in D
    BY DEF D
  <2>2. ~(n >= next)
    BY <1>7, <1>9, <2>1
  <2> QED BY <1>2, <1>6, <2>1, <2>2, TotalFacts
<1> HIDE DEF rest
<1>10. /\ next \in expected .. (Total + 1) /\ next <= windowEnd + 1 /\ next <= sent + 1
       /\ DOMAIN rest \subseteq (next + 1) .. windowEnd
       /\ \A a \in DOMAIN rest : a <= Total /\ a <= sent
       /\ rest = [a \in DOMAIN rest |-> a]
       /\ \A a \in expected .. (next - 1) : buf[a] = a
       /\ DOMAIN rest = {} => n < next
  BY <1>6, <1>7, <1>8, <1>9
<1> QED BY <1>10 DEF buf, next, rest, c

-----------------------------------------------------------------------------
(***************************************************************************)
(* The invariant                                                           *)
(***************************************************************************)

LEMMA InitInv == HalfRange /\ Init => IInv
<1> SUFFICES ASSUME HalfRange, Init PROVE IInv
  OBVIOUS
<1> USE DEF Init
<1>1. BufferInv
  <2>1. DOMAIN Empty = {} /\ 1 .. (expected - 1) = {}
    BY DEF Empty
  <2>2. Empty = [a \in {} |-> a]
    BY DEF Empty
  <2> QED BY <2>1, <2>2, TotalFacts, BoundFacts DEF BufferInv
<1>2. ScalarsInv
  <2>1. /\ retries \in 0 .. (MaxRetries + 1) /\ losses \in 0 .. MaxLosses
        /\ resends \in 0 .. MaxResends /\ clientBase \in 1 .. (Total + 1)
        /\ totalRx \in Nat /\ errors \in 0 .. 1
    BY TotalFacts, BoundFacts
  <2> QED BY <2>1 DEF ScalarsInv
<1>3. PacketsInv
  <2>1. DOMAIN windowBuf = {}
    BY DEF Empty
  <2>2. ClientWindowEnd(clientBase) \in Nat
    BY ClientWindowFacts, TotalFacts
  <2> QED BY <2>1, <2>2 DEF PacketsInv, AckedIsReceived
<1>4. PhaseInv
  BY BoundFacts, OffsetFacts DEF PhaseInv
<1> QED BY <1>1, <1>2, <1>3, <1>4 DEF IInv

\* A DATA packet is taken in at its own place or ignored.
LEMMA RecvDataCases ==
  ASSUME IInv, RecvData
  PROVE  /\ phase = "receive" /\ toServer' \subseteq toServer
         /\ UNCHANGED <<file, shutdown, losses, clientVars>>
         /\ \/ IgnoreBlock
            \/ \E n \in 1 .. Total : /\ n \in expected .. windowEnd
                                    /\ n <= ClientWindowEnd(clientBase)
                                    /\ TakeBlock(n, n)
<1> PICK m \in toServer :
      /\ m.type = "DATA" /\ DataAlive(m.n)
      /\ Deliver(toServer, m, toServer')
      /\ LET abs == BlockToAbsolute(WireBlock(m.n), expected)
         IN  IF DataInWindow(abs) THEN TakeBlock(abs, m.n) ELSE IgnoreBlock
  BY DEF RecvData
<1>1. /\ m.n \in 1 .. Total /\ m.n <= ClientWindowEnd(clientBase)
      /\ toServer' \subseteq toServer
  <2>1. m \in {Data(n) : n \in 1 .. ClientWindowEnd(clientBase)}
    BY DEF IInv, PacketsInv, Error
  <2>2. ClientWindowEnd(clientBase) \in 0 .. Total
    BY ClientWindowFacts DEF IInv, ScalarsInv
  <2> QED BY <2>1, <2>2, TotalFacts DEF Data, Deliver
<1> DEFINE abs == BlockToAbsolute(WireBlock(m.n), expected)
<1>2. CASE DataInWindow(abs)
  <2>1. abs = m.n /\ m.n \in expected .. windowEnd
    BY <1>1, <1>2, DataIsExact
  <2>2. TakeBlock(m.n, m.n)
    BY <1>2, <2>1
  <2> QED BY <1>1, <2>1, <2>2 DEF RecvData
<1>3. CASE ~DataInWindow(abs)
  BY <1>1, <1>3 DEF RecvData
<1> QED BY <1>2, <1>3

\* What taking in block n does, in terms of the next expected block k
LEMMA TakeFacts ==
  ASSUME IInv, phase = "receive", NEW n \in 1 .. Total, n \in expected .. windowEnd,
         n <= ClientWindowEnd(clientBase), TakeBlock(n, n)
  PROVE  \E k \in expected .. (Total + 1) :
           /\ k <= windowEnd + 1 /\ k <= ClientWindowEnd(clientBase) + 1
           /\ expected' = k
           /\ DOMAIN windowBuf' \subseteq (k + 1) .. windowEnd
           /\ \A a \in DOMAIN windowBuf' : a <= Total /\ a <= ClientWindowEnd(clientBase)
           /\ windowBuf' = [a \in DOMAIN windowBuf' |-> a]
           /\ received' = [a \in 1 .. (k - 1) |-> a]
           /\ \/ /\ Finish("Failed") /\ Send(Error)
                 /\ UNCHANGED <<windowEnd, retries, bytes, totalRx>>
              \/ /\ bytes' = Offset(k - 1) /\ bytes' \in 0 .. MaxFileSize
                 /\ totalRx' \in Nat /\ status' = "Transferring" /\ UNCHANGED errors
                 /\ \/ /\ k = Total + 1 /\ Send(Ack(k - 1)) /\ phase' = "write"
                       /\ UNCHANGED <<windowEnd, retries>>
                    \/ /\ k > windowEnd /\ Send(Ack(k - 1)) /\ retries' = 0
                       /\ windowEnd' = k + WindowSize - 1 /\ UNCHANGED phase
                    \/ UNCHANGED <<phase, windowEnd, retries, toClient>>
<1> DEFINE buf  == Insert(n, n)
           k    == expected + Cardinality(Contiguous(buf))
           rest == [a \in {b \in DOMAIN buf : b >= k} |-> buf[a]]
           size == bytes + BytesOf(expected, k - 1)
<1>0. ClientWindowEnd(clientBase) \in Nat
  BY ClientWindowFacts, TotalFacts DEF IInv, ScalarsInv
<1>1. /\ k \in expected .. (Total + 1) /\ k <= windowEnd + 1
      /\ k <= ClientWindowEnd(clientBase) + 1
      /\ DOMAIN rest \subseteq (k + 1) .. windowEnd
      /\ \A a \in DOMAIN rest : a <= Total /\ a <= ClientWindowEnd(clientBase)
      /\ rest = [a \in DOMAIN rest |-> a]
      /\ \A a \in expected .. (k - 1) : buf[a] = a
      /\ DOMAIN rest = {} => n < k
  BY <1>0, FlushFacts DEF IInv, PacketsInv
<1>2. /\ expected' = k /\ windowBuf' = rest
      /\ received' = [a \in 1 .. (k - 1) |-> IF a < expected THEN received[a] ELSE buf[a]]
      /\ IF TooLarge(size)
           THEN /\ Finish("Failed") /\ Send(Error)
                /\ UNCHANGED <<windowEnd, retries, bytes, totalRx>>
           ELSE /\ bytes' = size
                /\ totalRx' = totalRx + PayloadLen(n, FileSize, BlkSize)
                /\ status' = "Transferring"
                /\ UNCHANGED errors
                /\ IF IsFinal(n, rest)
                     THEN /\ Send(Ack(n)) /\ phase' = "write"
                          /\ UNCHANGED <<windowEnd, retries>>
                     ELSE IF k > windowEnd
                     THEN /\ Send(Ack(k - 1)) /\ retries' = 0
                          /\ windowEnd' = k + WindowSize - 1
                          /\ UNCHANGED phase
                     ELSE UNCHANGED <<phase, windowEnd, retries, toClient>>
  BY DEF TakeBlock
<1> HIDE DEF buf, k, rest
<1>3. /\ expected \in 1 .. (Total + 1) /\ k - 1 \in Nat
      /\ received = [a \in 1 .. (expected - 1) |-> a]
      /\ bytes = Offset(expected - 1) /\ totalRx \in Nat
  BY <1>1, TotalFacts DEF IInv, BufferInv, PhaseInv, ScalarsInv
<1>4. received' = [a \in 1 .. (k - 1) |-> a]
  <2>1. \A a \in 1 .. (k - 1) : (IF a < expected THEN received[a] ELSE buf[a]) = a
    <3> SUFFICES ASSUME NEW a \in 1 .. (k - 1)
                 PROVE  (IF a < expected THEN received[a] ELSE buf[a]) = a
      OBVIOUS
    <3>1. CASE a < expected
      <4>1. a \in 1 .. (expected - 1)
        BY <1>1, <1>3, <3>1, TotalFacts
      <4> QED BY <1>3, <3>1, <4>1
    <3>2. CASE ~(a < expected)
      <4>1. a \in expected .. (k - 1)
        BY <1>1, <1>3, <3>2, TotalFacts
      <4> QED BY <1>1, <3>2, <4>1
    <3> QED BY <3>1, <3>2
  <2> QED BY <1>2, <2>1
<1>5. size = Offset(k - 1) /\ size \in Nat
  <2>1. Offset(k - 1) \in Nat /\ Offset(expected - 1) \in Nat
    BY <1>3, OffsetFacts, TotalFacts
  <2>2. size = Offset(expected - 1) + (Offset(k - 1) - Offset(expected - 1))
    BY <1>3 DEF BytesOf, Offset
  <2> QED BY <2>1, <2>2
<1> HIDE DEF size
<1>6. totalRx + PayloadLen(n, FileSize, BlkSize) \in Nat
  <2>1. n \in Nat \ {0}
    BY TotalFacts
  <2>2. PayloadLen(n, FileSize, BlkSize) \in Nat
    BY <2>1, OffsetFacts
  <2> QED BY <1>3, <2>2
<1>7. IsFinal(n, rest) => k = Total + 1 /\ n = k - 1
  <2> SUFFICES ASSUME IsFinal(n, rest) PROVE k = Total + 1 /\ n = k - 1
    OBVIOUS
  <2>1. n = Total /\ n < k
    BY <1>1, TotalFacts DEF IsFinal
  <2> QED BY <1>1, <1>3, <2>1, TotalFacts
<1>8. CASE TooLarge(size)
  BY <1>1, <1>2, <1>4, <1>8
<1>9. CASE ~TooLarge(size)
  <2>1. size \in 0 .. MaxFileSize
    BY <1>5, <1>9, BoundFacts DEF TooLarge
  <2>2. CASE IsFinal(n, rest)
    BY <1>1, <1>2, <1>4, <1>5, <1>6, <1>7, <1>9, <2>1, <2>2
  <2>3. CASE ~IsFinal(n, rest)
    BY <1>1, <1>2, <1>4, <1>5, <1>6, <1>9, <2>1, <2>3
  <2> QED BY <2>2, <2>3
<1> QED BY <1>8, <1>9

-----------------------------------------------------------------------------
(***************************************************************************)
(* Every step preserves the invariant, one part after the other            *)
(***************************************************************************)

\* Only Open and RecvData touch what the server has taken in.
LEMMA BufferNext == ASSUME IInv, [Next]_vars PROVE BufferInv'
<1>1. CASE UNCHANGED <<expected, windowEnd, windowBuf, received>>
  BY <1>1 DEF IInv, BufferInv
<1>2. CASE Open
  <2>1. /\ UNCHANGED <<expected, windowBuf, received>>
        /\ windowEnd' = expected + WindowSize - 1
    BY <1>2 DEF Open
  <2>2. /\ expected \in 1 .. (Total + 1) /\ windowEnd \in Nat
        /\ windowEnd <= expected + WindowSize - 1
        /\ DOMAIN windowBuf \subseteq (expected + 1) .. windowEnd
    BY DEF IInv, BufferInv
  <2>3. windowEnd' \in Nat /\ DOMAIN windowBuf \subseteq (expected + 1) .. windowEnd'
    BY <2>1, <2>2, TotalFacts, BoundFacts
  <2> QED BY <2>1, <2>2, <2>3 DEF IInv, BufferInv
<1>3. CASE RecvData
  <2>1. CASE IgnoreBlock
    BY <1>1, <2>1 DEF IgnoreBlock, serverVars
  <2>2. CASE \E n \in 1 .. Total : /\ n \in expected .. windowEnd
                                  /\ n <= ClientWindowEnd(clientBase) /\ TakeBlock(n, n)
    <3>0. phase = "receive"
      BY <1>3, RecvDataCases
    <3> PICK n \in 1 .. Total : /\ n \in expected .. windowEnd
                                /\ n <= ClientWindowEnd(clientBase) /\ TakeBlock(n, n)
      BY <2>2
    <3> PICK k \in expected .. (Total + 1) :
           /\ k <= windowEnd + 1
           /\ expected' = k
           /\ DOMAIN windowBuf' \subseteq (k + 1) .. windowEnd
           /\ \A a \in DOMAIN windowBuf' : a <= Total
           /\ windowBuf' = [a \in DOMAIN windowBuf' |-> a]
           /\ received' = [a \in 1 .. (k - 1) |-> a]
           /\ windowEnd' = windowEnd \/ (k > windowEnd /\ windowEnd' = k + WindowSize - 1)
      BY <3>0, TakeFacts
    <3>1. /\ expected \in 1 .. (Total + 1) /\ windowEnd \in Nat
          /\ windowEnd <= expected + WindowSize - 1
      BY DEF IInv, BufferInv
    <3>2. /\ windowEnd' \in Nat /\ windowEnd' <= k + WindowSize - 1
          /\ windowEnd <= windowEnd'
      BY SMTT(30), <3>1, TotalFacts, BoundFacts
    <3>3. DOMAIN windowBuf' \subseteq (k + 1) .. windowEnd'
      BY <3>1, <3>2, TotalFacts
    <3>4. k \in 1 .. (Total + 1)
      BY <3>1, TotalFacts
    <3> QED BY <3>2, <3>3, <3>4 DEF BufferInv
  <2> QED BY <1>3, <2>1, <2>2, RecvDataCases
<1>4. CASE \/ Request \/ Timeout \/ RecvError \/ SeeShutdown \/ OpenFile \/ FillFile \/ IoError
  BY <1>1, <1>4
  DEF Request, Timeout, RecvError, SeeShutdown, OpenFile, FillFile, IoError
<1>5. CASE Client \/ Lose \/ CancelShutdown \/ OtherWriter \/ UNCHANGED vars
  BY <1>1, <1>5
  DEF Client, ClientBegin, ClientRecvAck, ClientTimeout, ClientRecvError, ClientAbort,
      Lose, CancelShutdown, OtherWriter, vars, serverVars
<1> QED BY <1>2, <1>3, <1>4, <1>5 DEF Next, Server

\* An acknowledgement moves the client, makes it repeat its window, or nothing.
LEMMA ClientAckCases ==
  ASSUME IInv, ClientRecvAck
  PROVE  /\ toClient' \subseteq toClient
         /\ UNCHANGED <<serverVars, file, shutdown, stateVars, losses, resends>>
         /\ \/ UNCHANGED <<clientPhase, clientBase, toServer>>
            \/ ClientSend(clientBase) /\ UNCHANGED <<clientPhase, clientBase>>
            \/ clientPhase = "send" /\ \E n \in 1 .. Total : /\ clientBase <= n /\ n < expected
                                                            /\ ClientAdvance(n)
<1> PICK m \in toClient :
      /\ m.type = "ACK" /\ m.n > 0 /\ AckAlive(m.n)
      /\ Deliver(toClient, m, toClient')
      /\ LET abs == BlockToAbsolute(WireBlock(m.n), clientBase)
             new == clientPhase = "send" /\ abs <= ClientWindowEnd(clientBase)
         IN  \/ new /\ ClientAdvance(abs)
             \/ ~new /\ UNCHANGED <<clientPhase, clientBase, toServer>>
             \/ /\ clientPhase = "send" /\ WireBlock(m.n) = WireBlock(clientBase - 1)
                /\ ClientSend(clientBase)
                /\ UNCHANGED <<clientPhase, clientBase>>
  BY DEF ClientRecvAck
<1>1. m.n \in 1 .. Total /\ m.n < expected
  <2>1. m \in {Ack(n) : n \in 0 .. (expected - 1)}
    BY DEF IInv, PacketsInv, Error, Oack
  <2>2. expected \in 1 .. (Total + 1)
    BY DEF IInv, BufferInv
  <2> QED BY <2>1, <2>2, TotalFacts DEF Ack
<1> DEFINE abs == BlockToAbsolute(WireBlock(m.n), clientBase)
<1>2. CASE /\ clientPhase = "send" /\ abs <= ClientWindowEnd(clientBase)
           /\ ClientAdvance(abs)
  <2>1. abs = m.n /\ clientBase <= m.n
    BY <1>1, <1>2, AckIsExact
  <2> QED BY <1>1, <1>2, <2>1 DEF ClientRecvAck, Deliver
<1>3. CASE UNCHANGED <<clientPhase, clientBase, toServer>>
  BY <1>3 DEF ClientRecvAck, Deliver
<1>4. CASE ClientSend(clientBase) /\ UNCHANGED <<clientPhase, clientBase>>
  BY <1>4 DEF ClientRecvAck, Deliver
<1> QED BY <1>2, <1>3, <1>4

LEMMA ScalarsNext == ASSUME IInv, [Next]_vars PROVE ScalarsInv'
<1> USE DEF Finish
<1>1. CASE Request \/ Open
  BY <1>1 DEF Request, Open, clientVars, IInv, ScalarsInv
<1>2. CASE RecvData
  <2>1. CASE IgnoreBlock
    BY <1>2, <2>1, RecvDataCases
    DEF IgnoreBlock, serverVars, stateVars, clientVars, IInv, ScalarsInv
  <2>2. CASE \E n \in 1 .. Total : /\ n \in expected .. windowEnd
                                  /\ n <= ClientWindowEnd(clientBase) /\ TakeBlock(n, n)
    <3>1. phase = "receive" /\ UNCHANGED <<file, shutdown, losses, clientVars>>
      BY <1>2, RecvDataCases
    <3> PICK n \in 1 .. Total : /\ n \in expected .. windowEnd
                                /\ n <= ClientWindowEnd(clientBase) /\ TakeBlock(n, n)
      BY <2>2
    <3>2. \/ Finish("Failed") /\ UNCHANGED <<retries, totalRx>>
          \/ /\ totalRx' \in Nat /\ status' = "Transferring" /\ UNCHANGED errors
             /\ retries' \in {retries, 0} /\ phase' \in {"receive", "write"}
      BY <3>1, TakeFacts
    <3>3. retries' \in 0 .. (MaxRetries + 1)
      BY <3>2, BoundFacts DEF IInv, ScalarsInv
    <3>4. errors' \in 0 .. 1
      BY <3>1, <3>2 DEF IInv, PhaseInv
    <3> QED BY <3>1, <3>2, <3>3, <3>4 DEF clientVars, IInv, ScalarsInv
  <2> QED BY <1>2, <2>1, <2>2, RecvDataCases
<1>3. CASE Timeout
  <2>1. retries' \in 0 .. (MaxRetries + 1)
    BY <1>3, BoundFacts DEF Timeout, CountRetry, IInv, ScalarsInv, PhaseInv
  <2>2. errors' \in 0 .. 1
    BY <1>3 DEF Timeout, IInv, PhaseInv
  <2> QED BY <1>3, <2>1, <2>2 DEF Timeout, clientVars, IInv, ScalarsInv
<1>4. CASE RecvError \/ SeeShutdown \/ OpenFile \/ FillFile \/ IoError
  <2>1. errors' \in 0 .. 1
    BY <1>4 DEF RecvError, SeeShutdown, OpenFile, FillFile, IoError, IInv, PhaseInv
  <2> QED BY <1>4, <2>1
          DEF RecvError, SeeShutdown, OpenFile, FillFile, IoError, networkVars, clientVars,
              IInv, ScalarsInv
<1>5. CASE ClientRecvAck
  <2>1. clientBase' \in 1 .. (Total + 1) /\ clientPhase' \in {"request", "send", "done", "gone"}
    BY <1>5, ClientAckCases, TotalFacts DEF ClientAdvance, IInv, ScalarsInv
  <2> QED BY <1>5, <2>1, ClientAckCases DEF serverVars, stateVars, IInv, ScalarsInv
<1>6. CASE ClientTimeout
  <2>1. resends' \in 0 .. MaxResends
    BY <1>6, BoundFacts DEF ClientTimeout, IInv, ScalarsInv
  <2> QED BY <1>6, <2>1 DEF ClientTimeout, serverVars, stateVars, IInv, ScalarsInv
<1>7. CASE Lose
  <2>1. losses' \in 0 .. MaxLosses
    BY <1>7, BoundFacts DEF Lose, IInv, ScalarsInv
  <2> QED BY <1>7, <2>1 DEF Lose, serverVars, stateVars, clientVars, IInv, ScalarsInv
<1>8. CASE ClientBegin \/ ClientRecvError \/ ClientAbort
  BY <1>8
  DEF ClientBegin, ClientRecvError, ClientAbort, serverVars, stateVars, IInv, ScalarsInv
<1>9. CASE CancelShutdown \/ OtherWriter \/ UNCHANGED vars
  BY <1>9
  DEF CancelShutdown, OtherWriter, vars, serverVars, stateVars, networkVars, clientVars,
      IInv, ScalarsInv
<1> QED
  BY <1>1, <1>2, <1>3, <1>4, <1>5, <1>6, <1>7, <1>8, <1>9 DEF Next, Server, Client

\* The server sends an answer that claims no block beyond what it holds.
LEMMA ServerPackets ==
  ASSUME IInv, NEW k \in 0 .. (expected - 1),
         toClient' \subseteq toClient \cup {Oack, Error, Ack(0), Ack(k)},
         toServer' \subseteq toServer,
         UNCHANGED <<expected, windowBuf, clientBase, clientPhase>>
  PROVE  PacketsInv'
<1>1. 0 \in 0 .. (expected - 1)
  BY TotalFacts DEF IInv, BufferInv
<1> QED BY <1>1 DEF IInv, PacketsInv, AckedIsReceived

\* The client moves to a block the server waits for at most, and sends up to
\* the end of its window.
LEMMA ClientPackets ==
  ASSUME IInv, toClient' \subseteq toClient,
         clientBase' \in clientBase .. expected,
         toServer' \subseteq
           toServer \cup {Error} \cup {Data(n) : n \in 1 .. ClientWindowEnd(clientBase')},
         clientPhase' = "done" => clientPhase = "done" \/ expected = Total + 1,
         UNCHANGED <<expected, windowBuf>>
  PROVE  PacketsInv'
<1>1. /\ expected \in 1 .. (Total + 1) /\ clientBase \in 1 .. (Total + 1)
      /\ \A a \in DOMAIN windowBuf : a \in Int
  BY TotalFacts DEF IInv, BufferInv, ScalarsInv
<1>2. /\ ClientWindowEnd(clientBase) \in 0 .. Total
      /\ ClientWindowEnd(clientBase') \in 0 .. Total
      /\ ClientWindowEnd(clientBase) <= ClientWindowEnd(clientBase')
  <2>1. clientBase' \in 1 .. (Total + 1) /\ clientBase <= clientBase'
    BY <1>1, TotalFacts
  <2> QED BY <1>1, <2>1, ClientWindowFacts
<1>3. toServer' \subseteq {Error} \cup {Data(n) : n \in 1 .. ClientWindowEnd(clientBase')}
  BY <1>2, TotalFacts DEF IInv, PacketsInv
<1>4. /\ expected' <= ClientWindowEnd(clientBase') + 1
      /\ \A a \in DOMAIN windowBuf' : a <= ClientWindowEnd(clientBase')
  BY <1>1, <1>2, TotalFacts DEF IInv, PacketsInv
<1>5. AckedIsReceived'
  BY <1>1, TotalFacts DEF IInv, PacketsInv, AckedIsReceived
<1>6. toClient' \subseteq {Oack, Error} \cup {Ack(n) : n \in 0 .. (expected' - 1)}
  BY DEF IInv, PacketsInv
<1> QED BY <1>3, <1>4, <1>5, <1>6 DEF PacketsInv

LEMMA PacketsNext == ASSUME IInv, [Next]_vars PROVE PacketsInv'
<1>0. /\ expected \in 1 .. (Total + 1) /\ 0 \in 0 .. (expected - 1)
      /\ clientBase \in clientBase .. expected
  BY TotalFacts DEF IInv, BufferInv, ScalarsInv, PacketsInv, AckedIsReceived
<1>1. CASE Request \/ Open
  BY <1>0, <1>1, ServerPackets DEF Request, Open, Send, clientVars
<1>2. CASE RecvData
  <2>1. CASE IgnoreBlock
    BY <1>0, <1>2, <2>1, RecvDataCases, ServerPackets DEF IgnoreBlock, serverVars, clientVars
  <2>2. CASE \E n \in 1 .. Total : /\ n \in expected .. windowEnd
                                  /\ n <= ClientWindowEnd(clientBase) /\ TakeBlock(n, n)
    <3>1. phase = "receive" /\ toServer' \subseteq toServer /\ UNCHANGED clientVars
      BY <1>2, RecvDataCases
    <3> PICK n \in 1 .. Total : /\ n \in expected .. windowEnd
                                /\ n <= ClientWindowEnd(clientBase) /\ TakeBlock(n, n)
      BY <2>2
    <3> PICK k \in expected .. (Total + 1) :
           /\ k <= ClientWindowEnd(clientBase) + 1
           /\ expected' = k
           /\ \A a \in DOMAIN windowBuf' : a <= ClientWindowEnd(clientBase)
           /\ Send(Error) \/ Send(Ack(k - 1)) \/ UNCHANGED toClient
      BY <3>1, TakeFacts
    <3>2. toClient \subseteq {Oack, Error} \cup {Ack(a) : a \in 0 .. (k - 1)}
      <4>1. 0 .. (expected - 1) \subseteq 0 .. (k - 1)
        BY <1>0, TotalFacts
      <4> QED BY <4>1 DEF IInv, PacketsInv
    <3>3. k - 1 \in 0 .. (k - 1)
      BY <1>0, TotalFacts
    <3>4. toClient' \subseteq {Oack, Error} \cup {Ack(a) : a \in 0 .. (k - 1)}
      BY <3>2, <3>3 DEF Send
    <3>5. AckedIsReceived'
      BY <1>0, <3>1, TotalFacts DEF clientVars, IInv, ScalarsInv, PacketsInv, AckedIsReceived
    <3>6. /\ expected' <= ClientWindowEnd(clientBase') + 1
          /\ \A a \in DOMAIN windowBuf' : a <= ClientWindowEnd(clientBase')
          /\ toServer' \subseteq {Error} \cup {Data(a) : a \in 1 .. ClientWindowEnd(clientBase')}
      BY <3>1 DEF clientVars, IInv, PacketsInv
    <3> QED BY <3>4, <3>5, <3>6 DEF PacketsInv
  <2> QED BY <1>2, <2>1, <2>2, RecvDataCases
<1>3. CASE Timeout
  <2>1. expected - 1 \in 0 .. (expected - 1)
    BY <1>0, TotalFacts
  <2>2. toClient' \subseteq toClient \cup {Ack(expected - 1)}
    BY <1>3 DEF Timeout, ReAck, Send
  <2> QED BY <1>3, <2>1, <2>2, ServerPackets DEF Timeout, clientVars
<1>4. CASE RecvError \/ SeeShutdown \/ OpenFile \/ FillFile \/ IoError
  BY <1>0, <1>4, ServerPackets
  DEF RecvError, SeeShutdown, OpenFile, FillFile, IoError, networkVars, clientVars
<1>5. CASE CancelShutdown \/ OtherWriter \/ Lose \/ UNCHANGED vars
  BY <1>0, <1>5, ServerPackets
  DEF CancelShutdown, OtherWriter, Lose, vars, serverVars, networkVars, clientVars
<1>6. CASE ClientBegin
  <2>2. /\ toClient' \subseteq toClient /\ UNCHANGED <<expected, windowBuf, clientBase>>
        /\ clientPhase' = "done" => clientPhase = "done"
        /\ toServer' \subseteq toServer \cup {Data(n) : n \in 1 .. ClientWindowEnd(1)}
    BY <1>6 DEF ClientBegin, Deliver, ClientSend, serverVars
  <2>3. ClientWindowEnd(1) \in 0 .. Total /\ ClientWindowEnd(1) <= ClientWindowEnd(clientBase)
        /\ ClientWindowEnd(clientBase) \in 0 .. Total
    BY ClientWindowFacts, TotalFacts DEF IInv, ScalarsInv
  <2>4. {Data(n) : n \in 1 .. ClientWindowEnd(1)} \subseteq
        {Data(n) : n \in 1 .. ClientWindowEnd(clientBase)}
    BY <2>3, TotalFacts
  <2> QED BY <1>0, <2>2, <2>4, ClientPackets
<1>7. CASE ClientRecvAck
  <2>1. toClient' \subseteq toClient /\ UNCHANGED <<expected, windowBuf>>
    BY <1>7, ClientAckCases DEF serverVars
  <2>2. CASE UNCHANGED <<clientPhase, clientBase, toServer>>
    BY <1>0, <2>1, <2>2, ClientPackets
  <2>3. CASE ClientSend(clientBase) /\ UNCHANGED <<clientPhase, clientBase>>
    <3>1. clientBase .. ClientWindowEnd(clientBase) \subseteq 1 .. ClientWindowEnd(clientBase)
      BY ClientWindowFacts, TotalFacts DEF IInv, ScalarsInv
    <3>2. toServer' \subseteq toServer \cup {Data(n) : n \in 1 .. ClientWindowEnd(clientBase')}
      BY <2>3, <3>1 DEF ClientSend
    <3> QED BY <1>0, <2>1, <2>3, <3>2, ClientPackets
  <2>4. CASE \E n \in 1 .. Total : clientBase <= n /\ n < expected /\ ClientAdvance(n)
    <3> PICK n \in 1 .. Total : clientBase <= n /\ n < expected /\ ClientAdvance(n)
      BY <2>4
    <3>1. /\ clientBase' = n + 1 /\ clientBase' \in clientBase .. expected
          /\ n = Total => expected = Total + 1
          /\ clientBase' \in 1 .. (Total + 1)
      BY <1>0, TotalFacts DEF ClientAdvance, IInv, ScalarsInv
    <3>2. clientPhase' = "done" => clientPhase = "done" \/ expected = Total + 1
      BY <3>1 DEF ClientAdvance
    <3>3. (n + 1) .. ClientWindowEnd(n + 1) \subseteq 1 .. ClientWindowEnd(clientBase')
      BY <3>1, ClientWindowFacts, TotalFacts
    <3>4. toServer' \subseteq toServer \cup {Data(a) : a \in 1 .. ClientWindowEnd(clientBase')}
      BY <3>3 DEF ClientAdvance, ClientSend
    <3> QED BY <2>1, <3>1, <3>2, <3>4, ClientPackets
  <2> QED BY <1>7, <2>2, <2>3, <2>4, ClientAckCases
<1>8. CASE ClientTimeout
  <2>1. clientBase .. ClientWindowEnd(clientBase) \subseteq 1 .. ClientWindowEnd(clientBase)
    BY ClientWindowFacts, TotalFacts DEF IInv, ScalarsInv
  <2>2. toServer' \subseteq toServer \cup {Data(n) : n \in 1 .. ClientWindowEnd(clientBase')}
    BY <1>8, <2>1 DEF ClientTimeout, ClientSend
  <2> QED BY <1>0, <1>8, <2>2, ClientPackets DEF ClientTimeout, serverVars
<1>9. CASE ClientRecvError \/ ClientAbort
  BY <1>0, <1>9, ClientPackets DEF ClientRecvError, ClientAbort, Deliver, serverVars
<1> QED
  BY <1>1, <1>2, <1>3, <1>4, <1>5, <1>6, <1>7, <1>8, <1>9 DEF Next, Server, Client

LEMMA PhaseNext == ASSUME IInv, [Next]_vars PROVE PhaseInv'
<1> USE DEF Finish
<1>0. expected \in 1 .. (Total + 1) /\ bytes \in 0 .. MaxFileSize
  BY DEF IInv, BufferInv, PhaseInv
<1>1. CASE Request
  BY <1>1 DEF Request, IInv, PhaseInv
<1>2. CASE Open
  <2>1. bytes' = Offset(expected - 1) /\ bytes' \in 0 .. MaxFileSize
    BY <1>2, BoundFacts, OffsetFacts DEF Open, IInv, PhaseInv
  <2> QED BY <1>2, <2>1 DEF Open, IInv, PhaseInv
<1>3. CASE RecvData
  <2>1. CASE IgnoreBlock
    BY <1>3, <2>1, RecvDataCases DEF IgnoreBlock, serverVars, stateVars, IInv, PhaseInv
  <2>2. CASE \E n \in 1 .. Total : /\ n \in expected .. windowEnd
                                  /\ n <= ClientWindowEnd(clientBase) /\ TakeBlock(n, n)
    <3>1. phase = "receive" /\ UNCHANGED file
      BY <1>3, RecvDataCases
    <3> PICK n \in 1 .. Total : /\ n \in expected .. windowEnd
                                /\ n <= ClientWindowEnd(clientBase) /\ TakeBlock(n, n)
      BY <2>2
    <3> PICK k \in expected .. (Total + 1) :
           /\ expected' = k
           /\ \/ Finish("Failed") /\ UNCHANGED bytes
              \/ /\ bytes' = Offset(k - 1) /\ bytes' \in 0 .. MaxFileSize
                 /\ status' = "Transferring" /\ UNCHANGED errors
                 /\ retries' \in {retries, 0}
                 /\ phase' = "receive" \/ (phase' = "write" /\ k = Total + 1)
      BY <3>1, TakeFacts
    <3>2. phase' = "write" => bytes' = FileSize
      <4>1. (Total + 1) - 1 = Total
        BY TotalFacts
      <4> QED BY <4>1, TotalFacts
    <3>3. file \notin {"partial", "written"}
      BY <3>1 DEF IInv, PhaseInv
    <3> QED BY <3>1, <3>2, <3>3, BoundFacts DEF IInv, PhaseInv
  <2> QED BY <1>3, <2>1, <2>2, RecvDataCases
<1>4. CASE Timeout
  <2>1. retries' > MaxRetries \/ retries' <= MaxRetries
    BY <1>4, BoundFacts DEF Timeout, CountRetry, IInv, ScalarsInv
  <2> QED BY <1>4, <2>1 DEF Timeout, IInv, PhaseInv
<1>5. CASE RecvError \/ SeeShutdown \/ OpenFile \/ FillFile \/ IoError
  BY <1>5 DEF RecvError, SeeShutdown, OpenFile, FillFile, IoError, IInv, PhaseInv
<1>6. CASE Client \/ Lose \/ CancelShutdown \/ OtherWriter \/ UNCHANGED vars
  BY <1>6
  DEF Client, ClientBegin, ClientRecvAck, ClientTimeout, ClientRecvError, ClientAbort,
      Lose, CancelShutdown, OtherWriter, vars, serverVars, stateVars, IInv, PhaseInv
<1> QED BY <1>1, <1>2, <1>3, <1>4, <1>5, <1>6 DEF Next, Server

LEMMA NextInv == ASSUME IInv, [Next]_vars PROVE IInv'
BY BufferNext, ScalarsNext, PacketsNext, PhaseNext DEF IInv, HalfRange

-----------------------------------------------------------------------------
(***************************************************************************)
(* How much work a session is                                              *)
(***************************************************************************)

\* Transmissions (OACK, ACK or ERROR) the server still has left: the opening,
\* and max_retries + 1 for every block, however small the windows become.
SendsLeft ==
  CASE phase \in {"start", "open"} -> (Total + 1) * (MaxRetries + 1)
    [] phase = "receive" -> (Total + 1 - expected) * (MaxRetries + 1) + (MaxRetries - retries)
    [] OTHER             -> 0

\* The phases that lie ahead
TurnsLeft ==
  CASE phase = "start"   -> 5
    [] phase = "open"    -> 4
    [] phase = "receive" -> 3
    [] phase = "write"   -> 2
    [] phase = "fill"    -> 1
    [] OTHER             -> 0

Fuel == SendsLeft + TurnsLeft

\* A step of the server that only takes a packet in: a block that is ignored,
\* was there before, or waits in window_buf for an earlier one
OnlyBuffers ==
  RecvData /\ UNCHANGED <<phase, expected, windowEnd, retries, received, toClient>>

\* The server pays for any other step with a transmission or with a turn.
ServerPays ==
  /\ SendsLeft' <= SendsLeft /\ TurnsLeft' <= TurnsLeft
  /\ SendsLeft' < SendsLeft \/ (toClient' = toClient /\ TurnsLeft' < TurnsLeft)

\* The transmissions of n blocks
LEMMA Rounds ==
  /\ \A n \in Nat : n * (MaxRetries + 1) \in Nat
  /\ \A n, k \in Nat : n < k => n * (MaxRetries + 1) + (MaxRetries + 1) <= k * (MaxRetries + 1)
<1>1. MaxRetries + 1 \in Nat
  BY BoundFacts
<1>2. ASSUME NEW n \in Nat PROVE n * (MaxRetries + 1) \in Nat
  <2>1. n < n + 1 /\ n + 1 \in Nat
    OBVIOUS
  <2> QED BY <1>1, <2>1, MulStep
<1> QED BY <1>1, <1>2, MulStep

LEMMA LocalFacts ==
  IInv => /\ expected \in 1 .. (Total + 1) /\ windowEnd \in Nat
          /\ retries \in 0 .. (MaxRetries + 1)
          /\ phase = "receive" => retries <= MaxRetries
BY DEF IInv, BufferInv, ScalarsInv, PhaseInv

\* SendsLeft and TurnsLeft are natural numbers.
LEMMA LeftType ==
  IInv => /\ SendsLeft \in Nat /\ TurnsLeft \in Nat
          /\ SendsLeft <= (Total + 1) * (MaxRetries + 1) /\ TurnsLeft <= 5
<1> SUFFICES ASSUME IInv
             PROVE  /\ SendsLeft \in Nat /\ TurnsLeft \in Nat
                    /\ SendsLeft <= (Total + 1) * (MaxRetries + 1) /\ TurnsLeft <= 5
  OBVIOUS
<1>1. /\ Total \in Nat /\ Total + 1 \in Nat /\ MaxRetries \in Nat /\ retries \in Nat
      /\ phase = "receive" => retries <= MaxRetries
      /\ Total + 1 - expected \in Nat /\ Total + 1 - expected < Total + 1
  BY TotalFacts, BoundFacts, LocalFacts
<1>2. /\ (Total + 1) * (MaxRetries + 1) \in Nat
      /\ (Total + 1 - expected) * (MaxRetries + 1) \in Nat
      /\ (Total + 1 - expected) * (MaxRetries + 1) + (MaxRetries + 1)
           <= (Total + 1) * (MaxRetries + 1)
  BY <1>1, Rounds
<1>3. SendsLeft \in Nat /\ SendsLeft <= (Total + 1) * (MaxRetries + 1)
  BY <1>1, <1>2 DEF SendsLeft
<1>4. TurnsLeft \in Nat /\ TurnsLeft <= 5
  BY DEF TurnsLeft
<1> QED BY <1>3, <1>4

LEMMA LeftTypeNext ==
  IInv' => (/\ SendsLeft \in Nat /\ TurnsLeft \in Nat
            /\ SendsLeft <= (Total + 1) * (MaxRetries + 1) /\ TurnsLeft <= 5)'
BY LeftType, PTL

\* What taking in a block costs
LEMMA TakePays ==
  ASSUME IInv, IInv', phase = "receive", NEW n \in 1 .. Total, n \in expected .. windowEnd,
         n <= ClientWindowEnd(clientBase), TakeBlock(n, n)
  PROVE  \/ ServerPays
         \/ UNCHANGED <<phase, expected, windowEnd, retries, received, toClient>>
<1>1. PICK k \in expected .. (Total + 1) :
        /\ k <= windowEnd + 1 /\ k <= ClientWindowEnd(clientBase) + 1
        /\ expected' = k
        /\ DOMAIN windowBuf' \subseteq (k + 1) .. windowEnd
        /\ \A a \in DOMAIN windowBuf' : a <= Total /\ a <= ClientWindowEnd(clientBase)
        /\ windowBuf' = [a \in DOMAIN windowBuf' |-> a]
        /\ received' = [a \in 1 .. (k - 1) |-> a]
        /\ \/ /\ Finish("Failed") /\ Send(Error)
              /\ UNCHANGED <<windowEnd, retries, bytes, totalRx>>
           \/ /\ bytes' = Offset(k - 1) /\ bytes' \in 0 .. MaxFileSize
              /\ totalRx' \in Nat /\ status' = "Transferring" /\ UNCHANGED errors
              /\ \/ /\ k = Total + 1 /\ Send(Ack(k - 1)) /\ phase' = "write"
                    /\ UNCHANGED <<windowEnd, retries>>
                 \/ /\ k > windowEnd /\ Send(Ack(k - 1)) /\ retries' = 0
                    /\ windowEnd' = k + WindowSize - 1 /\ UNCHANGED phase
                 \/ UNCHANGED <<phase, windowEnd, retries, toClient>>
  BY TakeFacts
<1>2. /\ Total \in Nat /\ expected \in 1 .. Total /\ windowEnd \in Nat /\ expected <= windowEnd
      /\ k \in Nat /\ k \in expected .. (Total + 1)
      /\ MaxRetries \in Nat /\ retries \in 0 .. MaxRetries
  BY TotalFacts, BoundFacts, LocalFacts
<1>3. SendsLeft = (Total + 1 - expected) * (MaxRetries + 1) + (MaxRetries - retries)
      /\ TurnsLeft = 3
  BY DEF SendsLeft, TurnsLeft
<1>4. /\ (Total + 1 - expected) * (MaxRetries + 1) \in Nat
      /\ (Total + 1 - expected) * (MaxRetries + 1) >= MaxRetries + 1
  <2>1. 0 < Total + 1 - expected /\ Total + 1 - expected \in Nat
    BY <1>2
  <2>2. 0 * (MaxRetries + 1) + (MaxRetries + 1) <= (Total + 1 - expected) * (MaxRetries + 1)
    BY <2>1, Rounds
  <2> QED BY <1>2, <2>1, <2>2, Rounds
<1>5. expected < k => /\ (Total + 1 - k) * (MaxRetries + 1) \in Nat
                      /\ (Total + 1 - k) * (MaxRetries + 1) + (MaxRetries + 1)
                           <= (Total + 1 - expected) * (MaxRetries + 1)
  <2>1. /\ Total + 1 - k \in Nat /\ Total + 1 - expected \in Nat
        /\ expected < k => Total + 1 - k < Total + 1 - expected
    BY <1>2
  <2> QED BY <2>1, Rounds
<1>6. CASE phase' \in {"failed", "write"}
  <2>1. SendsLeft' = 0 /\ TurnsLeft' \in 0 .. 2
    BY <1>6 DEF SendsLeft, TurnsLeft
  <2> QED BY <1>2, <1>3, <1>4, <2>1 DEF ServerPays
<1>7. CASE k > windowEnd /\ retries' = 0 /\ phase' = phase
  <2>1. SendsLeft' = (Total + 1 - k) * (MaxRetries + 1) + MaxRetries /\ TurnsLeft' = 3
    BY <1>1, <1>2, <1>7 DEF SendsLeft, TurnsLeft
  <2>2. expected < k
    BY <1>2, <1>7
  <2> QED BY <1>2, <1>3, <1>4, <1>5, <2>1, <2>2 DEF ServerPays
<1>8. CASE UNCHANGED <<phase, windowEnd, retries, toClient>>
  <2>1. CASE k = expected
    <3>1. received' = received
      BY <1>1, <2>1 DEF IInv, BufferInv
    <3> QED BY <1>1, <1>8, <2>1, <3>1
  <2>2. CASE expected < k
    <3>1. SendsLeft' = (Total + 1 - k) * (MaxRetries + 1) + (MaxRetries - retries)
          /\ TurnsLeft' = 3
      BY <1>1, <1>8 DEF SendsLeft, TurnsLeft
    <3> QED BY <1>2, <1>3, <1>4, <1>5, <2>2, <3>1 DEF ServerPays
  <2> QED BY <1>2, <2>1, <2>2
<1> QED BY <1>1, <1>6, <1>7, <1>8 DEF Finish

LEMMA ServerSteps ==
  ASSUME IInv, IInv', Server
  PROVE  ServerPays \/ OnlyBuffers
<1>0. /\ SendsLeft \in Nat /\ SendsLeft' \in Nat /\ TurnsLeft \in Nat /\ TurnsLeft' \in Nat
      /\ Total \in Nat /\ MaxRetries \in Nat /\ retries \in Nat /\ expected \in 1 .. (Total + 1)
  <2>1. SendsLeft \in Nat /\ SendsLeft' \in Nat /\ TurnsLeft \in Nat /\ TurnsLeft' \in Nat
    BY LeftType, LeftTypeNext
  <2> QED BY <2>1, TotalFacts, BoundFacts, LocalFacts
<1>1. CASE Request
  <2>1. phase = "start" /\ phase' \in {"rejected", "open"}
        /\ (phase' = "open" => toClient' = toClient)
    BY <1>1 DEF Request
  <2>2. (Total + 1) * (MaxRetries + 1) \in Nat /\ (Total + 1) * (MaxRetries + 1) >= 1
    <3>1. 0 * (MaxRetries + 1) + (MaxRetries + 1) <= (Total + 1) * (MaxRetries + 1)
      BY <1>0, Rounds
    <3> QED BY <1>0, <3>1, Rounds
  <2>3. CASE phase' = "open"
    BY <1>0, <2>1, <2>2, <2>3 DEF ServerPays, SendsLeft, TurnsLeft
  <2>4. CASE phase' = "rejected"
    BY <1>0, <2>1, <2>2, <2>4 DEF ServerPays, SendsLeft, TurnsLeft
  <2> QED BY <2>1, <2>3, <2>4
<1>2. CASE Open
  <2>1. /\ phase = "open" /\ phase' = "receive" /\ expected' = 1 /\ retries' = 0
    BY <1>2 DEF Open, IInv, PhaseInv
  <2>2. /\ (Total + 1 - 1) * (MaxRetries + 1) \in Nat
        /\ (Total + 1 - 1) * (MaxRetries + 1) + (MaxRetries + 1)
             <= (Total + 1) * (MaxRetries + 1)
    BY <1>0, Rounds
  <2>3. SendsLeft' = (Total + 1 - 1) * (MaxRetries + 1) + (MaxRetries - 0) /\ TurnsLeft' = 3
    BY <2>1 DEF SendsLeft, TurnsLeft
  <2>4. SendsLeft = (Total + 1) * (MaxRetries + 1) /\ TurnsLeft = 4
    BY <2>1 DEF SendsLeft, TurnsLeft
  <2> QED BY <1>0, <2>2, <2>3, <2>4 DEF ServerPays
<1>3. CASE RecvData
  <2>1. CASE IgnoreBlock
    BY <1>3, <2>1 DEF IgnoreBlock, OnlyBuffers, serverVars
  <2>2. CASE \E n \in 1 .. Total : /\ n \in expected .. windowEnd
                                    /\ n <= ClientWindowEnd(clientBase)
                                    /\ TakeBlock(n, n)
    BY <1>3, <2>2, RecvDataCases, TakePays DEF OnlyBuffers
  <2> QED BY <1>3, <2>1, <2>2, RecvDataCases
<1>4. ASSUME phase \in {"open", "receive", "write", "fill"}, toClient' = toClient,
             phase' = "failed" \/ (phase = "write" /\ phase' = "fill")
                              \/ (phase = "fill" /\ phase' = "done")
      PROVE  ServerPays
  <2>1. SendsLeft' = 0
    BY <1>4 DEF SendsLeft
  <2>2. TurnsLeft' < TurnsLeft
    BY <1>4 DEF TurnsLeft
  <2> QED BY <1>0, <1>4, <2>1, <2>2 DEF ServerPays
<1>5. CASE Timeout
  <2>1. CASE retries' > MaxRetries
    BY <1>4, <1>5, <2>1 DEF Timeout, Finish
  <2>2. CASE ~(retries' > MaxRetries)
    <3>1. /\ phase = "receive" /\ retries' = retries + 1 /\ UNCHANGED <<phase, expected>>
      BY <1>5, <2>2 DEF Timeout, CountRetry
    <3>2. (Total + 1 - expected) * (MaxRetries + 1) \in Nat
      <4>1. Total + 1 - expected \in Nat
        BY <1>0
      <4> QED BY <4>1, Rounds
    <3>3. SendsLeft' < SendsLeft /\ TurnsLeft' = TurnsLeft
      BY <1>0, <3>1, <3>2 DEF SendsLeft, TurnsLeft
    <3> QED BY <1>0, <3>3 DEF ServerPays
  <2> QED BY <2>1, <2>2
<1>6. CASE RecvError \/ SeeShutdown \/ OpenFile \/ FillFile \/ IoError
  BY <1>4, <1>6
  DEF RecvError, SeeShutdown, OpenFile, FillFile, IoError, Finish, networkVars
<1> QED BY <1>1, <1>2, <1>3, <1>5, <1>6 DEF Server

\* The windows the client can still send, one for each answer in flight and one
\* for each expiry of its own timer, weigh more than their packets; the rest is
\* one step each.
ClientMay == Bit(clientPhase \in {"request", "send"})
Windows   == Cardinality(toClient) + (MaxResends - resends)
Others    == Cardinality(toServer) + (MaxLosses - losses)
             + Bit(~shutdown) + Bit(file = "absent") + 2 * ClientMay
Flight    == Windows * (WindowSize + 1) + Others
Work      == Fuel * (WindowSize + 2) + Flight

LEMMA FiniteChannels == IInv => IsFiniteSet(toClient) /\ IsFiniteSet(toServer)
<1> SUFFICES ASSUME IInv PROVE IsFiniteSet(toClient) /\ IsFiniteSet(toServer)
  OBVIOUS
<1>0. /\ expected - 1 \in Int /\ ClientWindowEnd(clientBase) \in Int
  BY ClientWindowFacts, TotalFacts, LocalFacts DEF IInv, ScalarsInv
<1> DEFINE A == {Ack(n) : n \in 0 .. (expected - 1)}
           D == {Data(n) : n \in 1 .. ClientWindowEnd(clientBase)}
<1>1. IsFiniteSet(A)
  <2>1. [n \in 0 .. (expected - 1) |-> Ack(n)] \in Surjection(0 .. (expected - 1), A)
    BY DEF Surjection
  <2> QED BY <1>0, <2>1, FS_Surjection, FS_Interval
<1>2. IsFiniteSet(D)
  <2>1. [n \in 1 .. ClientWindowEnd(clientBase) |-> Data(n)]
          \in Surjection(1 .. ClientWindowEnd(clientBase), D)
    BY DEF Surjection
  <2> QED BY <1>0, <2>1, FS_Surjection, FS_Interval
<1>3. toClient \subseteq (A \cup {Oack}) \cup {Error} /\ toServer \subseteq D \cup {Error}
  BY DEF IInv, PacketsInv
<1> HIDE DEF A, D
<1>4. IsFiniteSet((A \cup {Oack}) \cup {Error}) /\ IsFiniteSet(D \cup {Error})
  BY <1>1, <1>2, FS_AddElement
<1> QED BY <1>3, <1>4, FS_Subset

\* A window is at most WindowSize packets.
LEMMA WindowPackets ==
  ASSUME IInv, NEW b \in 1 .. (Total + 1), ClientSend(b)
  PROVE  Cardinality(toServer') <= Cardinality(toServer) + WindowSize
<1> DEFINE e == ClientWindowEnd(b)
           D == {Data(n) : n \in b .. e}
<1>0. b \in Int /\ e \in Int /\ e <= b + WindowSize - 1
  BY ClientWindowFacts, TotalFacts
<1>1. IsFiniteSet(D) /\ Cardinality(D) <= WindowSize
  <2>1. [n \in b .. e |-> Data(n)] \in Surjection(b .. e, D)
    BY DEF Surjection
  <2> HIDE DEF e
  <2>2. IsFiniteSet(b .. e) /\ Cardinality(b .. e) = IF b > e THEN 0 ELSE e - b + 1
    BY <1>0, FS_Interval
  <2>3. IsFiniteSet(D) /\ Cardinality(D) <= Cardinality(b .. e) /\ Cardinality(D) \in Nat
    BY <2>1, <2>2, FS_Surjection, FS_CardinalityType
  <2> QED BY <1>0, <2>2, <2>3, BoundFacts
<1>2. toServer' = toServer \cup D
  BY DEF ClientSend
<1> HIDE DEF D
<1>3. /\ IsFiniteSet(toServer') /\ IsFiniteSet(toServer \cap D) /\ IsFiniteSet(toServer)
      /\ Cardinality(toServer')
           = Cardinality(toServer) + Cardinality(D) - Cardinality(toServer \cap D)
  BY <1>1, <1>2, FiniteChannels, FS_Union, FS_Intersection
<1>4. /\ Cardinality(toServer) \in Nat /\ Cardinality(D) \in Nat
      /\ Cardinality(toServer \cap D) \in Nat /\ Cardinality(toServer') \in Nat
  BY <1>1, <1>3, FS_CardinalityType
<1> QED BY <1>1, <1>3, <1>4, BoundFacts

LEMMA FlightParts ==
  IInv => /\ IsFiniteSet(toClient) /\ IsFiniteSet(toServer)
          /\ Cardinality(toClient) \in Nat /\ Cardinality(toServer) \in Nat
          /\ resends \in 0 .. MaxResends /\ losses \in 0 .. MaxLosses
          /\ Bit(~shutdown) \in 0 .. 1 /\ Bit(file = "absent") \in 0 .. 1 /\ ClientMay \in 0 .. 1
          /\ Windows \in Nat /\ Others \in Nat
<1> SUFFICES ASSUME IInv
             PROVE  /\ IsFiniteSet(toClient) /\ IsFiniteSet(toServer)
                    /\ Cardinality(toClient) \in Nat /\ Cardinality(toServer) \in Nat
                    /\ resends \in 0 .. MaxResends /\ losses \in 0 .. MaxLosses
                    /\ Bit(~shutdown) \in 0 .. 1 /\ Bit(file = "absent") \in 0 .. 1
                    /\ ClientMay \in 0 .. 1
                    /\ Windows \in Nat /\ Others \in Nat
  OBVIOUS
<1>1. IsFiniteSet(toClient) /\ IsFiniteSet(toServer)
  BY FiniteChannels
<1>2. Cardinality(toClient) \in Nat /\ Cardinality(toServer) \in Nat
  BY <1>1, FS_CardinalityType
<1>3. /\ Bit(~shutdown) \in 0 .. 1 /\ Bit(file = "absent") \in 0 .. 1 /\ ClientMay \in 0 .. 1
  BY DEF Bit, ClientMay
<1>4. resends \in 0 .. MaxResends /\ losses \in 0 .. MaxLosses
  BY DEF IInv, ScalarsInv
<1>5. Windows \in Nat /\ Others \in Nat
  BY <1>2, <1>3, <1>4, BoundFacts DEF Windows, Others
<1> QED BY <1>1, <1>2, <1>3, <1>4, <1>5

LEMMA FlightPartsNext ==
  IInv' =>
    (/\ IsFiniteSet(toClient) /\ IsFiniteSet(toServer)
     /\ Cardinality(toClient) \in Nat /\ Cardinality(toServer) \in Nat
     /\ resends \in 0 .. MaxResends /\ losses \in 0 .. MaxLosses
     /\ Bit(~shutdown) \in 0 .. 1 /\ Bit(file = "absent") \in 0 .. 1 /\ ClientMay \in 0 .. 1
     /\ Windows \in Nat /\ Others \in Nat)'
BY FlightParts, PTL

\* Without duplication a packet is delivered once.
LEMMA DeliverTakes ==
  ASSUME "duplicate" \notin Faults, NEW C, NEW D, NEW m, Deliver(C, m, D)
  PROVE  Takes(C, D)
BY DEF Deliver, Takes

\* Fewer windows weigh more than what they bring, else something else is used up.
LEMMA FlightFalls ==
  ASSUME IInv, IInv',
         \/ Windows' < Windows /\ Others' <= Others + WindowSize
         \/ Windows' = Windows /\ Others' < Others
  PROVE  Flight' < Flight
<1>1. /\ WindowSize + 1 \in Nat /\ Windows \in Nat /\ Windows' \in Nat
      /\ Others \in Nat /\ Others' \in Nat
  BY FlightParts, FlightPartsNext, BoundFacts
<1>2. \/ Windows' < Windows /\ Others' < Others + (WindowSize + 1)
      \/ Windows' = Windows /\ Others' < Others
  BY <1>1, BoundFacts
<1> QED BY <1>1, <1>2, Weighing DEF Flight

LEMMA FlightType ==
  IInv => Flight \in Nat
<1> SUFFICES ASSUME IInv PROVE Flight \in Nat
  OBVIOUS
<1>1. WindowSize + 1 \in Nat /\ Windows \in Nat /\ Windows + 1 \in Nat /\ Windows < Windows + 1
      /\ Others \in Nat
  BY FlightParts, BoundFacts
<1>2. Windows * (WindowSize + 1) \in Nat
  BY <1>1, MulStep
<1> QED BY <1>1, <1>2 DEF Flight

LEMMA FlightTypeNext == IInv' => (Flight \in Nat)'
BY FlightType, PTL

\* A step of the server sends one packet at most, and takes a received one away.
LEMMA ServerFlight ==
  ASSUME IInv, IInv', "duplicate" \notin Faults, Server
  PROVE  /\ Windows' <= Windows + 1 /\ Others' <= Others
         /\ OnlyBuffers => Windows' = Windows /\ Others' < Others
<1>1. UNCHANGED <<resends, losses, shutdown, clientPhase>>
  BY DEF Server, Request, Open, RecvData, Timeout, RecvError, SeeShutdown, OpenFile, FillFile,
         IoError, networkVars, clientVars
<1>2. file' = "absent" => file = "absent"
  BY DEF Server, Request, Open, RecvData, Timeout, RecvError, SeeShutdown, OpenFile, FillFile,
         IoError
<1>3. RecvData => Takes(toServer, toServer')
  BY DeliverTakes DEF RecvData
<1>4. toServer' = toServer \/ Takes(toServer, toServer')
  <2>1. CASE RecvError
    BY <2>1 DEF RecvError, Takes
  <2> QED
    BY <1>3, <2>1
    DEF Server, Request, Open, Timeout, SeeShutdown, OpenFile, FillFile, IoError, networkVars
<1>5. Puts(toClient, toClient')
  <2>1. CASE RecvData
    <3>1. CASE IgnoreBlock
      BY <3>1 DEF IgnoreBlock, Puts
    <3>2. CASE \E n \in 1 .. Total : TakeBlock(n, n)
      BY <3>2 DEF TakeBlock, Send, Puts
    <3> QED BY <2>1, <3>1, <3>2, RecvDataCases
  <2> QED
    BY <2>1
    DEF Server, Request, Open, Timeout, RecvError, SeeShutdown, OpenFile, FillFile, IoError,
        ReAck, Send, networkVars, Puts
<1>6. ClientMay' = ClientMay /\ Bit(~shutdown)' = Bit(~shutdown)
  BY <1>1 DEF ClientMay, Bit
<1>7. Bit(file = "absent")' <= Bit(file = "absent")
  BY <1>2 DEF Bit
<1>8. Cardinality(toServer') <= Cardinality(toServer)
  BY <1>4, FlightParts, TakesOne
<1>9. RecvData => Cardinality(toServer') < Cardinality(toServer)
  BY <1>3, FlightParts, TakesOne
<1>10. Cardinality(toClient') <= Cardinality(toClient) + 1
  BY <1>5, FlightParts, PutsOne
<1>11. Windows' <= Windows + 1 /\ Others' <= Others
  BY <1>1, <1>6, <1>7, <1>8, <1>10, FlightParts, FlightPartsNext, BoundFacts
  DEF Windows, Others
<1>12. ASSUME OnlyBuffers PROVE Windows' = Windows /\ Others' < Others
  <2>1. toClient' = toClient /\ Cardinality(toServer') < Cardinality(toServer)
    BY <1>9, <1>12 DEF OnlyBuffers
  <2> QED
    BY <1>1, <1>6, <1>7, <2>1, FlightParts, FlightPartsNext, BoundFacts DEF Windows, Others
<1> QED BY <1>11, <1>12

\* A step of anybody else takes something out of flight, or makes use of one of
\* the occasions the client, the network, the shutdown and the other writer have.
LEMMA OtherFlight ==
  ASSUME IInv, IInv', "duplicate" \notin Faults,
         Client \/ Lose \/ CancelShutdown \/ OtherWriter
  PROVE  Flight' < Flight
<1>0. /\ shutdown \in BOOLEAN /\ clientPhase \in {"request", "send", "done", "gone"}
      /\ clientBase \in 1 .. (Total + 1)
  BY DEF IInv, ScalarsInv
<1>1. ASSUME Takes(toClient, toClient'), UNCHANGED <<resends, losses, shutdown, file>>,
             Cardinality(toServer') <= Cardinality(toServer) + WindowSize,
             clientPhase' \in {"request", "send"} => clientPhase \in {"request", "send"}
      PROVE  Flight' < Flight
  <2>1. /\ ClientMay' <= ClientMay /\ Bit(~shutdown)' = Bit(~shutdown)
        /\ Bit(file = "absent")' = Bit(file = "absent")
    BY <1>1 DEF ClientMay, Bit
  <2>2. Cardinality(toClient') = Cardinality(toClient) - 1
    BY <1>1, FlightParts, TakesOne
  <2>3. Windows' < Windows /\ Others' <= Others + WindowSize
    BY <1>1, <2>1, <2>2, FlightParts, FlightPartsNext, BoundFacts DEF Windows, Others
  <2> QED BY <2>3, FlightFalls
<1>2. ASSUME toServer' = toServer
      PROVE  Cardinality(toServer') <= Cardinality(toServer) + WindowSize
  BY <1>2, FlightParts, BoundFacts
<1>3. CASE ClientBegin
  <2>1. /\ Takes(toClient, toClient') /\ UNCHANGED <<resends, losses, shutdown, file>>
        /\ clientPhase' \in {"request", "send"} => clientPhase \in {"request", "send"}
        /\ toServer' = toServer \/ ClientSend(1)
    BY <1>3, DeliverTakes DEF ClientBegin
  <2>2. 1 \in 1 .. (Total + 1)
    BY TotalFacts
  <2> QED BY <1>1, <1>2, <2>1, <2>2, WindowPackets
<1>4. CASE ClientRecvAck
  <2>1. Takes(toClient, toClient') /\ UNCHANGED <<resends, losses, shutdown, file>>
    BY <1>4, DeliverTakes DEF ClientRecvAck
  <2>2. CASE UNCHANGED <<clientPhase, toServer>>
    BY <1>1, <1>2, <2>1, <2>2
  <2>3. CASE ClientSend(clientBase) /\ UNCHANGED clientPhase
    BY <1>0, <1>1, <2>1, <2>3, WindowPackets
  <2>4. CASE clientPhase = "send" /\ \E n \in 1 .. Total : ClientAdvance(n)
    <3> PICK n \in 1 .. Total : ClientAdvance(n)
      BY <2>4
    <3>1. toServer' = toServer \/ ClientSend(n + 1)
      BY DEF ClientAdvance
    <3>2. n + 1 \in 1 .. (Total + 1)
      BY TotalFacts
    <3> QED BY <1>1, <1>2, <2>1, <2>4, <3>1, <3>2, WindowPackets
  <2> QED BY <1>4, <2>2, <2>3, <2>4, ClientAckCases
<1>5. CASE ClientRecvError
  <2>1. /\ Takes(toClient, toClient') /\ UNCHANGED <<resends, losses, shutdown, file, toServer>>
        /\ clientPhase' \in {"done", "gone"}
    BY <1>5, DeliverTakes DEF ClientRecvError
  <2> QED BY <1>1, <1>2, <2>1
<1>6. CASE ClientTimeout
  <2>1. CASE resends < MaxResends
    <3>1. /\ UNCHANGED <<toClient, losses, shutdown, file, clientPhase>>
          /\ resends' = resends + 1 /\ ClientSend(clientBase)
      BY <1>6, <2>1 DEF ClientTimeout
    <3>2. /\ ClientMay' = ClientMay /\ Bit(~shutdown)' = Bit(~shutdown)
          /\ Bit(file = "absent")' = Bit(file = "absent")
      BY <3>1 DEF ClientMay, Bit
    <3>3. Cardinality(toServer') <= Cardinality(toServer) + WindowSize
      BY <1>0, <3>1, WindowPackets
    <3>4. Windows' < Windows /\ Others' <= Others + WindowSize
      BY <3>1, <3>2, <3>3, FlightParts, FlightPartsNext, BoundFacts DEF Windows, Others
    <3> QED BY <3>4, FlightFalls
  <2>2. CASE ~(resends < MaxResends)
    <3>1. /\ UNCHANGED <<toClient, toServer, resends, losses, shutdown, file>>
          /\ clientPhase = "send" /\ clientPhase' = "gone"
      BY <1>6, <2>2 DEF ClientTimeout
    <3>2. /\ ClientMay' = 0 /\ ClientMay = 1 /\ Bit(~shutdown)' = Bit(~shutdown)
          /\ Bit(file = "absent")' = Bit(file = "absent")
      BY <3>1 DEF ClientMay, Bit
    <3>3. Windows' = Windows /\ Others' < Others
      BY <3>1, <3>2, FlightParts, FlightPartsNext, BoundFacts DEF Windows, Others
    <3> QED BY <3>3, FlightFalls
  <2> QED BY <2>1, <2>2
<1>7. CASE ClientAbort
  <2>1. /\ UNCHANGED <<toClient, resends, losses, shutdown, file>> /\ Puts(toServer, toServer')
        /\ clientPhase = "send" /\ clientPhase' = "gone"
    BY <1>7 DEF ClientAbort, Puts
  <2>2. /\ ClientMay' = 0 /\ ClientMay = 1 /\ Bit(~shutdown)' = Bit(~shutdown)
        /\ Bit(file = "absent")' = Bit(file = "absent")
    BY <2>1 DEF ClientMay, Bit
  <2>3. Cardinality(toServer') <= Cardinality(toServer) + 1
    BY <2>1, FlightParts, PutsOne
  <2>4. Windows' = Windows /\ Others' < Others
    BY <2>1, <2>2, <2>3, FlightParts, FlightPartsNext, BoundFacts DEF Windows, Others
  <2> QED BY <2>4, FlightFalls
<1>8. CASE Lose
  <2>1. /\ UNCHANGED <<resends, shutdown, file, clientPhase>> /\ losses' = losses + 1
        /\ toClient' = toClient \/ Takes(toClient, toClient')
        /\ toServer' = toServer \/ Takes(toServer, toServer')
    BY <1>8 DEF Lose, Takes, clientVars
  <2>2. /\ ClientMay' = ClientMay /\ Bit(~shutdown)' = Bit(~shutdown)
        /\ Bit(file = "absent")' = Bit(file = "absent")
    BY <2>1 DEF ClientMay, Bit
  <2>3. /\ Cardinality(toClient') <= Cardinality(toClient)
        /\ Cardinality(toServer') <= Cardinality(toServer)
    BY <2>1, FlightParts, TakesOne
  <2>4. Windows' <= Windows /\ Others' < Others
    BY <2>1, <2>2, <2>3, FlightParts, FlightPartsNext, BoundFacts DEF Windows, Others
  <2>5. \/ Windows' < Windows /\ Others' <= Others + WindowSize
        \/ Windows' = Windows /\ Others' < Others
    BY <2>4, FlightParts, FlightPartsNext, BoundFacts
  <2> QED BY <2>5, FlightFalls
<1>9. CASE CancelShutdown \/ OtherWriter
  <2>1. UNCHANGED <<toClient, toServer, resends, losses, clientPhase>>
    BY <1>9 DEF CancelShutdown, OtherWriter, networkVars, clientVars
  <2>2. \/ ~shutdown /\ shutdown' /\ file' = file
        \/ file = "absent" /\ file' = "foreign" /\ shutdown' = shutdown
    BY <1>9 DEF CancelShutdown, OtherWriter
  <2>3. /\ ClientMay' = ClientMay
        /\ \/ Bit(~shutdown) = 1 /\ Bit(~shutdown)' = 0
              /\ Bit(file = "absent")' = Bit(file = "absent")
           \/ Bit(file = "absent") = 1 /\ Bit(file = "absent")' = 0
              /\ Bit(~shutdown)' = Bit(~shutdown)
    BY <2>1, <2>2 DEF ClientMay, Bit
  <2>4. Windows' = Windows /\ Others' < Others
    BY <2>1, <2>3, FlightParts, FlightPartsNext, BoundFacts DEF Windows, Others
  <2> QED BY <2>4, FlightFalls
<1> QED BY <1>3, <1>4, <1>5, <1>6, <1>7, <1>8, <1>9 DEF Client

\* What the session has acknowledged, appended and decided: everything it
\* keeps but the blocks in window_buf
Progress == <<phase, expected, windowEnd, retries, received>>

\* The other steps leave the server alone and send nothing to the client.
LEMMA OtherSteps ==
  ASSUME [Next]_vars, ~Server
  PROVE  UNCHANGED Progress /\ toClient' \subseteq toClient
BY DEF Next, Client, ClientBegin, ClientRecvAck, ClientTimeout, ClientRecvError, ClientAbort,
       Lose, CancelShutdown, OtherWriter, Deliver, vars, serverVars, networkVars, Progress

LEMMA UnmovedServer ==
  ASSUME UNCHANGED Progress PROVE SendsLeft' = SendsLeft /\ TurnsLeft' = TurnsLeft
BY DEF Progress, SendsLeft, TurnsLeft

LEMMA SumFalls ==
  ASSUME NEW s \in Nat, NEW t \in Nat, NEW u \in Nat, NEW v \in Nat,
         u <= s, v <= t, u < s \/ v < t
  PROVE  u + v < s + t
OBVIOUS

\* A window and a packet more
LEMMA OneWindow ==
  ASSUME NEW p \in Nat, NEW q \in Nat, NEW x \in Nat, NEW y \in Nat, NEW w \in Nat,
         q <= p + 1, y <= x
  PROVE  q * (w + 1) + y < (p * (w + 1) + x) + (w + 2)
<1>1. q < p + 2 /\ p + 2 \in Nat /\ w + 1 \in Nat
  OBVIOUS
<1>2. q * (w + 1) + (w + 1) <= (p + 2) * (w + 1) /\ q * (w + 1) \in Nat
  BY <1>1, MulStep
<1>3. (p + 2) * (w + 1) = p * (w + 1) + 2 * (w + 1) /\ p * (w + 1) \in Nat
  OBVIOUS
<1> QED BY <1>2, <1>3

LEMMA FuelType == IInv => Fuel \in Nat
BY LeftType DEF Fuel

LEMMA FuelTypeNext == IInv' => (Fuel \in Nat)'
BY FuelType, PTL

LEMMA FuelStep ==
  ASSUME IInv, IInv', [Next]_vars
  PROVE  /\ Fuel \in Nat /\ Fuel' \in Nat /\ (UNCHANGED Progress \/ Fuel' < Fuel)
         /\ SendsLeft' <= SendsLeft
         /\ toClient' \subseteq toClient \/ SendsLeft' < SendsLeft
<1>1. /\ SendsLeft \in Nat /\ TurnsLeft \in Nat /\ SendsLeft' \in Nat /\ TurnsLeft' \in Nat
  BY LeftType, LeftTypeNext
<1>2. Fuel \in Nat /\ Fuel' \in Nat
  BY FuelType, FuelTypeNext
<1>3. CASE ServerPays
  <2>1. Fuel' < Fuel
    BY <1>1, <1>3, SumFalls DEF ServerPays, Fuel
  <2>2. /\ SendsLeft' <= SendsLeft
        /\ toClient' \subseteq toClient \/ SendsLeft' < SendsLeft
    BY <1>3 DEF ServerPays
  <2> QED BY <1>2, <2>1, <2>2
<1>4. CASE UNCHANGED Progress /\ toClient' \subseteq toClient
  <2>1. SendsLeft' <= SendsLeft
    <3>1. SendsLeft' = SendsLeft
      BY <1>4, UnmovedServer
    <3> QED BY <1>1, <3>1
  <2> QED BY <1>2, <1>4, <2>1
<1>5. OnlyBuffers => UNCHANGED Progress /\ toClient' \subseteq toClient
  BY DEF OnlyBuffers, Progress
<1> QED BY <1>3, <1>4, <1>5, ServerSteps, OtherSteps

\* A transmission or a turn outweighs the window it may bring about.
LEMMA WorkStep ==
  ASSUME IInv, IInv', "duplicate" \notin Faults, Next
  PROVE  Work' < Work
<1>0. /\ WindowSize + 2 \in Nat /\ WindowSize + 1 \in Nat
      /\ Fuel \in Nat /\ Fuel' \in Nat /\ Flight \in Nat /\ Flight' \in Nat
  BY FuelStep, FlightType, FlightTypeNext, BoundFacts
<1>1. ASSUME \/ Fuel' < Fuel /\ Flight' < Flight + (WindowSize + 2)
             \/ Fuel' = Fuel /\ Flight' < Flight
      PROVE  Work' < Work
  BY <1>0, <1>1, Weighing DEF Work
<1>2. ASSUME UNCHANGED Progress, Flight' < Flight PROVE Work' < Work
  <2>1. Fuel' = Fuel
    BY <1>2, UnmovedServer DEF Fuel
  <2> QED BY <1>1, <1>2, <2>1
<1>3. CASE Server
  <2>1. CASE ServerPays
    <3>1. Fuel' < Fuel
      <4>1. /\ SendsLeft \in Nat /\ TurnsLeft \in Nat /\ SendsLeft' \in Nat /\ TurnsLeft' \in Nat
        BY LeftType, LeftTypeNext
      <4> QED BY <2>1, <4>1, SumFalls DEF ServerPays, Fuel
    <3>2. /\ Windows \in Nat /\ Windows' \in Nat /\ Others \in Nat /\ Others' \in Nat
          /\ Windows' <= Windows + 1 /\ Others' <= Others
      BY <1>3, FlightParts, FlightPartsNext, ServerFlight
    <3>3. Flight' < Flight + (WindowSize + 2)
      BY <3>2, OneWindow, BoundFacts DEF Flight
    <3> QED BY <1>1, <3>1, <3>3
  <2>2. CASE OnlyBuffers
    <3>1. UNCHANGED Progress
      BY <2>2 DEF OnlyBuffers, Progress
    <3>2. Flight' < Flight
      BY <1>3, <2>2, ServerFlight, FlightFalls
    <3> QED BY <1>2, <3>1, <3>2
  <2> QED BY <1>3, <2>1, <2>2, ServerSteps
<1>4. CASE Client \/ Lose \/ CancelShutdown \/ OtherWriter
  <2>1. UNCHANGED Progress
    BY <1>4
    DEF Client, ClientBegin, ClientRecvAck, ClientTimeout, ClientRecvError, ClientAbort,
        Lose, CancelShutdown, OtherWriter, serverVars, Progress
  <2> QED BY <1>2, <1>4, <2>1, OtherFlight
<1> QED BY <1>3, <1>4 DEF Next

-----------------------------------------------------------------------------
(***************************************************************************)
(* The lifetime of packets                                                 *)
(***************************************************************************)

\* Less than a full turn behind the end of the client's window
YoungAck(n) == n + WireMod > ClientWindowEnd(clientBase)

\* No packet in flight is too old to be delivered.
NothingDead ==
  /\ \A n \in 1 .. Total : Data(n) \in toServer => n + WireMod > windowEnd
  /\ \A n \in 1 .. Total : Ack(n) \in toClient => YoungAck(n)

\* The numbers that two windows keep close together
LEMMA Close ==
  IInv => /\ expected \in 1 .. (Total + 1) /\ clientBase \in 1 .. (Total + 1)
          /\ windowEnd \in Nat /\ windowEnd <= expected + WindowSize - 1
          /\ clientBase <= expected /\ expected <= clientBase + WindowSize
          /\ ClientWindowEnd(clientBase) \in 0 .. Total
          /\ ClientWindowEnd(clientBase) <= clientBase + WindowSize - 1
          /\ Total \in Nat /\ Total >= 1
          /\ WindowSize \in Nat /\ WindowSize >= 1 /\ WireMod \in Nat
          /\ 2 * WindowSize < WireMod
          /\ toClient \subseteq {Oack, Error} \cup {Ack(n) : n \in 0 .. (expected - 1)}
          /\ toServer \subseteq {Error} \cup {Data(n) : n \in 1 .. Total}
<1> SUFFICES ASSUME IInv
             PROVE  /\ expected \in 1 .. (Total + 1) /\ clientBase \in 1 .. (Total + 1)
                    /\ windowEnd \in Nat /\ windowEnd <= expected + WindowSize - 1
                    /\ clientBase <= expected /\ expected <= clientBase + WindowSize
                    /\ ClientWindowEnd(clientBase) \in 0 .. Total
                    /\ ClientWindowEnd(clientBase) <= clientBase + WindowSize - 1
                    /\ Total \in Nat /\ Total >= 1
                    /\ WindowSize \in Nat /\ WindowSize >= 1 /\ WireMod \in Nat
                    /\ 2 * WindowSize < WireMod
                    /\ toClient \subseteq {Oack, Error} \cup {Ack(n) : n \in 0 .. (expected - 1)}
                    /\ toServer \subseteq {Error} \cup {Data(n) : n \in 1 .. Total}
  OBVIOUS
<1>1. /\ expected \in 1 .. (Total + 1) /\ clientBase \in 1 .. (Total + 1)
      /\ windowEnd \in Nat /\ windowEnd <= expected + WindowSize - 1
      /\ clientBase <= expected /\ expected <= ClientWindowEnd(clientBase) + 1
  BY DEF IInv, BufferInv, ScalarsInv, PacketsInv, AckedIsReceived
<1>2. /\ ClientWindowEnd(clientBase) \in 0 .. Total
      /\ ClientWindowEnd(clientBase) <= clientBase + WindowSize - 1
  BY <1>1, ClientWindowFacts
<1>3. /\ toClient \subseteq {Oack, Error} \cup {Ack(n) : n \in 0 .. (expected - 1)}
      /\ toServer \subseteq {Error} \cup {Data(n) : n \in 1 .. Total}
  BY <1>2, TotalFacts DEF IInv, PacketsInv
<1>4. 2 * WindowSize < WireMod
  BY DEF IInv, HalfRange
<1> QED BY <1>1, <1>2, <1>3, <1>4, TotalFacts, BoundFacts

\* DATA stays young while the window stands still: the client sends its window.
LEMMA OldData ==
  ASSUME IInv, NothingDead, windowEnd' = windowEnd,
         \A p \in toServer' : \/ p \in toServer \/ p = Error
                              \/ \E n \in 1 .. Total : n >= clientBase /\ p = Data(n)
  PROVE  \A n \in 1 .. Total : Data(n) \in toServer' => n + WireMod > windowEnd'
<1> SUFFICES ASSUME NEW n \in 1 .. Total, Data(n) \in toServer'
             PROVE  n + WireMod > windowEnd'
  OBVIOUS
<1>1. CASE Data(n) \in toServer
  BY <1>1 DEF NothingDead
<1>2. CASE n >= clientBase
  BY <1>2, Close
<1>3. Data(n) # Error /\ \A k : Data(n) = Data(k) => n = k
  BY DEF Data, Error
<1> QED BY <1>1, <1>2, <1>3

\* An ACK stays alive while the client stands still: what is sent is of now.
LEMMA OldAcks ==
  ASSUME IInv, NothingDead, clientBase' = clientBase,
         \A p \in toClient' : \/ p \in toClient \/ p \in {Oack, Error}
                              \/ \E n \in 0 .. Total : n + 1 >= expected /\ p = Ack(n)
  PROVE  \A n \in 1 .. Total : Ack(n) \in toClient' => YoungAck(n)'
<1> SUFFICES ASSUME NEW n \in 1 .. Total, Ack(n) \in toClient'
             PROVE  n + WireMod > ClientWindowEnd(clientBase)
  BY DEF YoungAck, ClientWindowEnd
<1>1. CASE Ack(n) \in toClient
  BY <1>1 DEF NothingDead, YoungAck
<1>2. CASE n + 1 >= expected
  BY <1>2, Close
<1>3. Ack(n) # Error /\ Ack(n) # Oack /\ \A k : Ack(n) = Ack(k) => n = k
  BY DEF Ack, Error, Oack
<1> QED BY <1>1, <1>2, <1>3

\* The window moves only when the oldest block in flight is one of it.
LEMMA OldestData ==
  ASSUME IInv, NothingDead, "reorder" \notin Faults, RecvData
  PROVE  NothingDead'
<1> PICK m \in toServer :
      /\ m.type = "DATA" /\ DataAlive(m.n)
      /\ Deliver(toServer, m, toServer')
      /\ LET abs == BlockToAbsolute(WireBlock(m.n), expected)
         IN  IF DataInWindow(abs) THEN TakeBlock(abs, m.n) ELSE IgnoreBlock
  BY DEF RecvData
<1> DEFINE abs == BlockToAbsolute(WireBlock(m.n), expected)
<1>0. phase = "receive" /\ clientBase' = clientBase
  BY DEF RecvData, clientVars
<1>1. toServer' \subseteq toServer /\ \A n \in 1 .. Total : Data(n) \in toServer => m.n <= n
  BY DEF Deliver, Data
<1>2. m.n \in 1 .. Total /\ m.n <= ClientWindowEnd(clientBase)
  <2>1. m \in {Data(n) : n \in 1 .. ClientWindowEnd(clientBase)}
    BY DEF IInv, PacketsInv, Error
  <2> QED BY <2>1, Close DEF Data
<1>3. CASE ~DataInWindow(abs)
  <2>1. windowEnd' = windowEnd /\ toClient' = toClient
    BY <1>3 DEF IgnoreBlock, serverVars
  <2>2. \A n \in 1 .. Total : Data(n) \in toServer' => n + WireMod > windowEnd'
    BY <1>1, <2>1, OldData
  <2>3. \A n \in 1 .. Total : Ack(n) \in toClient' => YoungAck(n)'
    BY <1>0, <2>1, OldAcks
  <2> QED BY <2>2, <2>3 DEF NothingDead
<1>4. CASE DataInWindow(abs)
  <2>1. abs = m.n /\ m.n \in expected .. windowEnd
    BY <1>2, <1>4, DataIsExact
  <2>2. TakeBlock(m.n, m.n)
    BY <1>4, <2>1
  <2>3. PICK k \in expected .. (Total + 1) :
          /\ k <= windowEnd + 1
          /\ \/ Send(Error) /\ UNCHANGED windowEnd
             \/ Send(Ack(k - 1)) /\ UNCHANGED windowEnd
             \/ Send(Ack(k - 1)) /\ windowEnd' = k + WindowSize - 1
             \/ UNCHANGED <<windowEnd, toClient>>
    BY <1>0, <1>2, <2>1, <2>2, TakeFacts
  <2>4. \A n \in 1 .. Total : Ack(n) \in toClient' => YoungAck(n)'
    <3>1. k - 1 \in 0 .. Total /\ (k - 1) + 1 >= expected
      BY Close
    <3>2. \A p \in toClient' : \/ p \in toClient \/ p \in {Oack, Error}
                               \/ \E n \in 0 .. Total : n + 1 >= expected /\ p = Ack(n)
      BY <2>3, <3>1 DEF Send
    <3> QED BY <1>0, <3>2, OldAcks
  <2>5. ASSUME NEW n \in 1 .. Total, Data(n) \in toServer' PROVE n + WireMod > windowEnd'
    <3>1. CASE windowEnd' = windowEnd
      BY <1>1, <2>5, <3>1 DEF NothingDead
    <3>2. CASE windowEnd' = k + WindowSize - 1
      <4>1. m.n <= n /\ expected <= m.n /\ m.n \in Nat
        BY <1>1, <1>2, <2>1, <2>5, Close
      <4>2. k <= windowEnd + 1 /\ k \in Int
        BY <2>3, Close
      <4> QED BY <3>2, <4>1, <4>2, Close
    <3> QED BY <2>3, <3>1, <3>2
  <2> QED BY <2>4, <2>5 DEF NothingDead
<1> QED BY <1>3, <1>4

\* The client moves only when the oldest ACK in flight is read.
LEMMA OldestAck ==
  ASSUME IInv, NothingDead, "reorder" \notin Faults, ClientRecvAck
  PROVE  NothingDead'
<1> PICK m \in toClient :
      /\ m.type = "ACK" /\ m.n > 0 /\ AckAlive(m.n)
      /\ Deliver(toClient, m, toClient')
      /\ LET abs == BlockToAbsolute(WireBlock(m.n), clientBase)
             new == clientPhase = "send" /\ abs <= ClientWindowEnd(clientBase)
         IN  \/ new /\ ClientAdvance(abs)
             \/ ~new /\ UNCHANGED <<clientPhase, clientBase, toServer>>
             \/ /\ clientPhase = "send" /\ WireBlock(m.n) = WireBlock(clientBase - 1)
                /\ ClientSend(clientBase)
                /\ UNCHANGED <<clientPhase, clientBase>>
  BY DEF ClientRecvAck
<1> DEFINE abs == BlockToAbsolute(WireBlock(m.n), clientBase)
<1>0. windowEnd' = windowEnd
  BY DEF ClientRecvAck, serverVars
<1>1. toClient' \subseteq toClient /\ \A n \in 1 .. Total : Ack(n) \in toClient => m.n <= n
  BY DEF Deliver, Ack
<1>2. m.n \in 1 .. Total /\ m.n < expected
  <2>1. m \in {Ack(n) : n \in 0 .. (expected - 1)}
    BY Close DEF Error, Oack
  <2> QED BY <2>1, Close DEF Ack
<1>3. CASE UNCHANGED clientBase /\ (UNCHANGED toServer \/ ClientSend(clientBase))
  <2>1. \A p \in toServer' : \/ p \in toServer \/ p = Error
                             \/ \E n \in 1 .. Total : n >= clientBase /\ p = Data(n)
    <3>1. \A n \in clientBase .. ClientWindowEnd(clientBase) : n \in 1 .. Total /\ n >= clientBase
      BY Close
    <3> QED BY <1>3, <3>1 DEF ClientSend
  <2> QED BY <1>0, <1>1, <1>3, <2>1, OldData, OldAcks DEF NothingDead
<1>4. CASE clientPhase = "send" /\ abs <= ClientWindowEnd(clientBase) /\ ClientAdvance(abs)
  <2>1. abs = m.n /\ clientBase <= m.n
    BY <1>2, <1>4, AckIsExact
  <2>2. clientBase' = m.n + 1 /\ m.n + 1 \in 1 .. (Total + 1)
    BY <1>2, <1>4, <2>1, Close DEF ClientAdvance
  <2>3. ClientWindowEnd(m.n + 1) \in 0 .. Total /\ ClientWindowEnd(m.n + 1) <= m.n + WindowSize
    <3>1. /\ ClientWindowEnd(m.n + 1) \in 0 .. Total
          /\ ClientWindowEnd(m.n + 1) <= m.n + 1 + WindowSize - 1
      BY <2>2, ClientWindowFacts
    <3> QED BY <1>2, <3>1, Close
  <2>4. \A p \in toServer' : \/ p \in toServer \/ p = Error
                             \/ \E n \in 1 .. Total : n >= clientBase /\ p = Data(n)
    <3>1. \A n \in (m.n + 1) .. ClientWindowEnd(m.n + 1) : n \in 1 .. Total /\ n >= clientBase
      BY <1>2, <2>1, <2>3, Close
    <3> QED BY <1>4, <2>1, <3>1 DEF ClientAdvance, ClientSend
  <2>5. ASSUME NEW n \in 1 .. Total, Ack(n) \in toClient' PROVE YoungAck(n)'
    <3>1. m.n <= n
      BY <1>1, <2>5
    <3>2. n + WireMod > ClientWindowEnd(m.n + 1)
      BY <1>2, <2>3, <3>1, Close
    <3> QED BY <2>2, <3>2 DEF YoungAck, ClientWindowEnd
  <2> QED BY <1>0, <2>4, <2>5, OldData DEF NothingDead
<1> QED BY <1>3, <1>4

\* A client that has not begun waits for its first block's acknowledgement.
Unmoved == clientPhase = "request" => clientBase = 1

LEMMA UnmovedNext == ASSUME Unmoved, [Next]_vars PROVE Unmoved'
<1> USE DEF Unmoved, clientVars
<1>1. CASE Server
  <2>1. CASE RecvData
    BY <2>1 DEF RecvData
  <2> QED
    BY <1>1, <2>1
    DEF Server, Request, Open, Timeout, RecvError, SeeShutdown, OpenFile, FillFile, IoError
<1>2. CASE Client
  BY <1>2
  DEF Client, ClientBegin, ClientRecvAck, ClientAdvance, ClientTimeout, ClientRecvError, ClientAbort
<1>3. CASE Lose \/ CancelShutdown \/ OtherWriter \/ UNCHANGED vars
  BY <1>3 DEF Lose, CancelShutdown, OtherWriter, vars
<1> QED BY <1>1, <1>2, <1>3 DEF Next

LEMMA DeadNext ==
  ASSUME IInv, Unmoved, NothingDead, "reorder" \notin Faults, [Next]_vars PROVE NothingDead'
<1> USE DEF serverVars, stateVars, networkVars, clientVars
<1>1. ASSUME windowEnd' = windowEnd, clientBase' = clientBase,
             \A p \in toServer' : \/ p \in toServer \/ p = Error
                                  \/ \E n \in 1 .. Total : n >= clientBase /\ p = Data(n),
             \A p \in toClient' : \/ p \in toClient \/ p \in {Oack, Error}
                                  \/ \E n \in 0 .. Total : n + 1 >= expected /\ p = Ack(n)
      PROVE  NothingDead'
  BY <1>1, OldData, OldAcks DEF NothingDead
<1>2. CASE Request \/ RecvError \/ SeeShutdown \/ OpenFile \/ FillFile \/ IoError
  BY <1>1, <1>2 DEF Request, RecvError, SeeShutdown, OpenFile, FillFile, IoError, Send
<1>3. CASE Open
  <2>1. expected = 1 /\ windowEnd' = WindowSize /\ UNCHANGED <<toServer, clientBase>>
    BY <1>3, Close DEF Open, IInv, PhaseInv
  <2>2. \A n \in 1 .. Total : Data(n) \in toServer' => n + WireMod > windowEnd'
    BY <2>1, Close
  <2>3. \A p \in toClient' : \/ p \in toClient \/ p \in {Oack, Error}
                             \/ \E n \in 0 .. Total : n + 1 >= expected /\ p = Ack(n)
    <3>1. 0 \in 0 .. Total /\ 0 + 1 >= expected
      BY <2>1, Close
    <3> QED BY <1>3, <3>1 DEF Open, Send
  <2> QED BY <2>1, <2>2, <2>3, OldAcks DEF NothingDead
<1>4. CASE Timeout
  <2>1. expected - 1 \in 0 .. Total /\ (expected - 1) + 1 >= expected
    BY Close
  <2> QED BY <1>1, <1>4, <2>1 DEF Timeout, ReAck, Send
<1>5. CASE ClientBegin \/ ClientTimeout
  <2>1. clientPhase = "request" => clientBase = 1
    BY DEF Unmoved
  <2>2. ASSUME NEW b \in {1, clientBase}, b >= clientBase, ClientSend(b)
        PROVE  \A p \in toServer' : \/ p \in toServer \/ p = Error
                                    \/ \E n \in 1 .. Total : n >= clientBase /\ p = Data(n)
    <3>1. b \in 1 .. (Total + 1) /\ ClientWindowEnd(b) \in 0 .. Total
      BY ClientWindowFacts, Close
    <3>2. \A n \in b .. ClientWindowEnd(b) : n \in 1 .. Total /\ n >= clientBase
      BY <2>2, <3>1, Close
    <3> QED BY <2>2, <3>2 DEF ClientSend
  <2> QED BY <1>1, <1>5, <2>1, <2>2, Close DEF ClientBegin, ClientTimeout, Deliver
<1>6. CASE ClientRecvError \/ ClientAbort
  BY <1>1, <1>6 DEF ClientRecvError, ClientAbort, Deliver
<1>7. CASE Lose \/ CancelShutdown \/ OtherWriter \/ UNCHANGED vars
  BY <1>1, <1>7 DEF Lose, CancelShutdown, OtherWriter, vars
<1> QED
  BY <1>2, <1>3, <1>4, <1>5, <1>6, <1>7, OldestAck, OldestData DEF Next, Server, Client

-----------------------------------------------------------------------------
(***************************************************************************)
(* Theorems                                                                *)
(***************************************************************************)

THEOREM Invariance == HalfRange => (Spec => []IInv)
<1>1. IInv /\ [Next]_vars => IInv'
  BY NextInv
<1> QED BY InitInv, <1>1, PTL DEF Spec

\* Type correctness; in particular the window buffer stays within the window.
THEOREM TypeCorrect == HalfRange => (Spec => []TypeOK)
<1>1. IInv => TypeOK
  <2> SUFFICES ASSUME IInv PROVE TypeOK
    OBVIOUS
  <2>1. expected \in 1 .. (Total + 1)
    BY DEF IInv, BufferInv
  <2>2. /\ windowBuf = [a \in DOMAIN windowBuf |-> windowBuf[a]]
        /\ \A a \in DOMAIN windowBuf : windowBuf[a] \in 1 .. Total
    <3>1. \A a \in DOMAIN windowBuf : windowBuf[a] = a
      BY DEF IInv, BufferInv
    <3>2. \A a \in DOMAIN windowBuf : a \in 1 .. Total
      BY <2>1, TotalFacts DEF IInv, BufferInv
    <3>3. windowBuf = [a \in DOMAIN windowBuf |-> windowBuf[a]]
      BY DEF IInv, BufferInv
    <3> QED BY <3>1, <3>2, <3>3
  <2>3. DOMAIN received = 1 .. (expected - 1)
    BY DEF IInv, BufferInv
  <2>4. toClient \subseteq {Oack, Error} \cup {Ack(n) : n \in 0 .. Total}
    <3>1. 0 .. (expected - 1) \subseteq 0 .. Total
      BY <2>1, TotalFacts
    <3> QED BY <3>1 DEF IInv, PacketsInv
  <2>5. toServer \subseteq {Error} \cup {Data(n) : n \in 1 .. Total}
    <3>1. 1 .. ClientWindowEnd(clientBase) \subseteq 1 .. Total
      BY ClientWindowFacts, TotalFacts DEF IInv, ScalarsInv
    <3> QED BY <3>1 DEF IInv, PacketsInv
  <2>6. bytes \in Nat
    BY BoundFacts DEF IInv, PhaseInv
  <2> QED BY <2>1, <2>2, <2>3, <2>4, <2>5, <2>6 DEF IInv, BufferInv, ScalarsInv, TypeOK
<1> QED BY <1>1, Invariance, PTL

\* Blocks end up where they belong, for any length of file, and the client
\* only believes what the server holds.
THEOREM NothingMisplaced == HalfRange => (Spec => [](UploadIntact /\ AckedIsReceived))
<1>1. IInv => UploadIntact /\ AckedIsReceived
  BY DEF IInv, BufferInv, PacketsInv, UploadIntact
<1> QED BY <1>1, Invariance, PTL

\* The client never takes a block for acknowledged that the server does not
\* hold.
THEOREM AcksAreTrue == HalfRange => (Spec => []AckedIsReceived)
BY NothingMisplaced, PTL

\* Completed means stored and complete, and the size limit is kept.
THEOREM CompletionIsTrue ==
  HalfRange => (Spec => [](CompletedMeansStored /\ SizeLimit))
<1>1. IInv => CompletedMeansStored /\ SizeLimit
  BY BoundFacts DEF IInv, PhaseInv, CompletedMeansStored, SizeLimit
<1> QED BY <1>1, Invariance, PTL

\* Among the sessions of MCSessionLife the upload that is too large is stopped
\* in time, and for every value of WriteSession's constants, not only those of
\* SessionLife.cfg: no other kind of behaviour turns into it, and its own steps
\* are the steps of one write session, which keep the inductive invariant.
THEOREM LargeStops == HalfRange => (LifeSpec => []LargeIsStopped)
<1>1. HalfRange /\ LifeInit => (kind = "large" => IInv)
  BY InitInv DEF LifeInit
<1>2. (kind = "large" => IInv) /\ [LifeNext]_lifeVars => (kind = "large" => IInv)'
  <2> SUFFICES ASSUME kind = "large" => IInv, [LifeNext]_lifeVars, kind' = "large"
               PROVE  IInv'
    OBVIOUS
  <2>1. CASE UNCHANGED lifeVars
    <3>1. UNCHANGED kind /\ UNCHANGED vars
      BY <2>1
      DEF lifeVars, writeOnly, both, vars, serverVars, stateVars, networkVars, clientVars
    <3> QED BY <3>1, NextInv
  <2>2. CASE LifeNext
    <3>1. UNCHANGED kind
      BY <2>2 DEF LifeNext, InDownload, InUpload, InTable
    <3>2. Next
      BY <2>2, <3>1 DEF LifeNext
    <3> QED BY <3>1, <3>2, NextInv
  <2> QED BY <2>1, <2>2
<1>3. (kind = "large" => IInv) => LargeIsStopped
  BY BoundFacts DEF IInv, PhaseInv, SizeLimit, LargeIsStopped
<1> QED BY <1>1, <1>2, <1>3, PTL DEF LifeSpec

\* Without allow_overwrite no step of the session changes a foreign file,
\* whatever the window: the file a session fills is one it opened itself.
THEOREM ForeignFilesAreSafe == Spec => NeverOverwrites
<1> DEFINE Own == phase = "fill" => file = "partial"
<1>1. Init => Own
  BY DEF Init
<1>2. RecvData => phase' \in {"receive", "write", "failed"} /\ UNCHANGED file
  BY DEF RecvData, TakeBlock, IgnoreBlock, serverVars, Finish
<1>3. ASSUME Own, [Next]_vars PROVE Own'
  <2>1. CASE RecvData
    BY <1>2, <2>1
  <2>2. CASE \/ Request \/ Open \/ Timeout \/ RecvError \/ SeeShutdown \/ OpenFile
             \/ FillFile \/ IoError
    BY <1>3, <2>2
    DEF Request, Open, Timeout, RecvError, SeeShutdown, OpenFile, FillFile, IoError, Finish
  <2>3. CASE Client
    BY <1>3, <2>3
    DEF Client, ClientBegin, ClientRecvAck, ClientTimeout, ClientRecvError, ClientAbort, serverVars
  <2>4. CASE Lose \/ CancelShutdown \/ OtherWriter \/ UNCHANGED vars
    BY <1>3, <2>4 DEF Lose, CancelShutdown, OtherWriter, vars, serverVars
  <2> QED BY <1>3, <2>1, <2>2, <2>3, <2>4 DEF Next, Server
<1>4. ASSUME Own, [Next]_vars, ~AllowOverwrite, file = "foreign"
      PROVE  file' = "foreign"
  <2>1. ~FillFile
    BY <1>4 DEF FillFile
  <2>2. CASE OpenFile
    BY <1>4, <2>2 DEF OpenFile, MayOpen
  <2>3. CASE Server /\ ~OpenFile
    BY <1>2, <1>4, <2>1, <2>3
    DEF Server, Request, Open, Timeout, RecvError, SeeShutdown, IoError
  <2>4. CASE Client \/ Lose \/ CancelShutdown \/ OtherWriter \/ UNCHANGED vars
    BY <1>4, <2>4
    DEF Client, ClientBegin, ClientRecvAck, ClientTimeout, ClientRecvError, ClientAbort,
        Lose, CancelShutdown, OtherWriter, vars
  <2> QED BY <1>4, <2>2, <2>3, <2>4 DEF Next
<1>5. Own /\ [Next]_vars => [~AllowOverwrite /\ file = "foreign" => file' = "foreign"]_vars
  BY <1>4
<1>6. Own /\ [Next]_vars => Own'
  BY <1>3
<1> QED BY <1>1, <1>5, <1>6, PTL DEF Spec, NeverOverwrites

\* What the server does for one upload is bounded, whatever its peer sends and
\* however often the network repeats it: a step that moves the session uses up
\* some of Fuel, a packet it sends one of the (Total + 1) * (max_retries + 1)
\* transmissions, and any other step at most stores a block in window_buf.
THEOREM ServerWorkIsBounded ==
  HalfRange =>
    (Spec => /\ [](Fuel \in 0 .. ((Total + 1) * (MaxRetries + 1) + 5))
             /\ [][/\ Fuel' < Fuel \/ UNCHANGED Progress
                   /\ SendsLeft' <= SendsLeft
                   /\ toClient' \subseteq toClient \/ SendsLeft' < SendsLeft]_vars)
<1>1. ASSUME IInv PROVE Fuel \in 0 .. ((Total + 1) * (MaxRetries + 1) + 5)
  <2>1. (Total + 1) * (MaxRetries + 1) \in Nat
    BY Rounds, TotalFacts
  <2>2. /\ SendsLeft \in Nat /\ TurnsLeft \in Nat
        /\ SendsLeft <= (Total + 1) * (MaxRetries + 1) /\ TurnsLeft <= 5
    BY <1>1, LeftType
  <2> QED BY <2>1, <2>2 DEF Fuel
<1>2. IInv => Fuel \in 0 .. ((Total + 1) * (MaxRetries + 1) + 5)
  BY <1>1
<1> DEFINE Step ==
      /\ Fuel' < Fuel \/ UNCHANGED Progress
      /\ SendsLeft' <= SendsLeft
      /\ toClient' \subseteq toClient \/ SendsLeft' < SendsLeft
<1>3. IInv /\ IInv' /\ [Next]_vars => [Step]_vars
  BY FuelStep
<1> QED BY <1>2, <1>3, Invariance, PTL DEF Spec

\* A session does not go on for ever unless the network multiplies packets:
\* every step of the server, the client, the network, the shutdown and the
\* other writer uses up some of Work, a natural number, so that only finitely
\* many steps are left in any state.
THEOREM EveryStepCounts ==
  HalfRange /\ "duplicate" \notin Faults =>
    (Spec => [](Work \in Nat) /\ [][Work' < Work]_vars)
<1> SUFFICES ASSUME HalfRange, "duplicate" \notin Faults
             PROVE  Spec => [](Work \in Nat) /\ [][Work' < Work]_vars
  OBVIOUS
<1>1. IInv => Work \in Nat
  <2> SUFFICES ASSUME IInv PROVE Work \in Nat
    OBVIOUS
  <2>1. WindowSize + 2 \in Nat /\ Fuel \in Nat /\ Fuel < Fuel + 1 /\ Fuel + 1 \in Nat
    BY FuelType, BoundFacts
  <2>2. Fuel * (WindowSize + 2) \in Nat
    BY <2>1, MulStep
  <2>3. Flight \in Nat
    BY FlightType
  <2> QED BY <2>2, <2>3 DEF Work
<1>2. IInv /\ IInv' /\ [Next]_vars => [Work' < Work]_vars
  BY WorkStep
<1> QED BY <1>1, <1>2, Invariance, PTL DEF Spec

\* The model does not deliver a packet that is a full turn of the block numbers
\* old.  Where the network keeps the order of packets that leaves nothing out:
\* however often packets are lost and repeated, none in flight gets that old.
THEOREM NothingDies ==
  HalfRange /\ "reorder" \notin Faults => (Spec => []NothingDead)
<1> SUFFICES ASSUME HalfRange, "reorder" \notin Faults PROVE Spec => []NothingDead
  OBVIOUS
<1>1. Init => NothingDead /\ Unmoved
  BY DEF Init, NothingDead, Unmoved
<1>2. IInv /\ NothingDead /\ Unmoved /\ [Next]_vars => (NothingDead /\ Unmoved)'
  BY DeadNext, UnmovedNext
<1> QED BY <1>1, <1>2, Invariance, PTL DEF Spec

LEMMA MoveUp ==
  ASSUME NEW t \in Nat, NEW a \in 1 .. (t + 1), NEW b \in a .. (t + 1), b # a
  PROVE  b - 1 \in ((a - 1) + 1) .. t
OBVIOUS

\* The session implements the abstract transfer with the client as the sender:
\* what the server holds only grows, the client counts only what the server
\* holds, and it reports success exactly when that is every block.
THEOREM Refinement == HalfRange => (Spec => ImplementsTransfer)
<1>1. Init => Transfer!Init
  BY DEF Init, Transfer!Init
<1>2. IInv /\ IInv' /\ [Next]_vars => [Transfer!Next]_Transfer!vars
  <2> SUFFICES ASSUME IInv, IInv', [Next]_vars PROVE [Transfer!Next]_Transfer!vars
    OBVIOUS
  <2>0. /\ expected \in 1 .. (Total + 1) /\ clientBase \in 1 .. (Total + 1)
        /\ clientPhase \in {"request", "send", "done", "gone"}
    BY DEF IInv, BufferInv, ScalarsInv
  <2>1. ASSUME UNCHANGED <<expected, clientBase>>,
               \/ UNCHANGED clientPhase
               \/ clientPhase \in {"request", "send"} /\ clientPhase' \in {"send", "gone"}
        PROVE  [Transfer!Next]_Transfer!vars
    <3>1. CASE clientPhase' = "gone" /\ clientPhase \in {"request", "send"}
      BY <2>1, <3>1 DEF Transfer!Next, Transfer!GiveUp
    <3>2. CASE UNCHANGED clientPhase \/ clientPhase' = "send"
      BY <2>1, <3>2 DEF Transfer!vars
    <3> QED BY <2>1, <3>1, <3>2
  <2>2. CASE RecvData
    <3>1. UNCHANGED <<clientBase, clientPhase>>
      BY <2>2, RecvDataCases DEF clientVars
    <3>2. CASE expected' = expected
      BY <2>1, <3>1, <3>2
    <3>3. CASE expected' # expected
      <4>1. expected' \in expected .. (Total + 1)
        BY <2>2, <3>3, RecvDataCases, TakeFacts DEF IgnoreBlock, serverVars
      <4>2. expected' - 1 \in ((expected - 1) + 1) .. Total
        BY <2>0, <3>3, <4>1, TotalFacts, MoveUp
      <4> QED BY <3>1, <4>2 DEF Transfer!Next, Transfer!Deliver
    <3> QED BY <3>2, <3>3
  <2>3. CASE ClientRecvAck
    <3>1. UNCHANGED expected
      BY <2>3, ClientAckCases DEF serverVars
    <3>2. CASE UNCHANGED <<clientPhase, clientBase>>
      BY <2>1, <3>1, <3>2
    <3>3. CASE clientPhase = "send" /\ \E n \in 1 .. Total : /\ clientBase <= n /\ n < expected
                                                          /\ ClientAdvance(n)
      <4> PICK n \in 1 .. Total : clientBase <= n /\ n < expected /\ ClientAdvance(n)
        BY <3>3
      <4>1. /\ clientBase' - 1 = n /\ n \in ((clientBase - 1) + 1) .. (expected - 1)
        <5>1. clientBase' = n + 1 /\ n \in Int
          BY TotalFacts DEF ClientAdvance
        <5> QED BY <2>0, <5>1, TotalFacts
      <4>2. clientPhase' = IF n = Total THEN "done" ELSE "send"
        BY <3>3 DEF ClientAdvance
      <4> QED BY <3>1, <3>3, <4>1, <4>2 DEF Transfer!Next, Transfer!Confirm
    <3> QED BY <2>3, <3>2, <3>3, ClientAckCases
  <2>4. CASE ClientBegin \/ ClientTimeout \/ ClientRecvError \/ ClientAbort
    BY <2>0, <2>1, <2>4
    DEF ClientBegin, ClientTimeout, ClientRecvError, ClientAbort, serverVars
  <2>5. CASE \/ Request \/ Open \/ Timeout \/ RecvError \/ SeeShutdown \/ OpenFile
             \/ FillFile \/ IoError
    BY <2>1, <2>5
    DEF Request, Open, Timeout, RecvError, SeeShutdown, OpenFile, FillFile, IoError, clientVars
  <2>6. CASE Lose \/ CancelShutdown \/ OtherWriter \/ UNCHANGED vars
    BY <2>1, <2>6 DEF Lose, CancelShutdown, OtherWriter, vars, serverVars, clientVars
  <2> QED BY <2>2, <2>3, <2>4, <2>5, <2>6 DEF Next, Server, Client
<1> QED
  BY <1>1, <1>2, Invariance, PTL DEF Spec, ImplementsTransfer, Transfer!Spec
=============================================================================
