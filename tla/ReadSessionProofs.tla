-------------------------- MODULE ReadSessionProofs --------------------------
(***************************************************************************)
(* Type correctness and safety of the read session, for every file size,   *)
(* block size, retry limit and set of faults, and every window of less     *)
(* than half the block numbers.                                            *)
(***************************************************************************)
EXTENDS ReadSession, TftpBlocksProofs, FiniteSetTheorems

\* The bytes of blocks 1..n
Offset(n) == EndOffset(n, FileSize, BlkSize)

\* What the server has sent bounds what the client can hold, and what the
\* client holds bounds what it can have acknowledged.
PacketsInv ==
  /\ toClient \subseteq {Oack, Error} \cup {Data(n) : n \in 1 .. windowEnd}
  /\ toServer \subseteq {Error} \cup {Ack(n) : n \in 0 .. have}
  /\ have <= windowEnd

\* The server's locals in each phase
PhaseInv ==
  /\ phase \in {"request", "start", "oack"} => base = 1 /\ windowEnd = 0
  /\ phase = "wait" => base <= Total /\ windowEnd = WindowEnd(base)
  /\ phase = "done" => base = Total + 1
  /\ status = "Completed" => phase = "done"
  /\ phase \in {"request", "start", "oack", "wait"} => errors = 0 /\ retries <= MaxRetries
  /\ phase \in {"request", "start"} => invalid = 0
  /\ phase = "oack" => invalid <= MaxRetries * 10

BytesInv == bytes = Offset(base - 1) /\ totalTx = Offset(base - 1)

\* HalfRange is not a fact of the program (README, Findings).
IInv ==
  /\ HalfRange
  /\ TypeOK
  /\ NeverAheadOfClient
  /\ FileIntact
  /\ PacketsInv
  /\ PhaseInv
  /\ BytesInv

-----------------------------------------------------------------------------
(***************************************************************************)
(* Constants                                                               *)
(***************************************************************************)

LEMMA TotalFacts == Total \in Nat /\ Total >= 1 /\ Offset(Total) = FileSize
BY OnlyTheLastBlockIsShort, ReadAssumption DEF Total, Offset

LEMMA BoundFacts ==
  /\ MaxRetries \in Nat /\ MaxLosses \in Nat /\ MaxReAcks \in Nat /\ MaxJunk \in Nat
  /\ WindowSize \in Nat /\ WindowSize >= 1 /\ WindowSize < WireMod
BY ReadAssumption, WireModAssumption

LEMMA OffsetFacts ==
  /\ Offset(0) = 0
  /\ \A n \in Nat : Offset(n) \in Nat
  /\ \A a, b \in Nat : a <= b => Offset(a) <= Offset(b)
<1>1. FileSize \in Nat /\ BlkSize \in Nat /\ BlkSize >= 1
  BY ReadAssumption
<1>2. /\ EndOffset(0, FileSize, BlkSize) = 0
      /\ \A n \in Nat : EndOffset(n, FileSize, BlkSize) \in 0 .. FileSize
      /\ \A a, b \in Nat :
           a <= b => EndOffset(a, FileSize, BlkSize) <= EndOffset(b, FileSize, BlkSize)
  BY <1>1, EndOffsetFacts
<1> QED BY <1>1, <1>2 DEF Offset

LEMMA WindowEndFacts ==
  ASSUME NEW b \in 1 .. Total
  PROVE  /\ WindowEnd(b) \in b .. Total
         /\ WindowEnd(b) <= b + WindowSize - 1
         /\ WindowEnd(b) < b + WireMod
BY TotalFacts, ReadAssumption, WireModAssumption DEF WindowEnd

-----------------------------------------------------------------------------
(***************************************************************************)
(* The two places where a 16-bit number is interpreted                     *)
(***************************************************************************)

\* What is delivered is less than a full turn old.
LEMMA AliveIsYoung ==
  ASSUME IInv, NEW n \in Nat
  PROVE  /\ AckAlive(n) => n + WireMod > windowEnd
         /\ DataAlive(n) => n + WireMod > have + 1
<1>1. /\ base \in Nat /\ windowEnd \in Int /\ have \in Nat /\ WindowSize \in Nat
      /\ windowEnd <= base + WindowSize - 1 /\ have <= windowEnd
      /\ 2 * WindowSize < WireMod
  BY TotalFacts, BoundFacts DEF IInv, TypeOK, PacketsInv, HalfRange
<1> QED BY <1>1, WireModAssumption DEF AckAlive, DataAlive

\* An ACK that falls into the window acknowledges the block it was sent for.
LEMMA AckIsExact ==
  ASSUME IInv, phase = "wait", NEW n \in Nat, n <= have, AckAlive(n),
         AckInWindow(BlockToAbsolute(WireBlock(n), base))
  PROVE  /\ BlockToAbsolute(WireBlock(n), base) = n
         /\ n \in base .. windowEnd
<1>1. /\ base \in 1 .. Total /\ windowEnd \in base .. Total /\ have \in Nat
      /\ windowEnd < base + WireMod /\ have <= windowEnd
  BY WindowEndFacts, TotalFacts DEF IInv, TypeOK, PhaseInv, PacketsInv
<1>2. CASE base <= n
  <2>1. n < base + WireMod
    BY <1>1, WireModAssumption
  <2>2. BlockToAbsolute(WireBlock(n), base) = n
    BY <1>1, <1>2, <2>1, BlockToAbsoluteExact, TotalFacts
  <2> QED BY <1>1, <1>2, <2>2, TotalFacts DEF IInv, TypeOK
<1>3. CASE n < base
  <2>0. n + WireMod > windowEnd
    BY AliveIsYoung
  <2>1. base <= n + WireMod
    BY <1>1, <2>0, TotalFacts, WireModAssumption
  <2>2. BlockToAbsolute(WireBlock(n), base) = n + WireMod
    BY <1>1, <1>3, <2>1, StaleBlockTurnsOver, TotalFacts
  <2> QED BY <1>1, <2>0, <2>2, TotalFacts, WireModAssumption DEF AckInWindow
<1> QED BY <1>1, <1>2, <1>3, TotalFacts

\* The client appends the block it waits for.
LEMMA AppendIsExact ==
  ASSUME IInv, NEW n \in 1 .. Total, n <= windowEnd, DataAlive(n),
         WireBlock(n) = WireBlock(have + 1)
  PROVE  n = have + 1
<1>1. n < have + 1 + WireMod
  BY TotalFacts, ReadAssumption, WireModAssumption
  DEF IInv, TypeOK, NeverAheadOfClient
<1>2. have + 1 < n + WireMod
  BY AliveIsYoung
<1> QED BY <1>1, <1>2, SameWireSameBlock, TotalFacts DEF IInv, TypeOK

-----------------------------------------------------------------------------
(***************************************************************************)
(* The invariant                                                           *)
(***************************************************************************)

\* A channel after a window, an OACK, or an acknowledgement was sent
LEMMA SentData ==
  ASSUME NEW S, NEW w \in Int, NEW f \in Nat, NEW t \in Int, f >= 1, w <= t,
         S \subseteq {Oack, Error} \cup {Data(n) : n \in 1 .. w}
  PROVE  S \cup {Data(n) : n \in f .. t} \subseteq {Oack, Error} \cup {Data(n) : n \in 1 .. t}
OBVIOUS

LEMMA SentAck ==
  ASSUME NEW S, NEW h \in Nat, NEW k \in Nat, h <= k,
         S \subseteq {Error} \cup {Ack(n) : n \in 0 .. h}
  PROVE  S \cup {Ack(k)} \subseteq {Error} \cup {Ack(n) : n \in 0 .. k}
OBVIOUS

\* What is in flight has the type TypeOK gives it.
LEMMA PacketTypes ==
  ASSUME NEW S, NEW R, NEW w \in 0 .. Total, NEW h \in 0 .. Total,
         S \subseteq {Oack, Error} \cup {Data(n) : n \in 1 .. w},
         R \subseteq {Error} \cup {Ack(n) : n \in 0 .. h}
  PROVE  /\ S \subseteq {Oack, Error} \cup {Data(n) : n \in 1 .. Total}
         /\ R \subseteq {Error} \cup {Ack(n) : n \in 0 .. Total}
BY TotalFacts

LEMMA InitInv == HalfRange /\ Init => IInv
<1> SUFFICES ASSUME HalfRange, Init PROVE IInv
  OBVIOUS
<1> USE TotalFacts DEF Init
<1>1. TypeOK
  <2>1. /\ base \in 1 .. (Total + 1) /\ windowEnd \in 0 .. Total
        /\ windowEnd <= base + WindowSize - 1
        /\ retries \in 0 .. (MaxRetries + 1) /\ invalid \in 0 .. MaxJunk
        /\ losses \in 0 .. MaxLosses
    BY BoundFacts
  <2>2. /\ got \subseteq 1 .. Total
        /\ have \in 0 .. Total /\ acked \in 0 .. have /\ reAcks \in 0 .. MaxReAcks
        /\ errors \in 0 .. 1 /\ bytes \in Nat /\ totalTx \in Nat
    BY BoundFacts
  <2> QED BY <2>1, <2>2 DEF TypeOK
<1>2. PacketsInv
  BY DEF PacketsInv
<1>3. NeverAheadOfClient /\ FileIntact /\ PhaseInv
  BY BoundFacts DEF NeverAheadOfClient, FileIntact, PhaseInv
<1>4. BytesInv
  BY OffsetFacts DEF BytesInv
<1> QED BY <1>1, <1>2, <1>3, <1>4 DEF IInv

-----------------------------------------------------------------------------
(***************************************************************************)
(* Every step preserves the invariant                                      *)
(***************************************************************************)

\* The server starts to send the file.
LEMMA BeginTransferInv ==
  ASSUME IInv, phase \in {"start", "oack"}, BeginTransfer, SendWindow(1, WindowEnd(1)),
         toServer' \subseteq toServer,
         UNCHANGED <<shutdown, totalTx, errors, losses, clientVars>>
  PROVE  IInv'
<1>1. /\ WindowEnd(1) \in 1 .. Total /\ WindowEnd(1) <= WindowSize
      /\ base = 1 /\ windowEnd = 0 /\ have = 0
  BY WindowEndFacts, TotalFacts, ReadAssumption DEF IInv, TypeOK, PhaseInv, PacketsInv
<1>2. PacketsInv'
  <2>1. toClient' \subseteq {Oack, Error} \cup {Data(n) : n \in 1 .. WindowEnd(1)}
    BY <1>1, SentData DEF SendWindow, IInv, PacketsInv
  <2> QED BY <1>1, <2>1 DEF BeginTransfer, clientVars, IInv, PacketsInv
<1>3. (windowEnd \in 0 .. Total /\ have \in 0 .. Total)'
  BY <1>1, TotalFacts DEF BeginTransfer, clientVars
<1>4. TypeOK'
  <2>1. (/\ toClient \subseteq {Oack, Error} \cup {Data(n) : n \in 1 .. Total}
         /\ toServer \subseteq {Error} \cup {Ack(n) : n \in 0 .. Total})'
    BY <1>2, <1>3, PacketTypes DEF PacketsInv
  <2> QED BY <1>1, <1>3, <2>1, TotalFacts, BoundFacts
          DEF BeginTransfer, clientVars, IInv, TypeOK
<1>5. PhaseInv'
  BY <1>1, TotalFacts, BoundFacts DEF BeginTransfer, IInv, PhaseInv
<1>6. BytesInv'
  BY <1>1, OffsetFacts DEF BeginTransfer, IInv, BytesInv
<1>7. NeverAheadOfClient' /\ FileIntact'
  BY <1>1 DEF BeginTransfer, clientVars, IInv, NeverAheadOfClient, FileIntact
<1> QED BY <1>2, <1>4, <1>5, <1>6, <1>7 DEF IInv

\* The session ends other than by the last ACK.
LEMMA FinishInv ==
  ASSUME IInv, phase \in {"start", "oack", "wait"},
         NEW outcome \in {"Failed", "Cancelled"}, Finish(outcome),
         retries' \in 0 .. (MaxRetries + 1), invalid' \in 0 .. MaxJunk,
         toServer' \subseteq toServer,
         UNCHANGED <<base, windowEnd, shutdown, bytes, totalTx, toClient, losses, clientVars>>
  PROVE  IInv'
<1>1. PacketsInv'
  BY DEF IInv, PacketsInv, clientVars
<1>2. TypeOK'
  BY <1>1 DEF Finish, clientVars, IInv, TypeOK, PhaseInv
<1>3. PhaseInv' /\ BytesInv'
  BY DEF Finish, IInv, PhaseInv, BytesInv
<1>4. NeverAheadOfClient' /\ FileIntact'
  BY DEF clientVars, IInv, NeverAheadOfClient, FileIntact
<1> QED BY <1>1, <1>2, <1>3, <1>4 DEF IInv

\* Packets are only taken out of the channels, or the shutdown token set.
LEMMA NetworkInv ==
  ASSUME IInv, toClient' \subseteq toClient, toServer' \subseteq toServer,
         losses' \in 0 .. MaxLosses, shutdown' \in BOOLEAN,
         UNCHANGED <<serverVars, stateVars, clientVars>>
  PROVE  IInv'
<1> USE DEF serverVars, stateVars, clientVars
<1>1. PacketsInv'
  BY DEF IInv, PacketsInv
<1>2. TypeOK'
  BY <1>1 DEF IInv, TypeOK
<1>3. PhaseInv' /\ BytesInv'
  BY DEF IInv, PhaseInv, BytesInv
<1>4. NeverAheadOfClient' /\ FileIntact'
  BY DEF IInv, NeverAheadOfClient, FileIntact
<1> QED BY <1>1, <1>2, <1>3, <1>4 DEF IInv

\* A timer makes the server repeat what is in flight.
LEMMA ResendInv ==
  ASSUME IInv, toClient' \subseteq {Oack, Error} \cup {Data(n) : n \in 1 .. windowEnd},
         retries' \in 0 .. MaxRetries, invalid' \in 0 .. MaxJunk,
         phase \in {"oack", "wait"}, invalid' <= MaxRetries * 10 \/ invalid' = invalid,
         UNCHANGED <<phase, base, windowEnd, shutdown, stateVars, toServer, losses, clientVars>>
  PROVE  IInv'
<1> USE DEF stateVars, clientVars
<1>1. PacketsInv'
  BY DEF IInv, PacketsInv
<1>2. (/\ toClient \subseteq {Oack, Error} \cup {Data(n) : n \in 1 .. Total}
       /\ toServer \subseteq {Error} \cup {Ack(n) : n \in 0 .. Total})'
  BY <1>1, PacketTypes DEF PacketsInv, IInv, TypeOK
<1>3. TypeOK'
  BY <1>2, BoundFacts DEF IInv, TypeOK
<1>4. PhaseInv' /\ BytesInv'
  BY DEF IInv, PhaseInv, BytesInv
<1>5. NeverAheadOfClient' /\ FileIntact'
  BY DEF IInv, NeverAheadOfClient, FileIntact
<1> QED BY <1>1, <1>3, <1>4, <1>5 DEF IInv

\* The client sends an acknowledgement of what it holds, or an ERROR.
LEMMA ClientInv ==
  ASSUME IInv, toClient' \subseteq toClient,
         have' \in have .. windowEnd, acked' \in 0 .. have', got' = 1 .. have',
         \/ toServer' = toServer
         \/ toServer' = toServer \cup {Ack(have')}
         \/ toServer' = toServer \cup {Error},
         clientPhase' \in {"request", "receive", "done", "gone"},
         clientPhase' = "done" => have' = Total,
         reAcks' \in 0 .. MaxReAcks,
         UNCHANGED <<serverVars, shutdown, stateVars, losses>>
  PROVE  IInv'
<1> USE DEF serverVars, stateVars
<1>1. /\ have \in Nat /\ have' \in Nat /\ have <= have'
      /\ windowEnd \in 0 .. Total /\ have' \in 0 .. Total
  BY SMTT(30), TotalFacts DEF IInv, TypeOK
<1>2. PacketsInv'
  <2>1. toServer' \subseteq {Error} \cup {Ack(n) : n \in 0 .. have'}
    BY <1>1, SentAck DEF IInv, PacketsInv
  <2> QED BY <1>1, <2>1 DEF IInv, PacketsInv
<1>3. (/\ toClient \subseteq {Oack, Error} \cup {Data(n) : n \in 1 .. Total}
       /\ toServer \subseteq {Error} \cup {Ack(n) : n \in 0 .. Total})'
  BY <1>1, <1>2, PacketTypes DEF PacketsInv
<1>4. TypeOK'
  BY <1>1, <1>3, TotalFacts DEF IInv, TypeOK
<1>5. PhaseInv' /\ BytesInv'
  BY DEF IInv, PhaseInv, BytesInv
<1>6. FileIntact'
  BY DEF FileIntact
<1>7. NeverAheadOfClient'
  <2>1. base \in Int /\ base - 1 <= have
    BY TotalFacts DEF IInv, TypeOK, NeverAheadOfClient
  <2> QED BY <1>1, <2>1 DEF NeverAheadOfClient
<1> QED BY <1>2, <1>4, <1>5, <1>6, <1>7 DEF IInv

\* An ACK for block abs, which the client holds, moves the window.
LEMMA AdvanceInv ==
  ASSUME IInv, phase = "wait", NEW abs \in base .. windowEnd, abs <= have, AdvanceWindow(abs),
         toServer' \subseteq toServer, UNCHANGED <<shutdown, losses, clientVars>>
  PROVE  IInv'
<1> USE DEF clientVars
<1>1. /\ base \in 1 .. Total /\ windowEnd \in base .. Total /\ have \in 0 .. Total
      /\ abs \in 1 .. Total /\ base' = abs + 1
  BY WindowEndFacts, TotalFacts DEF IInv, TypeOK, PhaseInv, AdvanceWindow
<1>2. BytesInv'
  <2>1. Offset(abs) \in Nat /\ Offset(base - 1) \in Nat
    BY <1>1, OffsetFacts
  <2>2. /\ bytes' = Offset(base - 1) + (Offset(abs) - Offset(base - 1))
        /\ totalTx' = Offset(base - 1) + (Offset(abs) - Offset(base - 1))
    BY DEF AdvanceWindow, AckedBytes, Offset, IInv, BytesInv
  <2>3. base' - 1 = abs
    BY <1>1
  <2> QED BY <2>1, <2>2, <2>3 DEF BytesInv
<1>3. bytes' \in Nat /\ totalTx' \in Nat
  BY <1>1, <1>2, OffsetFacts DEF BytesInv
<1>4. NeverAheadOfClient' /\ FileIntact'
  BY <1>1 DEF IInv, NeverAheadOfClient, FileIntact
<1>5. CASE abs + 1 > Total
  <2>1. PacketsInv'
    BY <1>5 DEF AdvanceWindow, IInv, PacketsInv
  <2>2. PhaseInv'
    BY <1>1, <1>5, TotalFacts DEF AdvanceWindow, Finish, IInv, PhaseInv
  <2>3. TypeOK'
    BY <1>1, <1>3, <1>5, <2>1, TotalFacts, BoundFacts
    DEF AdvanceWindow, Finish, IInv, TypeOK, PhaseInv
  <2> QED BY <1>2, <1>4, <2>1, <2>2, <2>3 DEF IInv
<1>6. CASE ~(abs + 1 > Total)
  <2> DEFINE w == WindowEnd(abs + 1)
  <2>1. /\ w \in (abs + 1) .. Total /\ w <= abs + WindowSize /\ windowEnd <= w
    <3>1. w \in (abs + 1) .. Total /\ w <= abs + 1 + WindowSize - 1
      BY <1>1, <1>6, WindowEndFacts, TotalFacts
    <3>2. windowEnd <= w
      BY <1>1, <3>1, BoundFacts, TotalFacts DEF IInv, PhaseInv, WindowEnd
    <3> QED BY <1>1, <3>1, <3>2, BoundFacts
  <2>2. /\ windowEnd' = w /\ retries' = 0 /\ status' = "Transferring"
        /\ toClient' = toClient \cup {Data(n) : n \in (abs + 1) .. w}
        /\ UNCHANGED <<phase, errors, invalid>>
    BY <1>6 DEF AdvanceWindow, SendWindow
  <2> HIDE DEF w
  <2>3. PacketsInv'
    <3>1. toClient' \subseteq {Oack, Error} \cup {Data(n) : n \in 1 .. w}
      BY <1>1, <2>1, <2>2, SentData DEF IInv, PacketsInv
    <3> QED BY <1>1, <2>1, <2>2, <3>1 DEF IInv, PacketsInv
  <2>4. (/\ toClient \subseteq {Oack, Error} \cup {Data(n) : n \in 1 .. Total}
         /\ toServer \subseteq {Error} \cup {Ack(n) : n \in 0 .. Total})'
    BY <1>1, <2>1, <2>2, <2>3, PacketTypes, TotalFacts DEF PacketsInv
  <2>5. PhaseInv'
    BY <1>1, <1>6, <2>2, TotalFacts, BoundFacts DEF IInv, PhaseInv, w
  <2>6. TypeOK'
    <3>1. /\ base' \in 1 .. (Total + 1) /\ windowEnd' \in 0 .. Total
          /\ windowEnd' <= base' + WindowSize - 1 /\ retries' \in 0 .. (MaxRetries + 1)
      BY <1>1, <2>1, <2>2, TotalFacts, BoundFacts
    <3> QED BY <1>3, <2>2, <2>4, <3>1 DEF IInv, TypeOK
  <2> QED BY <1>2, <1>4, <2>3, <2>5, <2>6 DEF IInv
<1> QED BY <1>5, <1>6

LEMMA NextInv == IInv /\ [Next]_vars => IInv'
<1> SUFFICES ASSUME IInv, [Next]_vars PROVE IInv'
  OBVIOUS
<1>0. /\ retries \in 0 .. (MaxRetries + 1) /\ invalid \in 0 .. MaxJunk
      /\ losses \in 0 .. MaxLosses /\ reAcks \in 0 .. MaxReAcks /\ shutdown \in BOOLEAN
      /\ have \in 0 .. Total /\ windowEnd \in have .. Total /\ acked \in 0 .. have
      /\ got = 1 .. have /\ (clientPhase = "done" => have = Total)
      /\ clientPhase \in {"request", "receive", "done", "gone"}
      /\ toClient \subseteq {Oack, Error} \cup {Data(n) : n \in 1 .. windowEnd}
  BY TotalFacts DEF IInv, TypeOK, PacketsInv, FileIntact
<1>1. CASE Start
  <2>1. CASE HasOptions
    <3>1. /\ phase = "start" /\ phase' = "oack" /\ toClient' = toClient \cup {Oack}
          /\ UNCHANGED <<base, windowEnd, retries, invalid, shutdown, status, bytes,
                         totalTx, errors, toServer, losses, clientVars>>
      BY <1>1, <2>1 DEF Start
    <3>2. PacketsInv'
      BY <3>1 DEF IInv, PacketsInv, clientVars
    <3>3. TypeOK'
      BY <3>1 DEF IInv, TypeOK, clientVars
    <3>4. PhaseInv'
      BY <3>1, BoundFacts DEF IInv, PhaseInv
    <3> QED
      BY <3>1, <3>2, <3>3, <3>4 DEF IInv, BytesInv, NeverAheadOfClient, FileIntact, clientVars
  <2>2. CASE ~HasOptions
    BY <1>1, <2>2, BeginTransferInv DEF Start
  <2> QED BY <2>1, <2>2
<1>2. CASE RecvOackAck
  <2>1. toServer' \subseteq toServer
    BY <1>2 DEF RecvOackAck, Deliver
  <2> QED BY <1>2, <2>1, BeginTransferInv DEF RecvOackAck
<1>3. CASE RecvInvalid
  <2>1. invalid' \in 0 .. MaxJunk /\ retries \in 0 .. MaxRetries
    BY <1>0, <1>3, BoundFacts DEF RecvInvalid, IInv, PhaseInv
  <2>2. CASE invalid' > MaxRetries * 10
    BY <1>0, <1>3, <2>1, <2>2, FinishInv DEF RecvInvalid, networkVars
  <2>3. CASE ~(invalid' > MaxRetries * 10)
    <3>1. invalid' <= MaxRetries * 10
      BY <2>1, <2>3, BoundFacts
    <3> QED
      BY <1>0, <1>3, <2>1, <2>3, <3>1, ResendInv DEF RecvInvalid, networkVars, stateVars
  <2> QED BY <2>2, <2>3
<1>4. CASE OackTimeout
  <2>1. retries' \in 0 .. (MaxRetries + 1)
    BY <1>0, <1>4, BoundFacts DEF OackTimeout, CountRetry, IInv, PhaseInv
  <2>2. CASE OutOfRetries(retries')
    BY <1>0, <1>4, <2>1, <2>2, FinishInv DEF OackTimeout
  <2>3. CASE ~OutOfRetries(retries')
    <3>1. retries' \in 0 .. MaxRetries
      BY <2>1, <2>3, BoundFacts DEF OutOfRetries
    <3>2. toClient' \subseteq {Oack, Error} \cup {Data(n) : n \in 1 .. windowEnd}
      BY <1>0, <1>4, <2>3 DEF OackTimeout
    <3> QED BY <1>0, <1>4, <2>3, <3>1, <3>2, ResendInv DEF OackTimeout, stateVars
  <2> QED BY <2>2, <2>3
<1>5. CASE RecvAck
  <2> PICK m \in toServer :
        /\ m.type = "ACK" /\ AckAlive(m.n)
        /\ Deliver(toServer, m, toServer')
        /\ LET abs == BlockToAbsolute(WireBlock(m.n), base)
           IN  IF AckInWindow(abs) THEN AdvanceWindow(abs) ELSE IgnoreAck
    BY <1>5 DEF RecvAck
  <2>1. m.n \in Nat /\ m.n <= have /\ toServer' \subseteq toServer
    BY <1>0 DEF IInv, PacketsInv, Deliver, Ack, Error
  <2>2. phase = "wait" /\ UNCHANGED <<shutdown, losses, clientVars>>
    BY <1>5 DEF RecvAck
  <2> DEFINE abs == BlockToAbsolute(WireBlock(m.n), base)
  <2>3. CASE AckInWindow(abs)
    <3>1. abs = m.n /\ m.n \in base .. windowEnd
      BY <2>1, <2>2, <2>3, AckIsExact
    <3>2. AdvanceWindow(m.n)
      BY <2>3, <3>1
    <3> QED BY <2>1, <2>2, <3>1, <3>2, AdvanceInv
  <2>4. CASE ~AckInWindow(abs)
    BY <1>0, <2>1, <2>2, <2>4, NetworkInv DEF IgnoreAck
  <2> QED BY <2>3, <2>4
<1>6. CASE WindowTimeout
  <2>1. retries' \in 0 .. (MaxRetries + 1)
    BY <1>0, <1>6, BoundFacts DEF WindowTimeout, CountRetry, IInv, PhaseInv
  <2>2. CASE OutOfRetries(retries')
    BY <1>0, <1>6, <2>1, <2>2, FinishInv DEF WindowTimeout
  <2>3. CASE ~OutOfRetries(retries')
    <3>1. retries' \in 0 .. MaxRetries
      BY <2>1, <2>3, BoundFacts DEF OutOfRetries
    <3>2. toClient' \subseteq {Oack, Error} \cup {Data(n) : n \in 1 .. windowEnd}
      <4>1. base \in Nat /\ base >= 1 /\ windowEnd \in Int
        BY <1>0, TotalFacts DEF IInv, TypeOK
      <4> QED BY <1>0, <1>6, <2>3, <4>1, SentData DEF WindowTimeout, SendWindow
    <3> QED BY <1>0, <1>6, <2>3, <3>1, <3>2, ResendInv DEF WindowTimeout, stateVars
  <2> QED BY <2>2, <2>3
<1>7. CASE RecvError
  <2>1. PICK outcome \in {"Failed", "Cancelled"} : Finish(outcome)
    BY <1>7 DEF RecvError
  <2> QED BY <1>0, <1>7, <2>1, FinishInv DEF RecvError
<1>8. CASE IoError
  BY <1>0, <1>8, FinishInv DEF IoError, networkVars
<1>9. CASE SeeShutdown
  BY <1>0, <1>9, FinishInv DEF SeeShutdown, networkVars
<1>10. CASE ClientRecvOack
  BY <1>0, <1>10, ClientInv DEF ClientRecvOack, Deliver
<1>11. CASE ClientRecvData
  <2> PICK m \in toClient :
        /\ m.type = "DATA" /\ DataAlive(m.n)
        /\ Deliver(toClient, m, toClient')
        /\ ClientAppend(m) \/ ClientReject(m)
    BY <1>11 DEF ClientRecvData
  <2>1. UNCHANGED <<serverVars, shutdown, stateVars, losses>>
    BY <1>11 DEF ClientRecvData
  <2>2. m.n \in 1 .. Total /\ m.n <= windowEnd /\ toClient' \subseteq toClient
    <3>1. m # Oack /\ m # Error
      BY DEF Oack, Error
    <3>2. PICK n \in 1 .. windowEnd : m = Data(n)
      BY <1>0, <3>1
    <3>3. m.n = n
      BY <3>2 DEF Data
    <3> QED BY <1>0, <3>3, TotalFacts DEF Deliver
  <2>3. CASE ClientAppend(m)
    <3>1. m.n = have + 1
      BY <2>2, <2>3, AppendIsExact DEF ClientAppend
    <3>2. have' = m.n /\ have' \in have .. windowEnd /\ got' = 1 .. have'
      BY <1>0, <2>2, <2>3, <3>1 DEF ClientAppend
    <3>3. acked' \in 0 .. have'
      BY <1>0, <2>3, <3>1, <3>2 DEF ClientAppend
    <3> QED BY <1>0, <2>1, <2>2, <2>3, <3>1, <3>2, <3>3, ClientInv DEF ClientAppend
  <2>4. CASE ClientReject(m)
    <3>1. /\ UNCHANGED <<clientPhase, got, have, reAcks>> /\ acked' \in 0 .. have
          /\ toServer' = toServer \/ toServer' = toServer \cup {Ack(have)}
      BY <1>0, <2>4 DEF ClientReject
    <3>2. have' \in have .. windowEnd
      BY <1>0, <3>1
    <3> QED BY <1>0, <2>1, <2>2, <3>1, <3>2, ClientInv
  <2> QED BY <2>3, <2>4
<1>12. CASE ClientTimeout
  <2>1. reAcks' \in 0 .. MaxReAcks
    BY <1>0, <1>12, BoundFacts DEF ClientTimeout
  <2> QED BY <1>0, <1>12, <2>1, ClientInv DEF ClientTimeout
<1>13. CASE ClientAbort \/ ClientRecvError
  BY <1>0, <1>13, ClientInv DEF ClientAbort, ClientRecvError, Deliver
<1>14. CASE Lose
  <2>1. losses' \in 0 .. MaxLosses
    BY <1>0, <1>14, BoundFacts DEF Lose
  <2> QED BY <1>0, <1>14, <2>1, NetworkInv DEF Lose
<1>15. CASE CancelShutdown
  BY <1>0, <1>15, NetworkInv DEF CancelShutdown, networkVars
<1>16. CASE Request
  <2>1. /\ phase = "request" /\ phase' \in {"start", "rejected"}
        /\ status' \in {status, "Negotiating"}
        /\ toClient' \subseteq toClient \cup {Error}
        /\ UNCHANGED <<base, windowEnd, retries, invalid, shutdown, bytes, totalTx, errors,
                       toServer, losses, clientVars>>
    BY <1>16 DEF Request
  <2>2. PacketsInv'
    BY <1>0, <2>1 DEF IInv, PacketsInv, clientVars
  <2>3. TypeOK'
    <3>1. toClient' \subseteq {Oack, Error} \cup {Data(n) : n \in 1 .. Total}
      BY <1>0, <2>1 DEF IInv, TypeOK
    <3> QED BY <1>0, <2>1, <3>1 DEF IInv, TypeOK, clientVars
  <2>4. PhaseInv'
    BY <1>0, <2>1 DEF IInv, PhaseInv
  <2> QED
    BY <1>0, <2>1, <2>2, <2>3, <2>4
    DEF IInv, BytesInv, NeverAheadOfClient, FileIntact, clientVars
<1>17. CASE UNCHANGED vars
  BY <1>0, <1>17, NetworkInv DEF vars, networkVars
<1> QED
  BY <1>1, <1>2, <1>3, <1>4, <1>5, <1>6, <1>7, <1>8, <1>9, <1>10, <1>11, <1>12,
     <1>13, <1>14, <1>15, <1>16, <1>17 DEF Next, Server, Client

-----------------------------------------------------------------------------
(***************************************************************************)
(* How much work a session is                                              *)
(***************************************************************************)

\* What the server can still do without sending: the packets it tolerates in
\* the handshake and the phases that lie ahead.
TurnsLeft ==
  CASE phase = "request" -> MaxRetries * 10 + 3
    [] phase = "start"   -> MaxRetries * 10 + 2
    [] phase = "oack"    -> (MaxRetries * 10 - invalid) + 1
    [] phase = "wait"    -> 1
    [] OTHER             -> 0

\* The server pays for a step with a transmission or with a turn.
ServerPays ==
  /\ SendsLeft' <= SendsLeft /\ TurnsLeft' <= TurnsLeft
  /\ SendsLeft' < SendsLeft \/ (toClient' = toClient /\ TurnsLeft' < TurnsLeft)

\* The transmissions of n blocks
LEMMA Rounds ==
  /\ \A n \in Nat : n * (MaxRetries + 1) \in Nat
  /\ \A n, k \in Nat : n < k => n * (MaxRetries + 1) + (MaxRetries + 1) <= k * (MaxRetries + 1)
<1>1. MaxRetries + 1 \in Nat
  BY BoundFacts
<1>2. ASSUME NEW n \in Nat PROVE n * (MaxRetries + 1) \in Nat
  <2>1. n < n + 1 /\ n + 1 \in Nat
    OBVIOUS
  <2> QED BY <1>1, <2>1, MulStep
<1> QED BY <1>1, <1>2, MulStep

\* SendsLeft and TurnsLeft are natural numbers.
LEMMA LeftType ==
  ASSUME IInv
  PROVE  /\ SendsLeft \in Nat /\ TurnsLeft \in Nat
         /\ SendsLeft <= (Total + 1) * (MaxRetries + 1) /\ TurnsLeft <= MaxRetries * 10 + 3
<1>1. /\ Total \in Nat /\ Total + 1 \in Nat /\ Total < Total + 1
      /\ phase \in {"request", "rejected", "start", "oack", "wait", "done", "failed"}
      /\ invalid \in Nat /\ retries \in Nat /\ MaxRetries \in Nat
      /\ phase \in {"oack", "wait"} => retries <= MaxRetries
      /\ phase = "oack" => invalid <= MaxRetries * 10
  BY TotalFacts, BoundFacts DEF IInv, TypeOK, PhaseInv
<1>2. /\ (Total + 1) * (MaxRetries + 1) \in Nat /\ Total * (MaxRetries + 1) \in Nat
      /\ Total * (MaxRetries + 1) + (MaxRetries + 1) <= (Total + 1) * (MaxRetries + 1)
  BY <1>1, Rounds
<1>3. phase = "wait" => /\ (Total - base) * (MaxRetries + 1) \in Nat
                        /\ (Total - base) * (MaxRetries + 1) <= Total * (MaxRetries + 1)
  <2> SUFFICES ASSUME phase = "wait"
               PROVE  /\ (Total - base) * (MaxRetries + 1) \in Nat
                      /\ (Total - base) * (MaxRetries + 1) <= Total * (MaxRetries + 1)
    OBVIOUS
  <2>1. Total - base \in Nat /\ Total - base < Total
    BY <1>1, TotalFacts DEF IInv, TypeOK, PhaseInv
  <2> QED BY <1>1, <2>1, Rounds
<1>4. SendsLeft \in Nat /\ SendsLeft <= (Total + 1) * (MaxRetries + 1)
  BY <1>1, <1>2, <1>3 DEF SendsLeft
<1>5. TurnsLeft \in Nat /\ TurnsLeft <= MaxRetries * 10 + 3
  BY <1>1 DEF TurnsLeft
<1> QED BY <1>4, <1>5

LEMMA LeftNat == IInv => SendsLeft \in Nat /\ TurnsLeft \in Nat
BY LeftType

LEMMA LeftNatNext == IInv' => (SendsLeft \in Nat /\ TurnsLeft \in Nat)'
BY LeftNat, PTL

\* Every step of the server but an ignored ACK is paid for.
LEMMA ServerSteps ==
  ASSUME IInv, IInv', Server
  PROVE  ServerPays \/ (UNCHANGED serverVars /\ toClient' = toClient /\ RecvAck)
<1>0. /\ SendsLeft \in Nat /\ SendsLeft' \in Nat /\ TurnsLeft \in Nat /\ TurnsLeft' \in Nat
      /\ Total \in Nat /\ Total >= 1 /\ MaxRetries \in Nat
      /\ invalid \in Nat /\ retries \in Nat /\ base \in 1 .. (Total + 1)
  <2>1. SendsLeft \in Nat /\ SendsLeft' \in Nat /\ TurnsLeft \in Nat /\ TurnsLeft' \in Nat
    BY LeftNat, LeftNatNext
  <2> QED BY <2>1, TotalFacts, BoundFacts DEF IInv, TypeOK
<1>1. CASE Request
  <2>1. phase = "request" /\ phase' \in {"rejected", "start"}
        /\ (phase' = "start" => toClient' = toClient)
    BY <1>1 DEF Request
  <2>2. (Total + 1) * (MaxRetries + 1) \in Nat /\ (Total + 1) * (MaxRetries + 1) >= 1
    <3>1. 0 * (MaxRetries + 1) + (MaxRetries + 1) <= (Total + 1) * (MaxRetries + 1)
      BY <1>0, Rounds
    <3> QED BY <1>0, <3>1, Rounds
  <2>3. CASE phase' = "start"
    BY <1>0, <2>1, <2>2, <2>3 DEF ServerPays, SendsLeft, TurnsLeft
  <2>4. CASE phase' = "rejected"
    BY <1>0, <2>1, <2>2, <2>4 DEF ServerPays, SendsLeft, TurnsLeft
  <2> QED BY <2>1, <2>3, <2>4
<1>2. ASSUME phase \in {"start", "oack"}, BeginTransfer PROVE ServerPays
  <2>1. /\ phase' = "wait" /\ base' = 1 /\ retries' = 0
        /\ retries <= MaxRetries /\ (phase = "oack" => invalid <= MaxRetries * 10)
    BY <1>2 DEF BeginTransfer, IInv, PhaseInv
  <2>2. /\ (Total - 1) * (MaxRetries + 1) \in Nat
        /\ (Total - 1) * (MaxRetries + 1) + (MaxRetries + 1) <= Total * (MaxRetries + 1)
        /\ Total * (MaxRetries + 1) + (MaxRetries + 1) <= (Total + 1) * (MaxRetries + 1)
    BY <1>0, Rounds
  <2>3. CASE phase = "start"
    BY <1>0, <2>1, <2>2, <2>3 DEF ServerPays, SendsLeft, TurnsLeft
  <2>4. CASE phase = "oack"
    BY <1>0, <2>1, <2>2, <2>4 DEF ServerPays, SendsLeft, TurnsLeft
  <2> QED BY <1>2, <2>3, <2>4
<1>3. CASE Start
  <2>1. CASE HasOptions
    <3>1. phase = "start" /\ phase' = "oack" /\ retries' = retries /\ invalid' = 0
      BY <1>3, <2>1 DEF Start, IInv, PhaseInv
    <3>2. Total * (MaxRetries + 1) \in Nat
          /\ Total * (MaxRetries + 1) + (MaxRetries + 1) <= (Total + 1) * (MaxRetries + 1)
      BY <1>0, Rounds
    <3> QED BY <1>0, <3>1, <3>2 DEF ServerPays, SendsLeft, TurnsLeft
  <2> QED BY <1>2, <1>3, <2>1 DEF Start
<1>4. CASE RecvOackAck
  BY <1>2, <1>4 DEF RecvOackAck
<1>5. ASSUME phase \in {"start", "oack", "wait"}, phase' = "failed", toClient' = toClient
      PROVE  ServerPays
  <2>1. SendsLeft' = 0 /\ TurnsLeft' = 0
    BY <1>5 DEF SendsLeft, TurnsLeft
  <2>2. TurnsLeft >= 1
    BY <1>0, <1>5 DEF IInv, PhaseInv, TurnsLeft
  <2> QED BY <1>0, <1>5, <2>1, <2>2 DEF ServerPays
<1>6. CASE RecvInvalid
  <2>1. CASE invalid' > MaxRetries * 10
    BY <1>5, <1>6, <2>1 DEF RecvInvalid, Finish, networkVars
  <2>2. CASE ~(invalid' > MaxRetries * 10)
    <3>1. /\ phase = "oack" /\ phase' = "oack" /\ retries' = retries /\ toClient' = toClient
          /\ invalid' = invalid + 1
      BY <1>6, <2>2 DEF RecvInvalid, networkVars
    <3>2. SendsLeft' = SendsLeft /\ TurnsLeft' < TurnsLeft
      BY <1>0, <3>1 DEF SendsLeft, TurnsLeft
    <3> QED BY <1>0, <3>1, <3>2 DEF ServerPays
  <2> QED BY <2>1, <2>2
<1>7. CASE OackTimeout \/ WindowTimeout
  <2>1. CASE OutOfRetries(retries')
    BY <1>5, <1>7, <2>1 DEF OackTimeout, WindowTimeout, Finish
  <2>2. CASE ~OutOfRetries(retries')
    <3>1. /\ phase \in {"oack", "wait"} /\ retries' = retries + 1
          /\ UNCHANGED <<phase, base, invalid>>
      BY <1>7, <2>2 DEF OackTimeout, WindowTimeout, CountRetry
    <3>2. Total * (MaxRetries + 1) \in Nat
      BY <1>0, Rounds
    <3>3. phase = "wait" => (Total - base) * (MaxRetries + 1) \in Nat
      <4>1. phase = "wait" => Total - base \in Nat
        BY <1>0 DEF IInv, PhaseInv
      <4> QED BY <4>1, Rounds
    <3>4. SendsLeft' < SendsLeft /\ TurnsLeft' = TurnsLeft
      BY <1>0, <3>1, <3>2, <3>3 DEF SendsLeft, TurnsLeft
    <3> QED BY <1>0, <3>4 DEF ServerPays
  <2> QED BY <2>1, <2>2
<1>8. CASE RecvAck
  <2> PICK m \in toServer :
        /\ m.type = "ACK" /\ AckAlive(m.n)
        /\ LET abs == BlockToAbsolute(WireBlock(m.n), base)
           IN  IF AckInWindow(abs) THEN AdvanceWindow(abs) ELSE IgnoreAck
    BY <1>8 DEF RecvAck
  <2> DEFINE abs == BlockToAbsolute(WireBlock(m.n), base)
  <2>1. CASE ~AckInWindow(abs)
    BY <1>8, <2>1 DEF IgnoreAck
  <2>2. CASE AckInWindow(abs)
    <3>0. abs \in Nat
      <4>1. m.n \in Nat /\ m.n <= have /\ phase = "wait"
        BY <1>8 DEF RecvAck, IInv, PacketsInv, Ack, Error
      <4> QED BY <2>2, <4>1, AckIsExact
    <3>1. /\ phase = "wait" /\ base' = abs + 1 /\ base <= abs /\ base <= Total
          /\ retries <= MaxRetries
      BY <1>8, <2>2 DEF RecvAck, AdvanceWindow, AckInWindow, IInv, PhaseInv
    <3>2. base' \in 1 .. (Total + 1)
      BY DEF IInv, TypeOK
    <3>3. CASE abs + 1 > Total
      <4>1. phase' = "done" /\ toClient' = toClient
        BY <2>2, <3>3 DEF AdvanceWindow, Finish
      <4>2. SendsLeft' = 0 /\ TurnsLeft' = 0 /\ TurnsLeft = 1
        BY <3>1, <4>1 DEF SendsLeft, TurnsLeft
      <4> QED BY <1>0, <4>1, <4>2 DEF ServerPays
    <3>4. CASE ~(abs + 1 > Total)
      <4>1. phase' = "wait" /\ retries' = 0
        BY <2>2, <3>1, <3>4 DEF AdvanceWindow
      <4>2. base < base'
        BY <1>0, <3>0, <3>1
      <4>3. /\ (Total - base') * (MaxRetries + 1) \in Nat
            /\ (Total - base') * (MaxRetries + 1) + (MaxRetries + 1)
                 <= (Total - base) * (MaxRetries + 1)
            /\ (Total - base) * (MaxRetries + 1) \in Nat
        <5>1. Total - base' \in Nat /\ Total - base \in Nat /\ Total - base' < Total - base
          BY <1>0, <3>1, <3>2, <3>4, <4>2
        <5> QED BY <5>1, Rounds
      <4>4. SendsLeft' < SendsLeft /\ TurnsLeft' = TurnsLeft
        BY <1>0, <3>1, <4>1, <4>3 DEF SendsLeft, TurnsLeft
      <4> QED BY <1>0, <4>4 DEF ServerPays
    <3> QED BY <3>3, <3>4
  <2> QED BY <2>1, <2>2
<1>9. CASE RecvError \/ IoError \/ SeeShutdown
  BY <1>5, <1>9 DEF RecvError, IoError, SeeShutdown, Finish, networkVars
<1> QED
  BY <1>1, <1>3, <1>4, <1>6, <1>7, <1>8, <1>9 DEF Server

\* The other steps leave the server alone and send nothing to the client.
LEMMA OtherSteps ==
  ASSUME [Next]_vars, ~Server
  PROVE  UNCHANGED serverVars /\ toClient' \subseteq toClient
BY DEF Next, Client, ClientRecvOack, ClientRecvData, ClientTimeout, ClientRecvError, ClientAbort,
       Lose, CancelShutdown, Deliver, vars, networkVars

LEMMA UnmovedServer ==
  ASSUME UNCHANGED serverVars PROVE SendsLeft' = SendsLeft /\ TurnsLeft' = TurnsLeft
BY DEF serverVars, SendsLeft, TurnsLeft

\* Whatever a step sends is taken from SendsLeft.
LEMMA SendsArePaid ==
  ASSUME IInv, IInv', [Next]_vars
  PROVE  /\ SendsLeft' <= SendsLeft
         /\ toClient' \subseteq toClient \/ SendsLeft' < SendsLeft
<1>1. SendsLeft \in Nat
  BY LeftNat
<1>2. CASE ServerPays
  BY <1>2 DEF ServerPays
<1>3. CASE UNCHANGED serverVars /\ toClient' \subseteq toClient
  <2>1. SendsLeft' = SendsLeft
    BY <1>3, UnmovedServer
  <2> QED BY <1>1, <1>3, <2>1
<1> QED BY <1>2, <1>3, ServerSteps, OtherSteps

\* What is in flight, weighted by the packets it can give rise to, and what the
\* client, the network and the shutdown can still do.
ClientMay == Bit(clientPhase \in {"request", "receive"})

Flight ==
  2 * Cardinality(toClient) + Cardinality(toServer)
  + 2 * (MaxReAcks - reAcks) + (MaxLosses - losses) + Bit(~shutdown) + 2 * ClientMay

Fuel == SendsLeft + TurnsLeft
Work == Fuel * (2 * WindowSize + 1) + Flight

LEMMA FiniteChannels == IInv => IsFiniteSet(toClient) /\ IsFiniteSet(toServer)
<1> SUFFICES ASSUME IInv PROVE IsFiniteSet(toClient) /\ IsFiniteSet(toServer)
  OBVIOUS
<1> DEFINE D == {Data(n) : n \in 1 .. Total}  A == {Ack(n) : n \in 0 .. Total}
<1>1. IsFiniteSet(D)
  <2>1. [n \in 1 .. Total |-> Data(n)] \in Surjection(1 .. Total, D)
    BY DEF Surjection
  <2> QED BY <2>1, FS_Surjection, FS_Interval, TotalFacts
<1>2. IsFiniteSet(A)
  <2>1. [n \in 0 .. Total |-> Ack(n)] \in Surjection(0 .. Total, A)
    BY DEF Surjection
  <2> QED BY <2>1, FS_Surjection, FS_Interval, TotalFacts
<1>3. toClient \subseteq (D \cup {Oack}) \cup {Error} /\ toServer \subseteq A \cup {Error}
  BY DEF IInv, TypeOK
<1> HIDE DEF D, A
<1>4. IsFiniteSet((D \cup {Oack}) \cup {Error}) /\ IsFiniteSet(A \cup {Error})
  BY <1>1, <1>2, FS_AddElement
<1> QED BY <1>3, <1>4, FS_Subset

LEMMA FiniteChannelsNext == IInv' => (IsFiniteSet(toClient) /\ IsFiniteSet(toServer))'
BY FiniteChannels, PTL

\* A window is at most WindowSize packets.
LEMMA WindowPackets ==
  ASSUME NEW C, IsFiniteSet(C), NEW a \in Nat, NEW b \in Nat, b <= a + WindowSize - 1
  PROVE  LET T == C \cup {Data(n) : n \in a .. b}
         IN  IsFiniteSet(T) /\ Cardinality(T) <= Cardinality(C) + WindowSize
<1> DEFINE D == {Data(n) : n \in a .. b}
<1>1. IsFiniteSet(D) /\ Cardinality(D) <= WindowSize
  <2>1. [n \in a .. b |-> Data(n)] \in Surjection(a .. b, D)
    BY DEF Surjection
  <2>2. IsFiniteSet(a .. b) /\ Cardinality(a .. b) = IF a > b THEN 0 ELSE b - a + 1
    BY FS_Interval
  <2>3. IsFiniteSet(D) /\ Cardinality(D) <= Cardinality(a .. b) /\ Cardinality(D) \in Nat
    BY <2>1, <2>2, FS_Surjection, FS_CardinalityType
  <2> QED BY <2>2, <2>3, BoundFacts
<1> HIDE DEF D
<1>2. /\ IsFiniteSet(C \cup D) /\ IsFiniteSet(C \cap D)
      /\ Cardinality(C \cup D) = Cardinality(C) + Cardinality(D) - Cardinality(C \cap D)
  BY <1>1, FS_Union, FS_Intersection
<1>3. /\ Cardinality(C) \in Nat /\ Cardinality(D) \in Nat /\ Cardinality(C \cap D) \in Nat
      /\ Cardinality(C \cup D) \in Nat
  BY <1>1, <1>2, FS_CardinalityType
<1>4. Cardinality(C \cup D) <= Cardinality(C) + WindowSize
  BY <1>1, <1>2, <1>3, BoundFacts
<1> QED BY <1>2, <1>4 DEF D

\* Without duplication a packet is delivered once.
LEMMA DeliverTakes ==
  ASSUME "duplicate" \notin Faults, NEW C, NEW D, NEW m, Deliver(C, m, D)
  PROVE  Takes(C, D)
BY DEF Deliver, Takes

\* The server sends at most one window in a step.
LEMMA ServerSends ==
  ASSUME IInv, IInv', Server
  PROVE  /\ Cardinality(toClient') <= Cardinality(toClient) + WindowSize
         /\ Cardinality(toClient) \in Nat /\ Cardinality(toClient') \in Nat
<1>0. IsFiniteSet(toClient) /\ IsFiniteSet(toClient')
  BY FiniteChannels, FiniteChannelsNext
<1>1. CASE Puts(toClient, toClient')
  <2>1. Cardinality(toClient') <= Cardinality(toClient) + 1
    BY <1>0, <1>1, PutsOne
  <2> QED BY <1>0, <2>1, BoundFacts, FS_CardinalityType
<1>2. CASE \E x, y \in Nat : y <= x + WindowSize - 1 /\ SendWindow(x, y)
  <2> PICK x \in Nat, y \in Nat : y <= x + WindowSize - 1 /\ SendWindow(x, y)
    BY <1>2
  <2> QED BY <1>0, WindowPackets, FS_CardinalityType DEF SendWindow
<1>3. ASSUME NEW x \in 1 .. Total, SendWindow(x, WindowEnd(x))
      PROVE  \E a, y \in Nat : y <= a + WindowSize - 1 /\ SendWindow(a, y)
  <2>1. x \in Nat /\ WindowEnd(x) \in Nat /\ WindowEnd(x) <= x + WindowSize - 1
    BY WindowEndFacts, TotalFacts
  <2> QED BY <1>3, <2>1
<1>4. CASE Request \/ RecvInvalid \/ OackTimeout \/ RecvError \/ IoError \/ SeeShutdown
  BY <1>1, <1>4
  DEF Request, RecvInvalid, OackTimeout, RecvError, IoError, SeeShutdown, networkVars, Puts
<1>5. CASE Start \/ RecvOackAck
  <2>1. Puts(toClient, toClient') \/ SendWindow(1, WindowEnd(1))
    BY <1>5 DEF Start, RecvOackAck, Puts
  <2>2. 1 \in 1 .. Total
    BY TotalFacts
  <2> QED BY <1>1, <1>2, <1>3, <2>1, <2>2
<1>6. CASE WindowTimeout
  <2>1. Puts(toClient, toClient') \/ SendWindow(base, windowEnd)
    BY <1>6 DEF WindowTimeout, Puts
  <2>2. base \in Nat /\ windowEnd \in Nat /\ windowEnd <= base + WindowSize - 1
    BY TotalFacts DEF IInv, TypeOK
  <2> QED BY <1>1, <1>2, <2>1, <2>2
<1>7. CASE RecvAck
  <2> PICK m \in toServer :
        /\ m.type = "ACK" /\ AckAlive(m.n)
        /\ LET abs == BlockToAbsolute(WireBlock(m.n), base)
           IN  IF AckInWindow(abs) THEN AdvanceWindow(abs) ELSE IgnoreAck
    BY <1>7 DEF RecvAck
  <2> DEFINE abs == BlockToAbsolute(WireBlock(m.n), base)
  <2>1. CASE ~AckInWindow(abs) \/ abs + 1 > Total
    <3>1. toClient' = toClient
      BY <2>1 DEF IgnoreAck, AdvanceWindow
    <3> QED BY <1>1, <3>1 DEF Puts
  <2>2. CASE AckInWindow(abs) /\ ~(abs + 1 > Total)
    <3>1. abs \in Nat
      <4>1. m.n \in Nat /\ m.n <= have /\ phase = "wait"
        BY <1>7 DEF RecvAck, IInv, PacketsInv, Ack, Error
      <4> QED BY <2>2, <4>1, AckIsExact
    <3>2. SendWindow(abs + 1, WindowEnd(abs + 1)) /\ abs + 1 \in 1 .. Total
      BY <2>2, <3>1, TotalFacts DEF AdvanceWindow
    <3> QED BY <1>2, <1>3, <3>2
  <2> QED BY <2>1, <2>2
<1> QED BY <1>4, <1>5, <1>6, <1>7 DEF Server

LEMMA FlightParts ==
  IInv => /\ IsFiniteSet(toClient) /\ IsFiniteSet(toServer)
          /\ Cardinality(toClient) \in Nat /\ Cardinality(toServer) \in Nat
          /\ reAcks \in 0 .. MaxReAcks /\ losses \in 0 .. MaxLosses
          /\ Bit(~shutdown) \in 0 .. 1 /\ ClientMay \in 0 .. 1
<1> SUFFICES ASSUME IInv
             PROVE  /\ IsFiniteSet(toClient) /\ IsFiniteSet(toServer)
                    /\ Cardinality(toClient) \in Nat /\ Cardinality(toServer) \in Nat
                    /\ reAcks \in 0 .. MaxReAcks /\ losses \in 0 .. MaxLosses
                    /\ Bit(~shutdown) \in 0 .. 1 /\ ClientMay \in 0 .. 1
  OBVIOUS
<1>1. IsFiniteSet(toClient) /\ IsFiniteSet(toServer)
  BY FiniteChannels
<1>2. Cardinality(toClient) \in Nat /\ Cardinality(toServer) \in Nat
  BY <1>1, FS_CardinalityType
<1>3. Bit(~shutdown) \in 0 .. 1 /\ ClientMay \in 0 .. 1
  BY DEF Bit, ClientMay
<1> QED BY <1>1, <1>2, <1>3 DEF IInv, TypeOK

LEMMA FlightPartsNext ==
  IInv' => (/\ IsFiniteSet(toClient) /\ IsFiniteSet(toServer)
            /\ Cardinality(toClient) \in Nat /\ Cardinality(toServer) \in Nat
            /\ reAcks \in 0 .. MaxReAcks /\ losses \in 0 .. MaxLosses
            /\ Bit(~shutdown) \in 0 .. 1 /\ ClientMay \in 0 .. 1)'
BY FlightParts, PTL

\* A step of the server adds at most a window to what is in flight.
LEMMA ServerFlight ==
  ASSUME IInv, IInv', "duplicate" \notin Faults, Server
  PROVE  /\ Flight \in Nat /\ Flight' \in Nat
         /\ Flight' <= Flight + 2 * WindowSize
         /\ UNCHANGED serverVars /\ toClient' = toClient /\ RecvAck => Flight' < Flight
<1>1. UNCHANGED <<reAcks, losses, shutdown, clientPhase>>
  BY DEF Server, Request, Start, RecvOackAck, RecvInvalid, OackTimeout, RecvAck, WindowTimeout,
         RecvError, IoError, SeeShutdown, networkVars, clientVars
<1>2. toServer' = toServer \/ Takes(toServer, toServer')
  <2>1. CASE RecvOackAck \/ RecvAck
    BY <2>1, DeliverTakes DEF RecvOackAck, RecvAck
  <2>2. CASE RecvError
    BY <2>2 DEF RecvError, Takes
  <2> QED
    BY <2>1, <2>2
    DEF Server, Request, Start, RecvInvalid, OackTimeout, WindowTimeout, IoError, SeeShutdown,
        networkVars
<1>3. RecvAck => Takes(toServer, toServer')
  BY DeliverTakes DEF RecvAck
<1>4. Cardinality(toServer') <= Cardinality(toServer)
  BY <1>2, FlightParts, TakesOne
<1>5. RecvAck => Cardinality(toServer') < Cardinality(toServer)
  BY <1>3, FlightParts, TakesOne
<1>6. Cardinality(toClient') <= Cardinality(toClient) + WindowSize
  BY ServerSends
<1>7. ClientMay' = ClientMay /\ Bit(~shutdown)' = Bit(~shutdown)
  BY <1>1 DEF ClientMay, Bit
<1>8. /\ Flight \in Nat /\ Flight' \in Nat /\ Flight' <= Flight + 2 * WindowSize
  BY <1>1, <1>4, <1>6, <1>7, FlightParts, FlightPartsNext, BoundFacts DEF Flight
<1>9. ASSUME RecvAck, toClient' = toClient PROVE Flight' < Flight
  BY <1>1, <1>5, <1>7, <1>9, FlightParts, FlightPartsNext, BoundFacts DEF Flight
<1> QED BY <1>8, <1>9

\* A step of anybody else takes something out of flight, or makes use of one of
\* the occasions the client, the network and the shutdown have.
LEMMA OtherFlight ==
  ASSUME IInv, IInv', "duplicate" \notin Faults, Client \/ Lose \/ CancelShutdown
  PROVE  Flight' < Flight
<1> DEFINE Rest == UNCHANGED <<reAcks, losses, shutdown>>
<1>0. /\ IsFiniteSet(toClient) /\ IsFiniteSet(toServer) /\ shutdown \in BOOLEAN
      /\ clientPhase \in {"request", "receive", "done", "gone"}
  BY FlightParts DEF IInv, TypeOK
<1>1. ASSUME Takes(toClient, toClient'), Puts(toServer, toServer'), Rest,
             clientPhase' \in {"request", "receive"} => clientPhase \in {"request", "receive"}
      PROVE  Flight' < Flight
  <2>1. ClientMay' <= ClientMay /\ Bit(~shutdown)' = Bit(~shutdown)
    BY <1>1 DEF ClientMay, Bit
  <2>2. /\ Cardinality(toClient') = Cardinality(toClient) - 1
        /\ Cardinality(toServer') <= Cardinality(toServer) + 1
    BY <1>0, <1>1, TakesOne, PutsOne
  <2> QED BY <1>1, <2>1, <2>2, FlightParts, FlightPartsNext, BoundFacts DEF Flight
<1>2. CASE ClientRecvOack
  <2>1. Takes(toClient, toClient') /\ Puts(toServer, toServer')
    BY <1>2, DeliverTakes DEF ClientRecvOack, Puts
  <2> QED BY <1>1, <1>2, <2>1 DEF ClientRecvOack
<1>3. CASE ClientRecvData
  <2> PICK m \in toClient : Deliver(toClient, m, toClient') /\ (ClientAppend(m) \/ ClientReject(m))
    BY <1>3 DEF ClientRecvData
  <2>1. Takes(toClient, toClient') /\ Puts(toServer, toServer')
    BY DeliverTakes DEF ClientAppend, ClientReject, Puts
  <2>2. /\ UNCHANGED <<reAcks, losses, shutdown>>
        /\ clientPhase' = clientPhase \/ clientPhase \in {"request", "receive"}
    BY <1>3 DEF ClientRecvData, ClientAppend, ClientReject
  <2> QED BY <1>1, <2>1, <2>2
<1>4. CASE ClientRecvError
  <2>1. Takes(toClient, toClient') /\ Puts(toServer, toServer')
    BY <1>4, DeliverTakes DEF ClientRecvError, Puts
  <2> QED BY <1>1, <1>4, <2>1 DEF ClientRecvError
<1>5. CASE ClientTimeout
  <2>1. /\ UNCHANGED <<toClient, losses, shutdown, clientPhase>> /\ reAcks' = reAcks + 1
        /\ Puts(toServer, toServer')
    BY <1>5 DEF ClientTimeout, Puts
  <2>2. ClientMay' = ClientMay /\ Bit(~shutdown)' = Bit(~shutdown)
    BY <2>1 DEF ClientMay, Bit
  <2>3. Cardinality(toServer') <= Cardinality(toServer) + 1
    BY <1>0, <2>1, PutsOne
  <2> QED BY <2>1, <2>2, <2>3, FlightParts, FlightPartsNext, BoundFacts DEF Flight
<1>6. CASE ClientAbort
  <2>1. UNCHANGED <<toClient, reAcks, losses, shutdown>> /\ Puts(toServer, toServer')
    BY <1>6 DEF ClientAbort, Puts
  <2>2. ClientMay' = 0 /\ ClientMay = 1 /\ Bit(~shutdown)' = Bit(~shutdown)
    BY <1>6, <2>1 DEF ClientAbort, ClientMay, Bit
  <2>3. Cardinality(toServer') <= Cardinality(toServer) + 1
    BY <1>0, <2>1, PutsOne
  <2> QED BY <2>1, <2>2, <2>3, FlightParts, FlightPartsNext, BoundFacts DEF Flight
<1>7. CASE Lose
  <2>1. /\ UNCHANGED <<reAcks, shutdown, clientPhase>> /\ losses' = losses + 1
        /\ toClient' = toClient \/ Takes(toClient, toClient')
        /\ toServer' = toServer \/ Takes(toServer, toServer')
    BY <1>7 DEF Lose, Takes, clientVars
  <2>2. ClientMay' = ClientMay /\ Bit(~shutdown)' = Bit(~shutdown)
    BY <2>1 DEF ClientMay, Bit
  <2>3. /\ Cardinality(toClient') <= Cardinality(toClient)
        /\ Cardinality(toServer') <= Cardinality(toServer)
    BY <2>1, FlightParts, TakesOne
  <2> QED BY <2>1, <2>2, <2>3, FlightParts, FlightPartsNext, BoundFacts DEF Flight
<1>8. CASE CancelShutdown
  <2>1. UNCHANGED <<toClient, toServer, reAcks, losses, clientPhase>> /\ ~shutdown /\ shutdown'
    BY <1>8 DEF CancelShutdown, networkVars, clientVars
  <2>2. ClientMay' = ClientMay /\ Bit(~shutdown) = 1 /\ Bit(~shutdown)' = 0
    BY <2>1 DEF ClientMay, Bit
  <2> QED BY <2>1, <2>2, FlightParts, FlightPartsNext, BoundFacts DEF Flight
<1> QED BY <1>2, <1>3, <1>4, <1>5, <1>6, <1>7, <1>8 DEF Client

LEMMA FuelStep ==
  ASSUME IInv, IInv', [Next]_vars
  PROVE  Fuel \in Nat /\ Fuel' \in Nat /\ (UNCHANGED serverVars \/ Fuel' < Fuel)
<1>1. Fuel \in Nat /\ Fuel' \in Nat
  BY LeftNat, LeftNatNext DEF Fuel
<1>2. CASE ServerPays
  BY <1>2, LeftNat, LeftNatNext DEF ServerPays, Fuel
<1> QED BY <1>1, <1>2, ServerSteps, OtherSteps

LEMMA WorkStep ==
  ASSUME IInv, IInv', "duplicate" \notin Faults, Next
  PROVE  Work' < Work
<1>0. /\ 2 * WindowSize + 1 \in Nat
      /\ Fuel \in Nat /\ Fuel' \in Nat /\ Flight \in Nat /\ Flight' \in Nat
  <2>1. Flight \in Nat /\ Flight' \in Nat
    BY FlightParts, FlightPartsNext, BoundFacts DEF Flight
  <2> QED BY <2>1, FuelStep, BoundFacts
<1>1. ASSUME \/ Fuel' < Fuel /\ Flight' < Flight + (2 * WindowSize + 1)
             \/ Fuel' = Fuel /\ Flight' < Flight
      PROVE  Work' < Work
  BY <1>0, <1>1, Weighing DEF Work
<1>2. ASSUME Fuel' < Fuel, Flight' <= Flight + 2 * WindowSize PROVE Work' < Work
  <2>1. Flight' < Flight + (2 * WindowSize + 1)
    BY <1>0, <1>2, BoundFacts
  <2> QED BY <1>1, <1>2, <2>1
<1>3. ASSUME UNCHANGED serverVars, Flight' < Flight PROVE Work' < Work
  <2>1. Fuel' = Fuel
    BY <1>3, UnmovedServer DEF Fuel
  <2> QED BY <1>1, <1>3, <2>1
<1>4. CASE Server
  <2>1. Flight' <= Flight + 2 * WindowSize
    BY <1>4, ServerFlight
  <2>2. CASE ServerPays
    <3>1. Fuel' < Fuel
      BY <2>2, LeftNat, LeftNatNext DEF ServerPays, Fuel
    <3> QED BY <1>2, <2>1, <3>1
  <2>3. CASE UNCHANGED serverVars /\ toClient' = toClient /\ RecvAck
    BY <1>3, <1>4, <2>3, ServerFlight
  <2> QED BY <1>4, <2>2, <2>3, ServerSteps
<1>5. CASE Client \/ Lose \/ CancelShutdown
  <2>1. UNCHANGED serverVars
    BY <1>5
    DEF Client, ClientRecvOack, ClientRecvData, ClientTimeout, ClientRecvError, ClientAbort,
        Lose, CancelShutdown
  <2> QED BY <1>3, <1>5, <2>1, OtherFlight
<1> QED BY <1>4, <1>5 DEF Next

-----------------------------------------------------------------------------
(***************************************************************************)
(* How many losses a download survives                                     *)
(***************************************************************************)

\* Packets are lost, or repeated, and junk arrives, each no more often than the
\* server tolerates; nothing else goes wrong.
OnlyLosses ==
  Faults \subseteq {"duplicate"} /\ MaxLosses <= MaxRetries /\ MaxJunk <= MaxRetries * 10

\* What is in flight brings the server forward by itself: an ACK of the window,
\* a repeated block the client answers with one, or all of the window that the
\* client has not seen, which it acknowledges at the latest at its end.
AckUnderWay    == \E n \in base .. windowEnd : Ack(n) \in toServer
AnswerDue      == have >= base /\ \E n \in 1 .. have : Data(n) \in toClient
WindowUnderWay ==
  /\ have < windowEnd /\ acked = base - 1
  /\ \A n \in (have + 1) .. windowEnd : Data(n) \in toClient

UnderWay ==
  \/ phase = "oack" /\ (Oack \in toClient \/ Ack(0) \in toServer)
  \/ phase = "wait" /\ (AckUnderWay \/ AnswerDue \/ WindowUnderWay)

\* Nobody gives up.
Peace ==
  /\ phase \notin {"rejected", "failed"} /\ status \notin {"Failed", "Cancelled"}
  /\ ~shutdown /\ clientPhase # "gone" /\ Error \notin toClient /\ Error \notin toServer
  /\ clientPhase = "request" => have = 0
  /\ phase \in {"request", "start"} => retries = 0

\* The client has acknowledged what the server has read ACKs of, and what it
\* may read ACKs of.
AcksSent ==
  /\ base - 1 <= acked
  /\ \A n \in 0 .. have : Ack(n) \in toServer => n <= acked

\* Every timeout of a window or of the handshake has its own loss.
TimeoutsAreLosses ==
  phase \in {"oack", "wait"} => retries <= losses /\ (retries < losses \/ UnderWay)

LossInv == Peace /\ AcksSent /\ TimeoutsAreLosses

\* What IInv says of the numbers involved
LEMMA Numbers ==
  IInv => /\ Total \in Nat /\ Total >= 1 /\ base \in 1 .. (Total + 1)
          /\ windowEnd \in 0 .. Total /\ have \in 0 .. windowEnd /\ acked \in 0 .. have
          /\ retries \in Nat /\ losses \in 0 .. MaxLosses /\ invalid \in Nat
          /\ MaxRetries \in Nat /\ MaxLosses \in Nat /\ MaxJunk \in Nat
          /\ base - 1 <= have
          /\ phase = "wait" => base \in 1 .. Total /\ windowEnd = WindowEnd(base)
                               /\ base <= windowEnd
          /\ phase = "oack" => have = 0 /\ base = 1
          /\ clientPhase = "done" => have = Total
          /\ clientPhase \in {"request", "receive", "done", "gone"}
          /\ toClient \subseteq {Oack, Error} \cup {Data(n) : n \in 1 .. windowEnd}
          /\ toServer \subseteq {Error} \cup {Ack(n) : n \in 0 .. have}
BY TotalFacts, BoundFacts, WindowEndFacts
DEF IInv, TypeOK, PacketsInv, PhaseInv, NeverAheadOfClient, FileIntact

\* A whole window in flight is answered, wherever in it the client is.
LEMMA WindowSent ==
  IInv /\ AcksSent /\ phase = "wait" /\ (\A n \in base .. windowEnd : Data(n) \in toClient)
    => UnderWay
<1> SUFFICES ASSUME IInv, AcksSent, phase = "wait",
                    \A n \in base .. windowEnd : Data(n) \in toClient
             PROVE  UnderWay
  OBVIOUS
<1>1. CASE have >= base
  <2>1. base \in 1 .. have /\ Data(base) \in toClient
    BY <1>1, Numbers
  <2> QED BY <1>1, <2>1 DEF UnderWay, AnswerDue
<1>2. CASE have < base
  <2>1. have = base - 1 /\ acked = base - 1 /\ have < windowEnd /\ have + 1 = base
    BY <1>2, Numbers DEF AcksSent
  <2> QED BY <2>1 DEF UnderWay, WindowUnderWay
<1> QED BY <1>1, <1>2, Numbers

LEMMA WindowSentNext ==
  (IInv /\ AcksSent /\ phase = "wait" /\ (\A n \in base .. windowEnd : Data(n) \in toClient))'
    => UnderWay'
BY WindowSent, PTL

\* With nothing in flight nothing is under way.
LEMMA SomethingInFlight ==
  ASSUME IInv, UnderWay PROVE toClient # {} \/ toServer # {}
<1>1. CASE WindowUnderWay
  <2>1. windowEnd \in (have + 1) .. windowEnd
    BY <1>1, Numbers DEF WindowUnderWay
  <2> QED BY <1>1, <2>1 DEF WindowUnderWay
<1> QED BY <1>1 DEF UnderWay, AckUnderWay, AnswerDue

\* A timer that expires has a loss to show for it.
LEMMA TimerMeansLoss ==
  ASSUME OnlyLosses, IInv, LossInv, phase \in {"oack", "wait"}, TimerMayExpire
  PROVE  /\ toClient = {} /\ toServer = {} /\ ~UnderWay
         /\ retries + 1 <= losses /\ ~OutOfRetries(retries + 1)
<1>1. toClient = {} /\ toServer = {}
  BY DEF OnlyLosses, TimerMayExpire, LossInv, Peace
<1>2. ~UnderWay
  BY <1>1, SomethingInFlight
<1>3. retries < losses
  BY <1>2 DEF LossInv, TimeoutsAreLosses
<1>4. retries + 1 <= losses /\ losses <= MaxRetries /\ MaxRetries \in Nat
  BY <1>3, Numbers DEF OnlyLosses
<1> QED BY <1>1, <1>2, <1>4, Numbers DEF OutOfRetries

\* What becomes of an ACK: it moves the window, or it was not one of the window.
LEMMA RecvAckCases ==
  ASSUME IInv, RecvAck
  PROVE  /\ phase = "wait" /\ toServer' \subseteq toServer
         /\ UNCHANGED <<shutdown, losses, clientVars>>
         /\ \/ \E n \in base .. windowEnd : n <= have /\ Ack(n) \in toServer /\ AdvanceWindow(n)
            \/ IgnoreAck /\ \A n \in base .. windowEnd : Ack(n) \in toServer => Ack(n) \in toServer'
<1> PICK m \in toServer :
      /\ m.type = "ACK" /\ AckAlive(m.n)
      /\ Deliver(toServer, m, toServer')
      /\ LET abs == BlockToAbsolute(WireBlock(m.n), base)
         IN  IF AckInWindow(abs) THEN AdvanceWindow(abs) ELSE IgnoreAck
  BY DEF RecvAck
<1> DEFINE abs == BlockToAbsolute(WireBlock(m.n), base)
<1>0. phase = "wait" /\ UNCHANGED <<shutdown, losses, clientVars>>
  BY DEF RecvAck
<1>1. m.n \in 0 .. have /\ m = Ack(m.n)
  BY Numbers DEF Ack, Error
<1>2. toServer \ {m} \subseteq toServer' /\ toServer' \subseteq toServer
  BY DEF Deliver
<1>3. CASE AckInWindow(abs)
  <2>1. abs = m.n /\ m.n \in base .. windowEnd
    BY <1>0, <1>1, <1>3, AckIsExact, Numbers
  <2> QED BY <1>0, <1>1, <1>2, <1>3, <2>1
<1>4. CASE ~AckInWindow(abs)
  <2>1. ASSUME NEW n \in base .. windowEnd, Ack(n) \in toServer PROVE Ack(n) \in toServer'
    <3>1. n < base + WireMod /\ n \in Nat /\ base \in Nat /\ base >= 1 /\ base <= n
      <4>1. windowEnd < base + WireMod
        BY <1>0, Numbers, WindowEndFacts
      <4> QED BY <2>1, <4>1, Numbers, WireModAssumption
    <3>2. BlockToAbsolute(WireBlock(n), base) = n
      BY <3>1, BlockToAbsoluteExact
    <3>3. AckInWindow(n)
      BY <2>1, Numbers DEF AckInWindow
    <3>4. Ack(n) # m
      <4> SUFFICES ASSUME Ack(n) = m PROVE FALSE
        OBVIOUS
      <4>1. m.n = n
        BY DEF Ack
      <4> QED BY <1>4, <3>2, <3>3, <4>1
    <3> QED BY <1>2, <2>1, <3>4
  <2> QED BY <1>0, <1>2, <1>4, <2>1
<1> QED BY <1>3, <1>4

\* What becomes of a DATA packet while nobody gives up
LEMMA RecvDataCases ==
  ASSUME IInv, LossInv, OnlyLosses, ClientRecvData
  PROVE  \E k \in 1 .. windowEnd :
           /\ Data(k) \in toClient /\ toClient \ {Data(k)} \subseteq toClient'
           /\ toClient' \subseteq toClient
           /\ \A n \in 1 .. windowEnd : Data(n) \in toClient => k <= n
           /\ UNCHANGED <<serverVars, shutdown, stateVars, losses, reAcks>>
           /\ \/ /\ k = have + 1 /\ have' = have + 1
                 /\ clientPhase' \in {"receive", "done"}
                 /\ \/ acked' = have + 1 /\ toServer' = toServer \cup {Ack(have + 1)}
                    \/ /\ k # Total /\ have + 1 < acked + WindowSize
                       /\ UNCHANGED <<acked, toServer>>
              \/ /\ k # have + 1 /\ have' = have /\ clientPhase' = clientPhase
                 /\ \/ acked' = have /\ toServer' = toServer \cup {Ack(have)}
                    \/ have = 0 /\ UNCHANGED <<acked, toServer>>
<1> PICK m \in toClient :
      /\ m.type = "DATA" /\ DataAlive(m.n)
      /\ Deliver(toClient, m, toClient')
      /\ ClientAppend(m) \/ ClientReject(m)
  BY DEF ClientRecvData
<1>1. m.n \in 1 .. windowEnd /\ m = Data(m.n) /\ m.n \in 1 .. Total /\ m.n <= windowEnd
  BY Numbers DEF Data, Oack, Error
<1>2. toClient \ {m} \subseteq toClient' /\ toClient' \subseteq toClient
  BY DEF Deliver
<1>3. \A n \in 1 .. windowEnd : Data(n) \in toClient => m.n <= n
  BY DEF Deliver, OnlyLosses, Data
<1>4. UNCHANGED <<serverVars, shutdown, stateVars, losses>>
  BY DEF ClientRecvData
<1>5. CASE ClientAppend(m)
  <2>1. m.n = have + 1
    BY <1>1, <1>5, AppendIsExact DEF ClientAppend
  <2> QED BY <1>1, <1>2, <1>3, <1>4, <1>5, <2>1 DEF ClientAppend
<1>6. CASE ClientReject(m)
  <2>1. m.n # have + 1
    BY <1>1, <1>6, Numbers DEF ClientReject, LossInv, Peace
  <2>2. clientPhase # "gone" /\ (clientPhase = "request" => have = 0)
    BY DEF LossInv, Peace
  <2> QED BY <1>1, <1>2, <1>3, <1>4, <1>6, <2>1, <2>2 DEF ClientReject
<1> QED BY <1>5, <1>6

LEMMA PeaceNext ==
  ASSUME OnlyLosses, IInv, LossInv, Next PROVE Peace'
<1>0. /\ {"system", "abort", "shutdown", "early_timeout", "reorder"} \cap Faults = {}
      /\ Peace
  BY DEF OnlyLosses, LossInv
<1> USE DEF Peace, serverVars, stateVars, networkVars, clientVars
<1>1. CASE Request \/ CancelShutdown
  BY <1>0, <1>1 DEF Request, CancelShutdown, Error
<1>2. CASE Start \/ RecvOackAck
  BY <1>0, <1>2 DEF Start, RecvOackAck, BeginTransfer, SendWindow, Deliver, Data, Oack, Error
<1>3. CASE RecvInvalid
  <2>1. invalid + 1 <= MaxRetries * 10
    BY <1>3, Numbers DEF RecvInvalid, OnlyLosses
  <2>2. ~(invalid' > MaxRetries * 10)
    BY <1>3, <2>1, Numbers DEF RecvInvalid
  <2> QED BY <1>0, <1>3, <2>2 DEF RecvInvalid
<1>4. CASE OackTimeout
  <2>1. phase = "oack" /\ retries' = retries + 1 /\ ~OutOfRetries(retries')
    BY <1>4, TimerMeansLoss DEF OackTimeout, CountRetry
  <2> QED BY <1>0, <1>4, <2>1 DEF OackTimeout, Oack, Error
<1>5. CASE WindowTimeout
  <2>1. phase = "wait" /\ retries' = retries + 1 /\ ~OutOfRetries(retries')
    BY <1>5, TimerMeansLoss DEF WindowTimeout, CountRetry
  <2> QED BY <1>0, <1>5, <2>1 DEF WindowTimeout, SendWindow, Data, Error
<1>6. CASE RecvAck
  <2>1. CASE \E n \in base .. windowEnd : AdvanceWindow(n)
    BY <1>0, <1>6, <2>1, RecvAckCases DEF AdvanceWindow, Finish, SendWindow, Data, Error
  <2>2. CASE IgnoreAck
    BY <1>0, <1>6, <2>2, RecvAckCases DEF IgnoreAck
  <2> QED BY <1>6, <2>1, <2>2, RecvAckCases
<1>7. CASE RecvError \/ IoError \/ SeeShutdown \/ ClientRecvError \/ ClientAbort
  BY <1>0, <1>7 DEF RecvError, IoError, SeeShutdown, ClientRecvError, ClientAbort, Deliver
<1>8. CASE ClientRecvOack
  BY <1>0, <1>8 DEF ClientRecvOack, Deliver, Ack, Error
<1>9. CASE ClientRecvData
  BY <1>0, <1>9, RecvDataCases DEF Ack, Error
<1>10. CASE ClientTimeout
  BY <1>0, <1>10 DEF ClientTimeout, Ack, Error
<1>11. CASE Lose
  BY <1>0, <1>11 DEF Lose
<1> QED
  BY <1>1, <1>2, <1>3, <1>4, <1>5, <1>6, <1>7, <1>8, <1>9, <1>10, <1>11
  DEF Next, Server, Client

\* An ACK says what the client has, and what it said before it has still.
LEMMA AcksNext ==
  ASSUME OnlyLosses, IInv, IInv', LossInv, Next PROVE AcksSent'
<1>0. AcksSent /\ Peace
  BY DEF LossInv
<1>1. ASSUME base' - 1 <= acked', acked' \in 0 .. have', acked <= acked',
             \A p \in toServer' : p \in toServer \/ \E k \in 0 .. acked' : p = Ack(k)
      PROVE  AcksSent'
  <2>1. ASSUME NEW n \in 0 .. have', Ack(n) \in toServer' PROVE n <= acked'
    <3>1. CASE Ack(n) \in toServer
      <4>1. n \in 0 .. have
        BY <3>1, Numbers DEF Ack, Error
      <4> QED BY <1>0, <1>1, <3>1, <4>1, Numbers DEF AcksSent
    <3>2. CASE \E k \in 0 .. acked' : Ack(n) = Ack(k)
      BY <3>2, Numbers DEF Ack
    <3> QED BY <1>1, <2>1, <3>1, <3>2
  <2> QED BY <1>1, <2>1 DEF AcksSent
<1>2. ASSUME UNCHANGED <<have, acked>>, toServer' \subseteq toServer,
             base' = base \/ (base' = 1 /\ phase \in {"start", "oack"})
      PROVE  AcksSent'
  <2>1. base' - 1 <= acked' /\ acked' \in 0 .. have' /\ acked <= acked'
    BY <1>0, <1>2, Numbers DEF AcksSent
  <2> QED BY <1>1, <1>2, <2>1
<1> USE DEF serverVars, stateVars, networkVars, clientVars
<1>3. CASE Request \/ Start \/ RecvOackAck \/ RecvInvalid \/ OackTimeout \/ WindowTimeout
  BY <1>2, <1>3
  DEF Request, Start, RecvOackAck, BeginTransfer, RecvInvalid, OackTimeout, WindowTimeout, Deliver
<1>4. CASE RecvAck
  <2>1. UNCHANGED <<have, acked>> /\ toServer' \subseteq toServer
    BY <1>4, RecvAckCases
  <2>2. CASE \E n \in base .. windowEnd : n <= have /\ Ack(n) \in toServer /\ AdvanceWindow(n)
    <3> PICK n \in base .. windowEnd : n <= have /\ Ack(n) \in toServer /\ AdvanceWindow(n)
      BY <2>2
    <3>1. n \in 0 .. have /\ n <= acked /\ base' = n + 1
      <4>1. n \in 0 .. have
        BY Numbers
      <4> QED BY <1>0, <4>1 DEF AdvanceWindow, AcksSent
    <3>2. base' - 1 <= acked' /\ acked' \in 0 .. have' /\ acked <= acked'
      BY <2>1, <3>1, Numbers
    <3> QED BY <1>1, <2>1, <3>2
  <2>3. CASE IgnoreAck
    BY <1>2, <2>1, <2>3 DEF IgnoreAck
  <2> QED BY <1>4, <2>2, <2>3, RecvAckCases
<1>5. CASE RecvError \/ IoError \/ SeeShutdown \/ Lose \/ CancelShutdown
  BY <1>2, <1>5 DEF RecvError, IoError, SeeShutdown, Lose, CancelShutdown
<1>6. ASSUME base' = base, acked' \in acked .. have',
             toServer' = toServer \/ \E k \in 0 .. acked' : toServer' = toServer \cup {Ack(k)}
      PROVE  AcksSent'
  <2>1. base' - 1 <= acked' /\ acked' \in 0 .. have' /\ acked <= acked'
    BY <1>0, <1>6, Numbers DEF AcksSent
  <2> QED BY <1>1, <1>6, <2>1
<1>7. CASE ClientRecvOack
  BY <1>6, <1>7, Numbers DEF ClientRecvOack
<1>8. CASE ClientRecvData
  <2> PICK k \in 1 .. windowEnd :
         /\ UNCHANGED <<serverVars, shutdown, stateVars, losses, reAcks>>
         /\ \/ /\ k = have + 1 /\ have' = have + 1
               /\ clientPhase' \in {"receive", "done"}
               /\ \/ acked' = have + 1 /\ toServer' = toServer \cup {Ack(have + 1)}
                  \/ /\ k # Total /\ have + 1 < acked + WindowSize
                     /\ UNCHANGED <<acked, toServer>>
            \/ /\ k # have + 1 /\ have' = have /\ clientPhase' = clientPhase
               /\ \/ acked' = have /\ toServer' = toServer \cup {Ack(have)}
                  \/ have = 0 /\ UNCHANGED <<acked, toServer>>
    BY <1>8, RecvDataCases
  <2> QED BY <1>6, Numbers
<1>9. CASE ClientTimeout
  BY <1>6, <1>9, Numbers DEF ClientTimeout
<1>10. CASE ClientRecvError \/ ClientAbort
  BY <1>10, <1>0 DEF ClientRecvError, ClientAbort, Deliver, OnlyLosses, Peace
<1> QED
  BY <1>3, <1>4, <1>5, <1>7, <1>8, <1>9, <1>10 DEF Next, Server, Client

\* The client's part: what is under way stays so until the server gets its ACK.
LEMMA StaysUnderWay ==
  ASSUME OnlyLosses, IInv, LossInv, Client, UnderWay PROVE UnderWay'
<1>0. /\ {"abort", "early_timeout", "reorder"} \cap Faults = {}
      /\ Peace /\ AcksSent
  BY DEF OnlyLosses, LossInv
<1>1. UNCHANGED <<phase, base, windowEnd>> /\ toServer \subseteq toServer'
  BY DEF Client, ClientRecvOack, ClientRecvData, ClientAppend, ClientReject, ClientTimeout,
         ClientRecvError, ClientAbort, serverVars
<1>2. CASE phase = "oack"
  <2>1. CASE Ack(0) \in toServer
    BY <1>1, <1>2, <2>1 DEF UnderWay
  <2>2. CASE Oack \in toClient'
    BY <1>1, <1>2, <2>2 DEF UnderWay
  <2>3. CASE Oack \in toClient /\ Oack \notin toClient'
    <3>1. ClientRecvOack
      BY <2>3 DEF Client, ClientRecvData, ClientTimeout, ClientRecvError, ClientAbort, Deliver,
                  Oack, Error
    <3>2. clientPhase \in {"request", "receive"} /\ have = 0
      BY <1>0, <1>2, Numbers DEF Peace
    <3>3. Ack(0) \in toServer'
      BY <3>1, <3>2 DEF ClientRecvOack
    <3> QED BY <1>1, <1>2, <3>3 DEF UnderWay
  <2> QED BY <1>2, <2>1, <2>2, <2>3 DEF UnderWay
<1>3. CASE phase = "wait" /\ AckUnderWay
  BY <1>1, <1>3 DEF UnderWay, AckUnderWay
<1>4. ASSUME phase = "wait", AnswerDue \/ WindowUnderWay PROVE UnderWay'
  <2>1. ~ClientTimeout /\ ~ClientRecvError /\ ~ClientAbort
    BY <1>0, SomethingInFlight
    DEF ClientTimeout, TimerMayExpire, ClientRecvError, ClientAbort, Deliver, Peace
  <2>2. CASE ClientRecvOack
    <3>1. UNCHANGED <<have, acked>> /\ \A n \in Nat : Data(n) \in toClient => Data(n) \in toClient'
      BY <2>2 DEF ClientRecvOack, Deliver, Data, Oack
    <3>2. AnswerDue => AnswerDue'
      BY <1>1, <3>1, Numbers DEF AnswerDue
    <3>3. WindowUnderWay => WindowUnderWay'
      BY <1>1, <3>1, Numbers DEF WindowUnderWay
    <3> QED BY <1>1, <1>4, <3>2, <3>3 DEF UnderWay
  <2>3. CASE ClientRecvData
    <3> PICK k \in 1 .. windowEnd :
           /\ Data(k) \in toClient /\ toClient \ {Data(k)} \subseteq toClient'
           /\ toClient' \subseteq toClient
           /\ \A n \in 1 .. windowEnd : Data(n) \in toClient => k <= n
           /\ UNCHANGED <<serverVars, shutdown, stateVars, losses, reAcks>>
           /\ \/ /\ k = have + 1 /\ have' = have + 1
                 /\ clientPhase' \in {"receive", "done"}
                 /\ \/ acked' = have + 1 /\ toServer' = toServer \cup {Ack(have + 1)}
                    \/ /\ k # Total /\ have + 1 < acked + WindowSize
                       /\ UNCHANGED <<acked, toServer>>
              \/ /\ k # have + 1 /\ have' = have /\ clientPhase' = clientPhase
                 /\ \/ acked' = have /\ toServer' = toServer \cup {Ack(have)}
                    \/ have = 0 /\ UNCHANGED <<acked, toServer>>
      BY <2>3, RecvDataCases
    <3>0. \A n \in Nat : n # k /\ Data(n) \in toClient => Data(n) \in toClient'
      BY DEF Data
    <3>1. CASE \E n \in base .. windowEnd : toServer' = toServer \cup {Ack(n)}
      BY <1>1, <1>4, <3>1 DEF UnderWay, AckUnderWay
    <3>2. CASE k # have + 1 /\ have >= base
      <4>1. toServer' = toServer \cup {Ack(have)} /\ have \in base .. windowEnd
        BY <3>2, Numbers
      <4> QED BY <3>1, <4>1
    <3>3. CASE k # have + 1 /\ have < base
      <4>1. WindowUnderWay /\ have = base - 1 /\ have' = have
        BY <1>4, <3>3, Numbers DEF AnswerDue
      <4>2. acked' = base' - 1
        BY <1>1, <3>3, <4>1 DEF WindowUnderWay
      <4>3. k < have + 1
        <5>1. have + 1 \in 1 .. windowEnd /\ Data(have + 1) \in toClient
          BY <4>1, Numbers DEF WindowUnderWay
        <5> QED BY <3>3, <5>1, Numbers
      <4>4. \A n \in (have + 1) .. windowEnd : Data(n) \in toClient'
        BY <3>0, <4>1, <4>3, Numbers DEF WindowUnderWay
      <4>5. WindowUnderWay'
        BY <1>1, <4>1, <4>2, <4>4 DEF WindowUnderWay
      <4> QED BY <1>1, <1>4, <4>5 DEF UnderWay
    <3>4. CASE k = have + 1 /\ UNCHANGED <<acked, toServer>>
      <4>0. /\ have' = have + 1 /\ k # Total /\ have + 1 < acked + WindowSize
        BY <3>4, Numbers
      <4>1. CASE AnswerDue
        <5> PICK n \in 1 .. have : Data(n) \in toClient
          BY <4>1 DEF AnswerDue
        <5>1. n # k /\ n \in Nat /\ n \in 1 .. have'
          BY <3>4, <4>0, Numbers
        <5>2. have' >= base'
          BY <1>1, <4>0, <4>1, Numbers DEF AnswerDue
        <5> QED BY <1>1, <1>4, <3>0, <5>1, <5>2 DEF UnderWay, AnswerDue
      <4>2. CASE WindowUnderWay
        <5>1. windowEnd = WindowEnd(base) /\ have + 1 < base - 1 + WindowSize /\ k <= windowEnd
          BY <1>4, <4>0, <4>2, Numbers DEF WindowUnderWay
        <5>2. have + 1 < windowEnd
          BY <3>4, <4>0, <5>1, Numbers, BoundFacts DEF WindowEnd
        <5>3. \A n \in (have + 2) .. windowEnd : n # k /\ n \in Nat /\ Data(n) \in toClient
          BY <3>4, <4>2, Numbers DEF WindowUnderWay
        <5>4. \A n \in (have' + 1) .. windowEnd' : Data(n) \in toClient'
          BY <1>1, <3>0, <4>0, <5>3, Numbers
        <5>5. WindowUnderWay'
          BY <1>1, <3>4, <4>0, <4>2, <5>2, <5>4 DEF WindowUnderWay
        <5> QED BY <1>1, <1>4, <5>5 DEF UnderWay
      <4> QED BY <1>4, <4>1, <4>2
    <3>5. CASE k = have + 1 /\ toServer' = toServer \cup {Ack(have + 1)}
      <4>1. have + 1 \in base .. windowEnd
        BY <3>5, <1>4, Numbers
      <4> QED BY <3>1, <3>5, <4>1
    <3> QED BY <3>2, <3>3, <3>4, <3>5, Numbers
  <2> QED BY <2>1, <2>2, <2>3 DEF Client
<1> QED BY <1>2, <1>3, <1>4 DEF UnderWay

\* Each expiry of a timer uses up a loss, and is followed by a packet or a window.
LEMMA CountNext ==
  ASSUME OnlyLosses, IInv, IInv', LossInv, AcksSent', Next PROVE TimeoutsAreLosses'
<1>0. Peace /\ AcksSent /\ TimeoutsAreLosses
  BY DEF LossInv
<1>1. ASSUME UNCHANGED <<phase, retries>>, losses' = losses, UnderWay => UnderWay'
      PROVE  TimeoutsAreLosses'
  BY <1>0, <1>1 DEF TimeoutsAreLosses
<1>2. ASSUME phase' = "wait", retries' <= losses',
             \A n \in base' .. windowEnd' : Data(n) \in toClient'
      PROVE  TimeoutsAreLosses'
  <2>1. (IInv /\ AcksSent /\ phase = "wait" /\ (\A n \in base .. windowEnd : Data(n) \in toClient))'
    BY <1>2
  <2>2. UnderWay'
    BY <2>1, WindowSentNext
  <2> QED BY <1>2, <2>2 DEF TimeoutsAreLosses
<1>3. CASE Request
  BY <1>3 DEF Request, TimeoutsAreLosses
<1>4. CASE Start /\ HasOptions
  <2>1. /\ phase' = "oack" /\ Oack \in toClient' /\ UNCHANGED <<retries, losses>> /\ retries = 0
    BY <1>0, <1>4 DEF Start, Peace
  <2> QED BY <2>1, Numbers DEF TimeoutsAreLosses, UnderWay
<1>5. CASE BeginTransfer /\ SendWindow(1, WindowEnd(1)) /\ UNCHANGED losses
  <2>1. /\ phase' = "wait" /\ retries' = 0 /\ base' = 1 /\ windowEnd' = WindowEnd(1)
        /\ \A n \in base' .. windowEnd' : Data(n) \in toClient'
    BY <1>5 DEF BeginTransfer, SendWindow
  <2>2. retries' <= losses'
    BY <1>5, <2>1, Numbers
  <2> QED BY <1>2, <2>1, <2>2
<1>6. CASE RecvInvalid
  <2>1. invalid + 1 <= MaxRetries * 10
    BY <1>6, Numbers DEF RecvInvalid, OnlyLosses
  <2>2. ~(invalid' > MaxRetries * 10)
    BY <1>6, <2>1, Numbers DEF RecvInvalid
  <2>3. UNCHANGED <<phase, retries, losses, toClient, toServer>> /\ phase = "oack"
    BY <1>6, <2>2 DEF RecvInvalid, networkVars
  <2> QED BY <1>1, <2>3 DEF UnderWay
<1>7. CASE OackTimeout
  <2>1. /\ phase = "oack" /\ retries' = retries + 1 /\ losses' = losses
        /\ retries + 1 <= losses /\ ~OutOfRetries(retries')
    BY <1>7, TimerMeansLoss DEF OackTimeout, CountRetry
  <2>2. phase' = "oack" /\ Oack \in toClient'
    BY <1>7, <2>1 DEF OackTimeout
  <2>3. UnderWay'
    BY <2>2 DEF UnderWay
  <2> QED BY <2>1, <2>3 DEF TimeoutsAreLosses
<1>8. CASE WindowTimeout
  <2>1. /\ phase = "wait" /\ retries' = retries + 1 /\ losses' = losses
        /\ retries + 1 <= losses /\ ~OutOfRetries(retries')
    BY <1>8, TimerMeansLoss DEF WindowTimeout, CountRetry
  <2>2. phase' = "wait" /\ \A n \in base' .. windowEnd' : Data(n) \in toClient'
    BY <1>8, <2>1 DEF WindowTimeout, SendWindow
  <2>3. retries' <= losses'
    BY <2>1
  <2> QED BY <1>2, <2>2, <2>3
<1>9. CASE RecvAck
  <2>1. phase = "wait" /\ losses' = losses /\ UNCHANGED <<have, acked>>
    BY <1>9, RecvAckCases DEF clientVars
  <2>2. CASE \E n \in base .. windowEnd : AdvanceWindow(n)
    <3> PICK n \in base .. windowEnd : AdvanceWindow(n)
      BY <2>2
    <3>1. CASE n + 1 > Total
      BY <3>1 DEF AdvanceWindow, Finish, TimeoutsAreLosses
    <3>2. CASE ~(n + 1 > Total)
      <4>1. /\ phase' = "wait" /\ retries' = 0
            /\ \A k \in base' .. windowEnd' : Data(k) \in toClient'
        BY <2>1, <3>2 DEF AdvanceWindow, SendWindow
      <4>2. retries' <= losses'
        BY <2>1, <4>1, Numbers
      <4> QED BY <1>2, <4>1, <4>2
    <3> QED BY <3>1, <3>2
  <2>3. CASE IgnoreAck /\ \A n \in base .. windowEnd : Ack(n) \in toServer => Ack(n) \in toServer'
    <3>1. UNCHANGED <<phase, retries, base, windowEnd, toClient>>
      BY <2>3 DEF IgnoreAck, serverVars
    <3>2. UnderWay => UnderWay'
      BY <2>1, <2>3, <3>1 DEF UnderWay, AckUnderWay, AnswerDue, WindowUnderWay
    <3> QED BY <1>1, <2>1, <3>1, <3>2
  <2> QED BY <1>9, <2>2, <2>3, RecvAckCases
<1>10. CASE RecvError \/ IoError \/ SeeShutdown \/ CancelShutdown
  BY <1>0, <1>10 DEF RecvError, IoError, SeeShutdown, CancelShutdown, OnlyLosses, Peace
<1>11. CASE Client
  <2>1. UNCHANGED <<phase, retries, losses>>
    BY <1>11
    DEF Client, ClientRecvOack, ClientRecvData, ClientTimeout, ClientRecvError, ClientAbort,
        serverVars
  <2> QED BY <1>1, <1>11, <2>1, StaysUnderWay
<1>12. CASE Lose
  <2>1. UNCHANGED <<phase, retries>> /\ losses' = losses + 1
    BY <1>12 DEF Lose, serverVars
  <2>2. phase \in {"oack", "wait"} => retries' <= losses' /\ retries' < losses'
    BY <1>0, <2>1, Numbers DEF TimeoutsAreLosses
  <2> QED BY <2>1, <2>2 DEF TimeoutsAreLosses
<1> QED
  BY <1>3, <1>4, <1>5, <1>6, <1>7, <1>8, <1>9, <1>10, <1>11, <1>12
  DEF Next, Server, Start, RecvOackAck

LEMMA LossNext ==
  ASSUME OnlyLosses, IInv, IInv', LossInv, [Next]_vars PROVE LossInv'
<1>1. CASE Next
  BY <1>1, PeaceNext, AcksNext, CountNext DEF LossInv
<1>2. CASE UNCHANGED vars
  BY <1>2
  DEF vars, serverVars, stateVars, networkVars, clientVars, LossInv, Peace, AcksSent,
      TimeoutsAreLosses, UnderWay, AckUnderWay, AnswerDue, WindowUnderWay
<1> QED BY <1>1, <1>2

-----------------------------------------------------------------------------
(***************************************************************************)
(* The lifetime of packets                                                 *)
(***************************************************************************)

\* Less than a full turn behind what the receiver of the packet waits for
YoungData(n) == n + WireMod > have + 1
YoungAck(n)  == n + WireMod > windowEnd

\* No packet in flight is too old to be delivered.
NothingDead ==
  /\ \A n \in 1 .. Total : Data(n) \in toClient => YoungData(n)
  /\ \A n \in 0 .. Total : Ack(n) \in toServer => YoungAck(n)

\* The numbers that a window keeps close together
LEMMA Close ==
  IInv => /\ base \in 1 .. (Total + 1) /\ windowEnd \in 0 .. Total /\ have \in 0 .. Total
          /\ windowEnd <= base + WindowSize - 1 /\ base - 1 <= have /\ have <= windowEnd
          /\ Total \in Nat /\ Total >= 1
          /\ WindowSize \in Nat /\ WireMod \in Nat /\ WindowSize < WireMod /\ WireMod >= 2
          /\ phase \in {"request", "start", "oack"} => base = 1 /\ windowEnd = 0
          /\ toClient \subseteq {Oack, Error} \cup {Data(n) : n \in 1 .. Total}
          /\ toServer \subseteq {Error} \cup {Ack(n) : n \in 0 .. Total}
BY TotalFacts, BoundFacts, WireModAssumption
DEF IInv, TypeOK, NeverAheadOfClient, PacketsInv, PhaseInv

LEMMA NextWindow ==
  ASSUME NEW k \in Nat, k + 1 \in 1 .. Total
  PROVE  WindowEnd(k + 1) \in (k + 1) .. Total /\ WindowEnd(k + 1) <= k + WindowSize
BY TotalFacts, BoundFacts DEF WindowEnd

\* DATA stays alive while the client stands still: what is sent is of the window.
LEMMA OldData ==
  ASSUME IInv, NothingDead, have' = have,
         toClient' \subseteq toClient \cup {Oack, Error} \cup {Data(n) : n \in base' .. windowEnd'},
         base' \in Nat, base' >= 1, windowEnd' \in Nat, have <= base' - 1 + WindowSize
  PROVE  \A n \in 1 .. Total : Data(n) \in toClient' => YoungData(n)'
<1> SUFFICES ASSUME NEW n \in 1 .. Total, Data(n) \in toClient'
             PROVE  n + WireMod > have' + 1
  BY DEF YoungData
<1>1. CASE Data(n) \in toClient
  BY <1>1 DEF NothingDead, YoungData
<1>2. CASE n \in base' .. windowEnd'
  BY <1>2, Close
<1> QED BY <1>1, <1>2 DEF Data, Oack, Error

\* An ACK stays alive while the window stands still: what is sent is of now.
LEMMA OldAcks ==
  ASSUME IInv, NothingDead, windowEnd' = windowEnd,
         \A p \in toServer' : p \in toServer \/ p = Error \/ p \in {Ack(have), Ack(have + 1)}
  PROVE  \A n \in 0 .. Total : Ack(n) \in toServer' => YoungAck(n)'
<1> SUFFICES ASSUME NEW n \in 0 .. Total, Ack(n) \in toServer'
             PROVE  n + WireMod > windowEnd'
  BY DEF YoungAck
<1>1. CASE Ack(n) \in toServer
  BY <1>1 DEF NothingDead, YoungAck
<1>2. CASE n \in {have, have + 1}
  BY <1>2, Close
<1> QED BY <1>1, <1>2 DEF Ack, Error

\* The window moves only when the oldest ACK in flight is read.
LEMMA OldestAck ==
  ASSUME IInv, NothingDead, "reorder" \notin Faults, RecvAck
  PROVE  NothingDead'
<1> PICK m \in toServer :
      /\ m.type = "ACK" /\ AckAlive(m.n)
      /\ Deliver(toServer, m, toServer')
      /\ LET abs == BlockToAbsolute(WireBlock(m.n), base)
         IN  IF AckInWindow(abs) THEN AdvanceWindow(abs) ELSE IgnoreAck
  BY DEF RecvAck
<1> DEFINE abs == BlockToAbsolute(WireBlock(m.n), base)
<1>0. phase = "wait" /\ have' = have
  BY DEF RecvAck, clientVars
<1>1. toServer' \subseteq toServer /\ \A n \in 0 .. Total : Ack(n) \in toServer => m.n <= n
  BY DEF Deliver, Ack
<1>2. m.n \in 0 .. have
  BY DEF IInv, PacketsInv, Ack, Error
<1>3. CASE ~AckInWindow(abs) \/ abs + 1 > Total
  <2>1. windowEnd' = windowEnd /\ toClient' = toClient
    BY <1>3 DEF IgnoreAck, AdvanceWindow, serverVars
  <2>2. \A n \in 0 .. Total : Ack(n) \in toServer' => YoungAck(n)'
    BY <1>1, <2>1, OldAcks
  <2>3. \A n \in 1 .. Total : Data(n) \in toClient' => YoungData(n)'
    BY <1>0, <2>1 DEF NothingDead, YoungData
  <2> QED BY <2>2, <2>3 DEF NothingDead
<1>4. CASE AckInWindow(abs) /\ ~(abs + 1 > Total)
  <2>1. abs = m.n /\ m.n \in base .. windowEnd
    BY <1>0, <1>2, <1>4, AckIsExact, Close
  <2>2. /\ base' = m.n + 1 /\ windowEnd' = WindowEnd(m.n + 1)
        /\ toClient' = toClient \cup {Data(n) : n \in (m.n + 1) .. WindowEnd(m.n + 1)}
    BY <1>4, <2>1 DEF AdvanceWindow, SendWindow
  <2>3. /\ m.n + 1 \in 1 .. Total
        /\ WindowEnd(m.n + 1) \in (m.n + 1) .. Total
        /\ WindowEnd(m.n + 1) <= m.n + WindowSize
    <3>1. m.n + 1 \in 1 .. Total
      BY <1>4, <2>1, Close
    <3>2. m.n \in Nat
      BY <1>2, Close
    <3> QED BY <3>1, <3>2, NextWindow
  <2>4. ASSUME NEW n \in 0 .. Total, Ack(n) \in toServer' PROVE YoungAck(n)'
    <3>1. m.n <= n
      BY <1>1, <2>4
    <3>2. windowEnd' <= m.n + WindowSize /\ windowEnd' \in Nat /\ m.n \in Nat
      BY <1>2, <2>2, <2>3, Close
    <3>3. n + WireMod > windowEnd'
      BY <2>4, <3>1, <3>2, Close
    <3> QED BY <3>3 DEF YoungAck
  <2>5. \A n \in 1 .. Total : Data(n) \in toClient' => YoungData(n)'
    <3>1. have <= base' - 1 + WindowSize /\ base' \in Nat /\ base' >= 1 /\ windowEnd' \in Nat
      BY <2>1, <2>2, <2>3, Close
    <3> QED BY <1>0, <2>2, <3>1, OldData
  <2> QED BY <2>4, <2>5 DEF NothingDead
<1> QED BY <1>3, <1>4

\* The client moves only when the oldest block in flight is the one it waits for.
LEMMA OldestData ==
  ASSUME IInv, NothingDead, "reorder" \notin Faults, ClientRecvData
  PROVE  NothingDead'
<1> PICK m \in toClient :
      /\ m.type = "DATA" /\ DataAlive(m.n)
      /\ Deliver(toClient, m, toClient')
      /\ ClientAppend(m) \/ ClientReject(m)
  BY DEF ClientRecvData
<1>0. windowEnd' = windowEnd
  BY DEF ClientRecvData, serverVars
<1>1. toClient' \subseteq toClient /\ \A n \in 1 .. Total : Data(n) \in toClient => m.n <= n
  BY DEF Deliver, Data
<1>2. m.n \in 1 .. Total /\ m.n <= windowEnd
  BY TotalFacts DEF IInv, TypeOK, PacketsInv, Data, Oack, Error
<1>3. \A n \in 0 .. Total : Ack(n) \in toServer' => YoungAck(n)'
  BY <1>0, OldAcks DEF ClientAppend, ClientReject
<1>4. \A n \in 1 .. Total : Data(n) \in toClient' => YoungData(n)'
  <2>1. CASE ClientReject(m)
    BY <1>1, <2>1 DEF ClientReject, NothingDead, YoungData
  <2>2. CASE ClientAppend(m)
    <3>1. m.n = have + 1 /\ have' = have + 1
      BY <1>2, <2>2, AppendIsExact DEF ClientAppend
    <3>2. ASSUME NEW n \in 1 .. Total, Data(n) \in toClient' PROVE YoungData(n)'
      <4>1. have + 1 <= n
        BY <1>1, <3>1, <3>2
      <4> QED BY <3>1, <4>1, Close DEF YoungData
    <3> QED BY <3>2
  <2> QED BY <2>1, <2>2
<1> QED BY <1>3, <1>4 DEF NothingDead

LEMMA DeadNext ==
  ASSUME IInv, NothingDead, "reorder" \notin Faults, [Next]_vars PROVE NothingDead'
<1> USE DEF serverVars, stateVars, networkVars, clientVars
<1>1. ASSUME have' = have, base' = base, windowEnd' = windowEnd,
             toClient' \subseteq toClient \cup {Oack, Error} \cup {Data(n) : n \in base' .. windowEnd'},
             \A p \in toServer' : p \in toServer \/ p = Error \/ p \in {Ack(have), Ack(have + 1)}
      PROVE  NothingDead'
  <2>1. have <= base' - 1 + WindowSize /\ base' \in Nat /\ base' >= 1 /\ windowEnd' \in Nat
    BY <1>1, Close
  <2> QED BY <1>1, <2>1, OldData, OldAcks DEF NothingDead
<1>2. CASE Start \/ RecvOackAck
  <2>1. CASE phase' = "oack"
    BY <1>1, <1>2, <2>1 DEF Start, RecvOackAck, BeginTransfer
  <2>2. CASE phase' # "oack"
    <3>1. /\ phase \in {"start", "oack"} /\ have' = have /\ toServer' \subseteq toServer
          /\ base' = 1 /\ windowEnd' = WindowEnd(1)
          /\ toClient' = toClient \cup {Data(n) : n \in 1 .. WindowEnd(1)}
      BY <1>2, <2>2 DEF Start, RecvOackAck, BeginTransfer, SendWindow, Deliver
    <3>2. /\ WindowEnd(1) \in 1 .. Total /\ WindowEnd(1) <= WindowSize
          /\ have = 0
      <4>1. 1 \in 1 .. Total
        BY Close
      <4> QED BY <3>1, <4>1, WindowEndFacts, Close
    <3>3. \A n \in 1 .. Total : Data(n) \in toClient' => YoungData(n)'
      <4>1. have <= base' - 1 + WindowSize /\ base' \in Nat /\ base' >= 1 /\ windowEnd' \in Nat
        BY <3>1, <3>2, Close
      <4> QED BY <3>1, <4>1, OldData
    <3>4. \A n \in 0 .. Total : YoungAck(n)'
      BY <3>1, <3>2, Close DEF YoungAck
    <3> QED BY <3>3, <3>4 DEF NothingDead
  <2> QED BY <2>1, <2>2
<1>3. CASE Request \/ RecvInvalid \/ OackTimeout
  BY <1>1, <1>3 DEF Request, RecvInvalid, OackTimeout
<1>4. CASE WindowTimeout
  BY <1>1, <1>4 DEF WindowTimeout, SendWindow
<1>5. CASE RecvError \/ IoError \/ SeeShutdown
  BY <1>1, <1>5 DEF RecvError, IoError, SeeShutdown
<1>6. CASE ClientRecvOack \/ ClientTimeout \/ ClientRecvError \/ ClientAbort
  BY <1>1, <1>6 DEF ClientRecvOack, ClientTimeout, ClientRecvError, ClientAbort, Deliver
<1>7. CASE Lose \/ CancelShutdown \/ UNCHANGED vars
  BY <1>1, <1>7 DEF Lose, CancelShutdown, vars
<1> QED
  BY <1>2, <1>3, <1>4, <1>5, <1>6, <1>7, OldestAck, OldestData DEF Next, Server, Client

-----------------------------------------------------------------------------
(***************************************************************************)
(* Theorems                                                                *)
(***************************************************************************)

THEOREM Invariance == HalfRange => (Spec => []IInv)
<1>1. IInv /\ [Next]_vars => IInv'
  BY NextInv
<1> QED BY InitInv, <1>1, PTL DEF Spec

\* Type correctness
THEOREM TypeCorrect == HalfRange => (Spec => []TypeOK)
<1>1. IInv => TypeOK
  BY DEF IInv
<1> QED BY <1>1, Invariance, PTL

\* The server never counts a block the client does not hold: stale, repeated,
\* overtaken and reordered packets are told apart by their 16-bit numbers for any
\* file length and any window of less than half the block numbers.
THEOREM NoWrongBlock == HalfRange => (Spec => []NeverAheadOfClient)
<1>1. IInv => NeverAheadOfClient
  BY DEF IInv
<1> QED BY <1>1, Invariance, PTL

\* The client appends every block once and in order.
THEOREM BlocksInOrder == HalfRange => (Spec => []FileIntact)
<1>1. IInv => FileIntact
  BY DEF IInv
<1> QED BY <1>1, Invariance, PTL

\* A session recorded as Completed has delivered every block and reported the
\* size of the file, when its window is less than half the block numbers.
THEOREM CompletionIsTrue == HalfRange => (Spec => [](CompletedMeansDelivered /\ ReportedBytes))
<1>1. IInv => CompletedMeansDelivered /\ ReportedBytes
  <2> SUFFICES ASSUME IInv, status = "Completed"
               PROVE  got = 1 .. Total /\ bytes = FileSize /\ totalTx = FileSize
    BY DEF CompletedMeansDelivered, ReportedBytes
  <2>1. base - 1 = Total
    BY TotalFacts DEF IInv, PhaseInv
  <2>2. have = Total
    BY <2>1, TotalFacts DEF IInv, TypeOK, NeverAheadOfClient
  <2> QED BY <2>1, <2>2, TotalFacts DEF IInv, FileIntact, BytesInv
<1> QED BY <1>1, Invariance, PTL

\* total_bytes_tx and the size of the record are the size of the file.
THEOREM ReportIsTrue == HalfRange => (Spec => []ReportedBytes)
BY CompletionIsTrue, PTL

\* What a step does to the three variables of the abstract transfer: the
\* session goes on or gives up, nothing, the receiver or the sender moves on.
OpenPhases == {"request", "start", "oack", "wait"}
SessionOnly  == UNCHANGED <<base, have>> /\ phase \in OpenPhases
                                         /\ phase' \in OpenPhases \cup {"rejected", "failed"}
NoMove       == UNCHANGED <<base, have, phase>>
ReceiverMove == UNCHANGED <<base, phase>> /\ have' = have + 1
SenderMove   == /\ UNCHANGED have /\ phase = "wait" /\ base' > base
                /\ phase' = IF base' > Total THEN "done" ELSE "wait"

LEMMA MoveFacts ==
  ASSUME NEW t \in Nat, NEW h \in 0 .. t, NEW b \in 1 .. (t + 1), NEW c \in 1 .. (t + 1),
         c > b, c - 1 <= h
  PROVE  /\ c - 1 \in ((b - 1) + 1) .. h
         /\ c > t => c - 1 = t
         /\ ~(c > t) => c - 1 # t
OBVIOUS

LEMMA StepMaps ==
  ASSUME IInv, IInv', SessionOnly \/ NoMove \/ ReceiverMove \/ SenderMove
  PROVE  [Transfer!Next]_Transfer!vars
<1>0. /\ have \in 0 .. Total /\ have' \in 0 .. Total /\ base \in 1 .. (Total + 1)
      /\ base' \in 1 .. (Total + 1) /\ base - 1 <= have /\ base' - 1 <= have'
  BY DEF IInv, TypeOK, NeverAheadOfClient
<1>1. CASE SessionOnly
  BY <1>1 DEF SessionOnly, OpenPhases, Transfer!Next, Transfer!GiveUp, Transfer!vars
<1>2. CASE NoMove
  BY <1>2 DEF NoMove, Transfer!vars
<1>3. CASE ReceiverMove
  BY <1>0, <1>3, TotalFacts DEF ReceiverMove, Transfer!Next, Transfer!Deliver
<1>4. CASE SenderMove
  <2>1. /\ base' - 1 \in ((base - 1) + 1) .. have
        /\ base' > Total => base' - 1 = Total
        /\ ~(base' > Total) => base' - 1 # Total
    <3>1. UNCHANGED have /\ base' > base
      BY <1>4 DEF SenderMove
    <3> QED BY <1>0, <3>1, TotalFacts, MoveFacts
  <2> QED BY <1>4, <2>1 DEF SenderMove, Transfer!Next, Transfer!Confirm
<1> QED BY <1>1, <1>2, <1>3, <1>4

\* No step sends DATA but for blocks of the current window, none sends DATA
\* because of an ACK that leaves the window where it is, and each that sends
\* has one transmission less left: duplicated, replayed and junk packets never
\* buy a peer more than (Total + 1) * (max_retries + 1) answers to one request.
THEOREM DuplicatesCauseNothing == HalfRange => (Spec => NoAmplification)
<1> DEFINE Step ==
      /\ toClient' \ toClient \subseteq {Oack, Error} \cup {Data(n) : n \in base' .. windowEnd'}
      /\ phase = "wait" /\ base' = base /\ retries' = retries => toClient' \subseteq toClient
      /\ SendsLeft' <= SendsLeft
      /\ toClient' \subseteq toClient \/ SendsLeft' < SendsLeft
<1>0. ASSUME IInv, IInv', [Next]_vars
      PROVE  /\ SendsLeft' <= SendsLeft
             /\ toClient' \subseteq toClient \/ SendsLeft' < SendsLeft
  BY <1>0, SendsArePaid
<1>1. ASSUME IInv, [Next]_vars
      PROVE  /\ toClient' \ toClient \subseteq {Oack, Error} \cup {Data(n) : n \in base' .. windowEnd'}
             /\ phase = "wait" /\ base' = base /\ retries' = retries => toClient' \subseteq toClient
  <2>1. CASE Start \/ RecvOackAck
    BY <1>1, <2>1 DEF Start, RecvOackAck, BeginTransfer, SendWindow, IInv, PhaseInv
  <2>2. CASE RecvAck
    <3> PICK m \in toServer :
          /\ m.type = "ACK" /\ AckAlive(m.n)
          /\ LET abs == BlockToAbsolute(WireBlock(m.n), base)
             IN  IF AckInWindow(abs) THEN AdvanceWindow(abs) ELSE IgnoreAck
      BY <2>2 DEF RecvAck
    <3>1. m.n \in Nat /\ m.n <= have /\ phase = "wait"
      BY <1>1, <2>2 DEF RecvAck, IInv, PacketsInv, Ack, Error
    <3> DEFINE abs == BlockToAbsolute(WireBlock(m.n), base)
    <3>2. CASE AckInWindow(abs)
      <4>1. abs = m.n /\ m.n \in base .. windowEnd
        BY <1>1, <3>1, <3>2, AckIsExact
      <4>2. AdvanceWindow(m.n)
        BY <3>2, <4>1
      <4>3. base' = m.n + 1 /\ base' # base
        BY <1>1, <4>1, <4>2 DEF AdvanceWindow, IInv, TypeOK
      <4> QED BY <4>2, <4>3 DEF AdvanceWindow, SendWindow
    <3>3. CASE ~AckInWindow(abs)
      BY <3>3 DEF IgnoreAck
    <3> QED BY <3>2, <3>3
  <2>3. CASE OackTimeout
    BY <1>1, <2>3 DEF OackTimeout
  <2>4. CASE WindowTimeout
    <3>1. retries' # retries
      BY <1>1, <2>4 DEF WindowTimeout, CountRetry, IInv, TypeOK
    <3> QED BY <2>4, <3>1 DEF WindowTimeout, SendWindow
  <2>5. CASE RecvInvalid \/ RecvError \/ IoError \/ SeeShutdown
    BY <2>5 DEF RecvInvalid, RecvError, IoError, SeeShutdown, networkVars
  <2>6. CASE ClientRecvOack \/ ClientRecvData \/ ClientRecvError
    BY <2>6 DEF ClientRecvOack, ClientRecvData, ClientRecvError, Deliver
  <2>7. CASE Request
    BY <2>7 DEF Request
  <2>8. CASE \/ ClientTimeout \/ ClientAbort \/ Lose \/ CancelShutdown
             \/ UNCHANGED vars
    BY <2>8 DEF ClientTimeout, ClientAbort, Lose, CancelShutdown, vars, networkVars
  <2> QED
    BY <1>1, <2>1, <2>2, <2>3, <2>4, <2>5, <2>6, <2>7, <2>8 DEF Next, Server, Client
<1>2. IInv /\ IInv' /\ [Next]_vars => [Step]_vars
  BY <1>0, <1>1
<1> QED BY <1>2, Invariance, PTL DEF Spec, NoAmplification

\* What the server does for one request is bounded, whatever its peer sends and
\* however often the network repeats it: each step of run_read_session but an
\* ignored ACK uses up some of Fuel, which is at most the transmissions of every
\* block and of the OACK, the junk tolerated in the handshake, and two phases.
THEOREM ServerWorkIsBounded ==
  HalfRange =>
    (Spec => /\ [](Fuel \in 0 .. ((Total + 1) * (MaxRetries + 1) + MaxRetries * 10 + 3))
             /\ [][Fuel' < Fuel \/ UNCHANGED serverVars]_vars)
<1>1. ASSUME IInv PROVE Fuel \in 0 .. ((Total + 1) * (MaxRetries + 1) + MaxRetries * 10 + 3)
  <2>1. (Total + 1) * (MaxRetries + 1) \in Nat
    BY Rounds, TotalFacts
  <2> QED BY <1>1, <2>1, LeftType, BoundFacts DEF Fuel
<1>2. IInv /\ IInv' /\ [Next]_vars => [Fuel' < Fuel \/ UNCHANGED serverVars]_vars
  BY FuelStep
<1>3. IInv => Fuel \in 0 .. ((Total + 1) * (MaxRetries + 1) + MaxRetries * 10 + 3)
  BY <1>1
<1> QED BY <1>2, <1>3, Invariance, PTL DEF Spec

\* A session does not go on for ever unless the network multiplies packets:
\* every step of the server, the client, the network and the shutdown uses up
\* some of Work, a natural number, so that only finitely many steps are left
\* in any state.  With the fairness of FairSpec this is why SessionEnds holds.
THEOREM EveryStepCounts ==
  HalfRange /\ "duplicate" \notin Faults =>
    (Spec => [](Work \in Nat) /\ [][Work' < Work]_vars)
<1> SUFFICES ASSUME HalfRange, "duplicate" \notin Faults
             PROVE  Spec => [](Work \in Nat) /\ [][Work' < Work]_vars
  OBVIOUS
<1>1. IInv => Work \in Nat
  <2> SUFFICES ASSUME IInv PROVE Work \in Nat
    OBVIOUS
  <2> DEFINE w == 2 * WindowSize + 1
  <2>1. w \in Nat /\ Fuel \in Nat /\ Fuel < Fuel + 1 /\ Fuel + 1 \in Nat
    BY LeftNat, BoundFacts DEF Fuel
  <2>2. Fuel * w \in Nat
    BY <2>1, MulStep
  <2>3. Flight \in Nat
    BY FlightParts, BoundFacts DEF Flight
  <2> QED BY <2>2, <2>3 DEF Work
<1>2. IInv /\ IInv' /\ [Next]_vars => [Work' < Work]_vars
  BY WorkStep
<1> QED BY <1>1, <1>2, Invariance, PTL DEF Spec

\* The retry limit is a number of losses: where packets are only lost, at most
\* max_retries of any kind in the whole session, and repeated, and the junk in
\* the handshake is within what is tolerated, no session fails or is given up.
\* Every expiry of a timer has a loss of its own to show for it.
THEOREM LossesAreSurvived ==
  HalfRange /\ OnlyLosses =>
    (Spec => [](/\ phase \notin {"rejected", "failed"}
                /\ status \notin {"Failed", "Cancelled"}))
<1> SUFFICES ASSUME HalfRange, OnlyLosses
             PROVE  Spec => [](/\ phase \notin {"rejected", "failed"}
                               /\ status \notin {"Failed", "Cancelled"})
  OBVIOUS
<1>1. Init => LossInv
  BY DEF Init, LossInv, Peace, AcksSent, TimeoutsAreLosses
<1>2. IInv /\ IInv' /\ LossInv /\ [Next]_vars => LossInv'
  BY LossNext
<1>3. LossInv => phase \notin {"rejected", "failed"} /\ status \notin {"Failed", "Cancelled"}
  BY DEF LossInv, Peace
<1> QED BY <1>1, <1>2, <1>3, Invariance, PTL DEF Spec

\* The model does not deliver a packet that is a full turn of the block numbers
\* old.  Where the network keeps the order of packets that leaves nothing out:
\* however often packets are lost and repeated, none in flight gets that old.
THEOREM NothingDies ==
  HalfRange /\ "reorder" \notin Faults => (Spec => []NothingDead)
<1> SUFFICES ASSUME HalfRange, "reorder" \notin Faults PROVE Spec => []NothingDead
  OBVIOUS
<1>1. Init => NothingDead
  BY DEF Init, NothingDead
<1>2. IInv /\ NothingDead /\ [Next]_vars => NothingDead'
  BY DeadNext
<1> QED BY <1>1, <1>2, Invariance, PTL DEF Spec

\* The session implements the abstract transfer: the client's prefix only
\* grows, the server confirms only what the client holds, and it reports
\* success exactly when it has confirmed every block.
THEOREM Refinement == HalfRange => (Spec => ImplementsTransfer)
<1>1. Init => Transfer!Init
  BY DEF Init, Transfer!Init
<1>2. IInv /\ IInv' /\ [Next]_vars => [Transfer!Next]_Transfer!vars
  <2> SUFFICES ASSUME IInv, IInv', [Next]_vars PROVE [Transfer!Next]_Transfer!vars
    OBVIOUS
  <2>1. CASE Start
    BY <2>1, StepMaps
    DEF SessionOnly, OpenPhases, Start, BeginTransfer, clientVars, IInv, PhaseInv
  <2>2. CASE RecvOackAck
    BY <2>2, StepMaps
    DEF SessionOnly, OpenPhases, RecvOackAck, BeginTransfer, clientVars, IInv, PhaseInv
  <2>3. CASE RecvInvalid
    BY <2>3, StepMaps DEF SessionOnly, OpenPhases, RecvInvalid, Finish, clientVars
  <2>4. CASE OackTimeout
    BY <2>4, StepMaps DEF SessionOnly, OpenPhases, OackTimeout, Finish, clientVars
  <2>5. CASE RecvAck
    <3> PICK m \in toServer :
          /\ m.type = "ACK" /\ AckAlive(m.n)
          /\ LET abs == BlockToAbsolute(WireBlock(m.n), base)
             IN  IF AckInWindow(abs) THEN AdvanceWindow(abs) ELSE IgnoreAck
      BY <2>5 DEF RecvAck
    <3>1. m.n \in Nat /\ m.n <= have
      BY DEF IInv, PacketsInv, Ack, Error
    <3>2. phase = "wait" /\ UNCHANGED have
      BY <2>5 DEF RecvAck, clientVars
    <3> DEFINE abs == BlockToAbsolute(WireBlock(m.n), base)
    <3>3. CASE AckInWindow(abs)
      <4>1. abs = m.n /\ m.n \in base .. windowEnd
        BY <3>1, <3>2, <3>3, AckIsExact
      <4>2. AdvanceWindow(m.n)
        BY <3>3, <4>1
      <4>3. /\ base' > base
            /\ phase' = IF base' > Total THEN "done" ELSE "wait"
        BY <3>2, <4>1, <4>2 DEF AdvanceWindow, Finish, IInv, TypeOK
      <4> QED BY <3>2, <4>3, StepMaps DEF SenderMove
    <3>4. CASE ~AckInWindow(abs)
      BY <3>2, <3>4, StepMaps DEF NoMove, IgnoreAck, serverVars
    <3> QED BY <3>3, <3>4
  <2>6. CASE WindowTimeout
    BY <2>6, StepMaps DEF SessionOnly, OpenPhases, WindowTimeout, Finish, clientVars
  <2>7. CASE RecvError
    BY <2>7, StepMaps DEF SessionOnly, OpenPhases, RecvError, Finish, clientVars
  <2>8. CASE IoError
    BY <2>8, StepMaps DEF SessionOnly, OpenPhases, IoError, Finish, clientVars
  <2>9. CASE SeeShutdown
    BY <2>9, StepMaps DEF SessionOnly, OpenPhases, SeeShutdown, Finish, clientVars
  <2>10. CASE ClientRecvData
    <3> PICK m \in toClient :
          m.type = "DATA" /\ DataAlive(m.n) /\ (ClientAppend(m) \/ ClientReject(m))
      BY <2>10 DEF ClientRecvData
    <3>1. have' = have + 1 \/ UNCHANGED have
      BY DEF ClientAppend, ClientReject
    <3> QED BY <2>10, <3>1, StepMaps DEF NoMove, ReceiverMove, ClientRecvData, serverVars
  <2>11. CASE Request
    BY <2>11, StepMaps DEF SessionOnly, OpenPhases, Request, clientVars
  <2>12. CASE \/ ClientRecvOack \/ ClientTimeout \/ ClientAbort \/ ClientRecvError
              \/ Lose \/ CancelShutdown \/ UNCHANGED vars
    BY <2>12, StepMaps
    DEF NoMove, ClientRecvOack, ClientTimeout, ClientAbort, ClientRecvError, Lose,
        CancelShutdown, vars, serverVars, clientVars
  <2> QED
    BY <2>1, <2>2, <2>3, <2>4, <2>5, <2>6, <2>7, <2>8, <2>9, <2>10, <2>11,
       <2>12
    DEF Next, Server, Client
<1> QED
  BY <1>1, <1>2, Invariance, PTL DEF Spec, ImplementsTransfer, Transfer!Spec
=============================================================================
