----------------------------- MODULE ReadSession -----------------------------
(***************************************************************************)
(* One read (RRQ) session: the server task run_read_session with its OACK  *)
(* handshake, sliding window, retransmission and outcome, a TFTP client,   *)
(* and the UDP network between them.                                       *)
(*                                                                         *)
(* A packet carries the absolute number n of its block; what the code sees *)
(* of it is WireBlock(n).  Whether the network reorders and duplicates,    *)
(* whether timers may expire while packets are in flight, and which other  *)
(* faults occur is chosen by Faults; it may lose MaxLosses packets.        *)
(***************************************************************************)
EXTENDS TftpBlocks

CONSTANTS FileSize,     \* bytes to send (after netascii encoding)
          BlkSize,      \* negotiated blksize
          WindowSize,   \* negotiated windowsize
          HasOptions,   \* the request carried an option the server accepted
          MaxRetries,   \* session.max_retries
          MaxLosses,    \* bound: packets the network may lose
          MaxReAcks,    \* bound: ACKs the client repeats on its own timer
          MaxJunk,      \* bound: unexpected packets of the client during the handshake
          Faults        \* which of FaultKinds may happen

FaultKinds == {"reorder", "duplicate", "early_timeout", "system", "abort", "shutdown"}

ASSUME ReadAssumption ==
  /\ FileSize \in Nat
  /\ BlkSize \in Nat /\ BlkSize >= 1
  /\ WindowSize \in 1 .. (WireMod - 1)          \* a u16, clamped to at least 1
  /\ HasOptions \in BOOLEAN
  /\ {MaxRetries, MaxLosses, MaxReAcks, MaxJunk} \subseteq Nat
  /\ Faults \subseteq FaultKinds

\* A window and the acknowledgements of the one before it have different block
\* numbers: more than the program requires of windowsize, and what telling a
\* late ACK from a new one needs.
HalfRange == 2 * WindowSize < WireMod

Total == TotalBlocksOf(FileSize, BlkSize)

\* Bytes of blocks from..to: the loop that adds up their payload lengths
AckedBytes(from, to) ==
  EndOffset(to, FileSize, BlkSize) - EndOffset(from - 1, FileSize, BlkSize)

\* A slip: the window is not cut at the end of the file
MutWindowEnd(b) == b + WindowSize - 1

\* Last block of the window that starts at b
WindowEnd(b) == IF b + WindowSize - 1 < Total THEN b + WindowSize - 1 ELSE Total

VARIABLES
  phase,                \* where run_read_session stands
  base,                 \* base_block: first unacknowledged block
  windowEnd,            \* window_end of the current window
  retries,              \* retries of the current window or of the handshake
  invalid,              \* invalid_packets of the handshake
  shutdown,             \* the token the session took at spawn is cancelled
  status, bytes,        \* SessionInfo, then its TransferRecord
  totalTx, errors,      \* AppState.total_bytes_tx, AppState.total_errors
  toClient, toServer,   \* packets in flight
  losses,               \* packets lost so far
  clientPhase,          \* "request", "receive", "done" or "gone"
  got,                  \* the blocks whose payload the client has appended
  have, acked,          \* blocks the client counts, and last acknowledged
  reAcks                \* ACKs repeated so far

serverVars  == <<phase, base, windowEnd, retries, invalid>>
stateVars   == <<status, bytes, totalTx, errors>>
networkVars == <<toClient, toServer, losses>>
clientVars  == <<clientPhase, got, have, acked, reAcks>>
vars == <<serverVars, shutdown, stateVars, networkVars, clientVars>>

-----------------------------------------------------------------------------
Data(n) == [type |-> "DATA", n |-> n]
Ack(n)  == [type |-> "ACK", n |-> n]
Oack    == [type |-> "OACK", n |-> 0]
Error   == [type |-> "ERROR", n |-> 0]

Init ==
  /\ phase = "request" /\ base = 1 /\ windowEnd = 0 /\ retries = 0 /\ invalid = 0
  /\ shutdown = FALSE
  /\ status = "none" /\ bytes = 0 /\ totalTx = 0 /\ errors = 0
  /\ toClient = {} /\ toServer = {} /\ losses = 0
  /\ clientPhase = "request" /\ got = {} /\ have = 0 /\ acked = 0 /\ reAcks = 0

-----------------------------------------------------------------------------
(***************************************************************************)
(* The network                                                             *)
(***************************************************************************)

\* m is delivered and rest is left: a duplicate may remain, and unless packets
\* are reordered none with a lower block number is overtaken.
Deliver(channel, m, rest) ==
  /\ m \in channel
  /\ "reorder" \in Faults \/ \A p \in channel : m.n <= p.n
  /\ \/ rest = channel \ {m}
     \/ "duplicate" \in Faults /\ rest = channel

\* What a peer may have sent a moment ago is always delivered: an ACK sent since
\* the window before this one began, a block of this window or of the one before
\* it.  Any other packet is, unless it has become a full turn of the block numbers
\* old: an ACK when WireMod newer blocks have been sent, a block when the client
\* waits for one WireMod further on.
AckAlive(n)  == n + WindowSize + 1 >= base \/ n + WireMod > windowEnd
DataAlive(n) == n + WindowSize >= base \/ n + WireMod > have + 1

Lose ==
  /\ losses < MaxLosses
  /\ losses' = losses + 1
  /\ \/ \E m \in toClient : toClient' = toClient \ {m} /\ UNCHANGED toServer
     \/ \E m \in toServer : toServer' = toServer \ {m} /\ UNCHANGED toClient
  /\ UNCHANGED <<serverVars, shutdown, stateVars, clientVars>>

\* A timer outlasts every packet in flight unless early timeouts are allowed;
\* nobody reads what is sent to a client that has gone.
TimerMayExpire ==
  \/ "early_timeout" \in Faults
  \/ (toClient = {} \/ clientPhase = "gone") /\ toServer = {}

-----------------------------------------------------------------------------
(***************************************************************************)
(* The server task                                                         *)
(***************************************************************************)

\* A slip: a cancelled session taken for a completed one
MutFinish(outcome) ==
  /\ phase' = IF outcome = "Failed" THEN "failed" ELSE "done"
  /\ status' = outcome
  /\ errors' = IF outcome = "Failed" THEN errors + 1 ELSE errors

\* spawn_session_task: the future has returned
Finish(outcome) ==
  /\ phase' = IF outcome = "Completed" THEN "done" ELSE "failed"
  /\ status' = outcome
  /\ errors' = IF outcome = "Failed" THEN errors + 1 ELSE errors

\* The DATA packets of blocks from..to go out; the socket is not read and no
\* token is looked at between them.
SendWindow(from, to) == toClient' = toClient \cup {Data(n) : n \in from .. to}

\* The handshake is over or was not needed
BeginTransfer ==
  /\ phase' = "wait" /\ status' = "Transferring" /\ bytes' = 0
  /\ base' = 1 /\ windowEnd' = WindowEnd(1) /\ retries' = 0 /\ invalid' = 0

\* spawn_read_session: the early checks (path, file, socket) answer with an
\* ERROR, else the session is registered.
Request ==
  /\ phase = "request"
  /\ \/ /\ "system" \in Faults
        /\ phase' = "rejected" /\ toClient' = toClient \cup {Error}
        /\ UNCHANGED status
     \/ /\ phase' = "start" /\ status' = "Negotiating"
        /\ UNCHANGED toClient
  /\ UNCHANGED <<base, windowEnd, retries, invalid, shutdown, bytes, totalTx, errors,
                 toServer, losses, clientVars>>

\* run_read_session up to the first wait
Start ==
  /\ phase = "start"
  /\ IF HasOptions
       THEN /\ phase' = "oack" /\ toClient' = toClient \cup {Oack}
            /\ UNCHANGED <<base, windowEnd, retries, invalid, status, bytes>>
       ELSE BeginTransfer /\ SendWindow(1, WindowEnd(1))
  /\ UNCHANGED <<shutdown, totalTx, errors, toServer, losses, clientVars>>

\* oack_handshake: ACK(0) ends it
RecvOackAck ==
  /\ phase = "oack"
  /\ \E m \in toServer :
       /\ m.type = "ACK" /\ WireBlock(m.n) = 0
       /\ Deliver(toServer, m, toServer')
  /\ BeginTransfer /\ SendWindow(1, WindowEnd(1))
  /\ UNCHANGED <<shutdown, totalTx, errors, losses, clientVars>>

\* oack_handshake: any other packet of the client is counted, and one too
\* many ends the session
RecvInvalid ==
  /\ phase = "oack" /\ invalid < MaxJunk
  /\ invalid' = invalid + 1
  /\ IF invalid' > MaxRetries * 10
       THEN Finish("Failed")
       ELSE UNCHANGED <<phase, status, errors>>
  /\ UNCHANGED <<base, windowEnd, retries, shutdown, bytes, totalTx,
                 networkVars, clientVars>>

\* A slip: the count of timeouts wraps before it exceeds the limit
MutCountRetry == retries' = (retries + 1) % (MaxRetries + 1)

\* One more timeout of this window or handshake
CountRetry == retries' = retries + 1

\* A slip: one retry too few
MutOutOfRetries(r) == r >= MaxRetries

\* The retry budget is used up
OutOfRetries(r) == r > MaxRetries

OackTimeout ==
  /\ phase = "oack" /\ TimerMayExpire
  /\ CountRetry
  /\ IF OutOfRetries(retries')
       THEN Finish("Failed") /\ UNCHANGED toClient
       ELSE /\ toClient' = toClient \cup {Oack}
            /\ UNCHANGED <<phase, status, errors>>
  /\ UNCHANGED <<base, windowEnd, invalid, shutdown, bytes, totalTx,
                 toServer, losses, clientVars>>

\* A slip: no check against the end of the window
MutAckInWindow(abs) == base <= abs

\* The ACK acknowledges blocks base..abs of the current window
AckInWindow(abs) == base <= abs /\ abs <= windowEnd

AdvanceWindow(abs) ==
  /\ bytes' = bytes + AckedBytes(base, abs)
  /\ totalTx' = totalTx + AckedBytes(base, abs)
  /\ base' = abs + 1
  /\ IF abs + 1 > Total
       THEN Finish("Completed") /\ UNCHANGED <<windowEnd, retries, toClient>>
       ELSE /\ status' = "Transferring" /\ retries' = 0
            /\ windowEnd' = WindowEnd(abs + 1)
            /\ SendWindow(abs + 1, WindowEnd(abs + 1))
            /\ UNCHANGED <<phase, errors>>
  /\ UNCHANGED invalid

\* A slip: a duplicate ACK makes the server repeat the window
MutIgnoreAck ==
  /\ SendWindow(base, windowEnd)
  /\ UNCHANGED <<serverVars, stateVars>>

\* A duplicate ACK, or one beyond the window, is dropped without an answer.
IgnoreAck == UNCHANGED <<serverVars, stateVars, toClient>>

RecvAck ==
  /\ phase = "wait"
  /\ \E m \in toServer :
       /\ m.type = "ACK" /\ AckAlive(m.n)
       /\ Deliver(toServer, m, toServer')
       /\ LET abs == BlockToAbsolute(WireBlock(m.n), base)
          IN  IF AckInWindow(abs) THEN AdvanceWindow(abs) ELSE IgnoreAck
  /\ UNCHANGED <<shutdown, losses, clientVars>>

WindowTimeout ==
  /\ phase = "wait" /\ TimerMayExpire
  /\ CountRetry
  /\ IF OutOfRetries(retries')
       THEN Finish("Failed") /\ UNCHANGED toClient
       ELSE SendWindow(base, windowEnd) /\ UNCHANGED <<phase, status, errors>>
  /\ UNCHANGED <<base, windowEnd, invalid, shutdown, bytes, totalTx,
                 toServer, losses, clientVars>>

\* An ERROR of the client ends the session; its text decides whether the
\* outcome counts as an error (spawn_session_task looks for "cancelled").
RecvError ==
  /\ phase \in {"oack", "wait"}
  /\ Error \in toServer
  /\ toServer' = toServer \ {Error}
  /\ \E outcome \in {"Failed", "Cancelled"} : Finish(outcome)
  /\ UNCHANGED <<base, windowEnd, retries, invalid, shutdown, bytes, totalTx,
                 toClient, losses, clientVars>>

\* The file cannot be opened, or a send or receive returns an error
IoError ==
  /\ "system" \in Faults
  /\ phase \in {"start", "oack", "wait"}
  /\ Finish("Failed")
  /\ UNCHANGED <<base, windowEnd, retries, invalid, shutdown, bytes, totalTx,
                 networkVars, clientVars>>

\* select! sees the shutdown token; it may also take a ready packet first.
SeeShutdown ==
  /\ shutdown /\ phase \in {"oack", "wait"}
  /\ Finish("Cancelled")
  /\ UNCHANGED <<base, windowEnd, retries, invalid, shutdown, bytes, totalTx,
                 networkVars, clientVars>>

Server == \/ Request \/ Start \/ RecvOackAck \/ RecvInvalid \/ OackTimeout
          \/ RecvAck \/ WindowTimeout \/ RecvError \/ IoError \/ SeeShutdown

\* AppState::cancel_shutdown, called by another task
CancelShutdown ==
  /\ "shutdown" \in Faults /\ ~shutdown
  /\ shutdown' = TRUE
  /\ UNCHANGED <<serverVars, stateVars, networkVars, clientVars>>

-----------------------------------------------------------------------------
(***************************************************************************)
(* The client (RFC 1350 and 7440 receiver): it appends the block it waits  *)
(* for, must acknowledge the last block of a window and of the file, may   *)
(* acknowledge any other, and repeats its last acknowledgement when it     *)
(* gets a block it does not wait for.  It dallies after the last ACK.      *)
(***************************************************************************)
ClientRecvOack ==
  /\ clientPhase # "gone"
  /\ Deliver(toClient, Oack, toClient')
  /\ IF clientPhase \in {"request", "receive"} /\ have = 0
       THEN clientPhase' = "receive" /\ toServer' = toServer \cup {Ack(0)}
       ELSE UNCHANGED <<clientPhase, toServer>>
  /\ UNCHANGED <<serverVars, shutdown, stateVars, losses, got, have, acked, reAcks>>

\* The block number and the payload fit what the client waits for
ClientAppend(m) ==
  /\ clientPhase \in {"request", "receive"}
  /\ WireBlock(m.n) = WireBlock(have + 1)
  /\ got' = got \cup {m.n}
  /\ have' = have + 1
  /\ clientPhase' = IF m.n = Total THEN "done" ELSE "receive"
  /\ \/ acked' = have + 1 /\ toServer' = toServer \cup {Ack(have + 1)}
     \/ /\ m.n # Total /\ have + 1 < acked + WindowSize
        /\ UNCHANGED <<acked, toServer>>
  /\ UNCHANGED reAcks

\* A client that waits for the answer to its request drops it.
ClientReject(m) ==
  /\ clientPhase # "gone"
  /\ clientPhase = "done" \/ WireBlock(m.n) # WireBlock(have + 1)
  /\ IF clientPhase = "request"
       THEN UNCHANGED <<acked, toServer>>
       ELSE acked' = have /\ toServer' = toServer \cup {Ack(have)}
  /\ UNCHANGED <<clientPhase, got, have, reAcks>>

ClientRecvData ==
  /\ \E m \in toClient :
       /\ m.type = "DATA" /\ DataAlive(m.n)
       /\ Deliver(toClient, m, toClient')
       /\ ClientAppend(m) \/ ClientReject(m)
  /\ UNCHANGED <<serverVars, shutdown, stateVars, losses>>

ClientTimeout ==
  /\ clientPhase = "receive" /\ reAcks < MaxReAcks /\ TimerMayExpire
  /\ reAcks' = reAcks + 1
  /\ acked' = have
  /\ toServer' = toServer \cup {Ack(have)}
  /\ UNCHANGED <<serverVars, shutdown, stateVars, toClient, losses, clientPhase, got, have>>

ClientRecvError ==
  /\ clientPhase # "gone"
  /\ Deliver(toClient, Error, toClient')
  /\ clientPhase' = IF clientPhase = "done" THEN "done" ELSE "gone"
  /\ UNCHANGED <<serverVars, shutdown, stateVars, toServer, losses, got, have, acked, reAcks>>

ClientAbort ==
  /\ "abort" \in Faults
  /\ clientPhase \in {"request", "receive"}
  /\ clientPhase' = "gone"
  /\ toServer' = toServer \cup {Error}
  /\ UNCHANGED <<serverVars, shutdown, stateVars, toClient, losses, got, have, acked, reAcks>>

Client == \/ ClientRecvOack \/ ClientRecvData \/ ClientTimeout
          \/ ClientRecvError \/ ClientAbort

Next == Server \/ Client \/ Lose \/ CancelShutdown

Spec == Init /\ [][Next]_vars

\* The runtime polls a task whose timer or socket is ready, packets that are
\* not lost arrive, and the client does not stop by itself.
FairSpec == Spec /\ WF_vars(Server) /\ WF_vars(Client)

-----------------------------------------------------------------------------
(***************************************************************************)
(* Properties.  Those about blocks take HalfRange.                         *)
(***************************************************************************)

\* Every variable has its type; the window never leaves the file and holds at
\* most WindowSize blocks, and a window is resent at most MaxRetries times.
TypeOK ==
  /\ phase \in {"request", "rejected", "start", "oack", "wait", "done", "failed"}
  /\ base \in 1 .. (Total + 1)
  /\ windowEnd \in 0 .. Total /\ windowEnd <= base + WindowSize - 1
  /\ retries \in 0 .. (MaxRetries + 1)
  /\ invalid \in 0 .. MaxJunk
  /\ shutdown \in BOOLEAN
  /\ status \in {"none", "Negotiating", "Transferring", "Completed", "Failed", "Cancelled"}
  /\ bytes \in Nat /\ totalTx \in Nat /\ errors \in 0 .. 1
  /\ toClient \subseteq {Oack, Error} \cup {Data(n) : n \in 1 .. Total}
  /\ toServer \subseteq {Error} \cup {Ack(n) : n \in 0 .. Total}
  /\ losses \in 0 .. MaxLosses
  /\ clientPhase \in {"request", "receive", "done", "gone"}
  /\ got \subseteq 1 .. Total
  /\ have \in 0 .. Total /\ acked \in 0 .. have /\ reAcks \in 0 .. MaxReAcks

\* The server never counts a block as acknowledged that the client does not
\* hold, whatever stale, overtaken or repeated ACK it reads and wherever the
\* 16-bit block numbers roll over (block_to_absolute and the window test of the
\* ACK).  It takes HalfRange: ReadSession_safety.cfg has the largest window it
\* allows, and with a longer one a late ACK is taken for one of this window.
NeverAheadOfClient == base - 1 <= have

\* What the client has appended is exactly the first blocks of the file, each
\* once and in order, although DATA packets are repeated, reordered and
\* numbered modulo 2^16; a client that considers itself done has all of them.
FileIntact ==
  /\ got = 1 .. have
  /\ clientPhase = "done" => have = Total

\* A session is recorded as Completed only when the client holds every block.
CompletedMeansDelivered == status = "Completed" => got = 1 .. Total

\* A completed session has reported the size of the file, also when the size
\* is a multiple of blksize, or zero, and the last block is empty.
ReportedBytes == status = "Completed" => bytes = FileSize /\ totalTx = FileSize

\* Transmissions (an OACK, a window or an ERROR) the server still has left:
\* max_retries + 1 of the OACK, and as many of a window for every block.
SendsLeft ==
  CASE phase \in {"request", "start"} -> (Total + 1) * (MaxRetries + 1)
    [] phase = "oack"                 -> Total * (MaxRetries + 1) + (MaxRetries - retries)
    [] phase = "wait"                 -> (Total - base) * (MaxRetries + 1) + (MaxRetries - retries)
    [] OTHER                          -> 0

\* Sorcerer's Apprentice: DATA goes out only for blocks of the current window,
\* and only because the window moved or a timer expired; an ACK that was
\* handled before causes no packet.  Whatever is sent is taken from SendsLeft,
\* so no peer gets more than (Total + 1) * (max_retries + 1) answers.
NoAmplification ==
  [][ /\ toClient' \ toClient \subseteq {Oack, Error} \cup {Data(n) : n \in base' .. windowEnd'}
      /\ phase = "wait" /\ base' = base /\ retries' = retries => toClient' \subseteq toClient
      /\ SendsLeft' <= SendsLeft
      /\ toClient' \subseteq toClient \/ SendsLeft' < SendsLeft
    ]_vars

\* Every session ends: with the file delivered, or after max_retries timeouts.
SessionEnds == <>(phase \in {"rejected", "done", "failed"})

\* Up to max_retries losses, of any packets, do not cost the transfer: the
\* client gets the whole file and the session is recorded as Completed.
SurvivesLosses == <>(status = "Completed" /\ got = 1 .. Total)

\* The session implements the abstract transfer.
Transfer == INSTANCE BlockTransfer WITH
  delivered <- have,
  confirmed <- base - 1,
  result    <- CASE phase = "done"                   -> "success"
                 [] phase \in {"rejected", "failed"} -> "failure"
                 [] OTHER                            -> "active"
ImplementsTransfer == Transfer!Spec
=============================================================================
