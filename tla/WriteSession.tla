---------------------------- MODULE WriteSession ----------------------------
(***************************************************************************)
(* One write (WRQ) session: the checks of spawn_write_session, the server  *)
(* task run_write_session with its window buffer, timeouts, size limit and *)
(* final file write, a TFTP client that uploads, and the network between   *)
(* them.                                                                   *)
(*                                                                         *)
(* As in ReadSession a packet carries the absolute number n of its block   *)
(* and the code sees WireBlock(n).  The file's contents are abstracted to  *)
(* the numbers of the blocks they were made of.                            *)
(***************************************************************************)
EXTENDS TftpBlocks, FiniteSets

CONSTANTS FileSize,       \* bytes the client uploads
          BlkSize,        \* negotiated blksize
          WindowSize,     \* negotiated windowsize
          HasOptions,     \* the request carried an option the server accepted
          MaxRetries,     \* session.max_retries
          MaxFileSize,    \* filesystem.max_file_size in bytes
          AllowOverwrite, \* filesystem.allow_overwrite
          MaxLosses,      \* bound: packets the network may lose
          MaxResends,     \* bound: windows the client repeats on its own timer
          MaxCounted,     \* bound: total_bytes_rx up to which a run is followed
          Faults          \* which of FaultKinds may happen

FaultKinds == {"reorder", "duplicate", "early_timeout", "system", "abort",
               "shutdown", "other_writer"}

ASSUME WriteAssumption ==
  /\ FileSize \in Nat /\ MaxFileSize \in Nat
  /\ BlkSize \in Nat /\ BlkSize >= 1
  /\ WindowSize \in 1 .. (WireMod - 1)          \* a u16, clamped to at least 1
  /\ {HasOptions, AllowOverwrite} \subseteq BOOLEAN
  /\ {MaxRetries, MaxLosses, MaxResends, MaxCounted} \subseteq Nat
  /\ Faults \subseteq FaultKinds

\* A window and the acknowledgements of the one before it have different block
\* numbers: more than the program requires of windowsize, and what the
\* correctness of an upload needs.
HalfRange == 2 * WindowSize < WireMod

Total == TotalBlocksOf(FileSize, BlkSize)

\* Bytes of the blocks from..to of the file
BytesOf(from, to) ==
  EndOffset(to, FileSize, BlkSize) - EndOffset(from - 1, FileSize, BlkSize)

VARIABLES
  phase,              \* where the request and then run_write_session stand
  expected,           \* expected_block
  windowEnd,          \* window_end of the current turn of the outer loop
  windowBuf,          \* window_buf: position in the file -> block stored there
  received,           \* received_data: position in the file -> block appended
  retries,            \* retries of the current turn
  file,               \* the target: "absent", "foreign", "partial", "written"
  shutdown,           \* the token the session took at spawn is cancelled
  status, bytes,      \* SessionInfo, then its TransferRecord
  totalRx, errors,    \* AppState.total_bytes_rx, AppState.total_errors
  toClient, toServer, \* packets in flight
  losses,             \* packets lost so far
  clientPhase,        \* "request", "send", "done" or "gone"
  clientBase,         \* first block the client has no acknowledgement for
  resends             \* windows repeated so far

serverVars  == <<phase, expected, windowEnd, windowBuf, received, retries>>
stateVars   == <<status, bytes, totalRx, errors>>
networkVars == <<toClient, toServer, losses>>
clientVars  == <<clientPhase, clientBase, resends>>
vars == <<serverVars, file, shutdown, stateVars, networkVars, clientVars>>

-----------------------------------------------------------------------------
Data(n) == [type |-> "DATA", n |-> n]
Ack(n)  == [type |-> "ACK", n |-> n]
Oack    == [type |-> "OACK", n |-> 0]
Error   == [type |-> "ERROR", n |-> 0]

Empty == [a \in {} |-> 0]

Init ==
  /\ phase = "start" /\ expected = 1 /\ windowEnd = 0
  /\ windowBuf = Empty /\ received = Empty /\ retries = 0
  /\ file \in {"absent", "foreign"} /\ shutdown = FALSE
  /\ status = "none" /\ bytes = 0 /\ totalRx = 0 /\ errors = 0
  /\ toClient = {} /\ toServer = {} /\ losses = 0
  /\ clientPhase = "request" /\ clientBase = 1 /\ resends = 0

-----------------------------------------------------------------------------
(***************************************************************************)
(* The network                                                             *)
(***************************************************************************)

\* The last block of the window the client sends from b
ClientWindowEnd(b) == IF b + WindowSize - 1 < Total THEN b + WindowSize - 1 ELSE Total

\* m is delivered and rest is left: a duplicate may remain, and unless packets
\* are reordered none with a lower block number is overtaken.
Deliver(channel, m, rest) ==
  /\ m \in channel
  /\ "reorder" \in Faults \/ \A p \in channel : m.n <= p.n
  /\ \/ rest = channel \ {m}
     \/ "duplicate" \in Faults /\ rest = channel

\* What a peer may have sent a moment ago is always delivered: a block of the
\* client's window, an ACK sent since the window before it began.  Any other packet
\* is, unless it has become a full turn of the block numbers old (under HalfRange
\* an older block is then overtaken by half a turn of blocks).
DataAlive(n) == n >= clientBase \/ n + WireMod > windowEnd
AckAlive(n)  == n + WindowSize + 1 >= clientBase \/ n + WireMod > ClientWindowEnd(clientBase)

Lose ==
  /\ losses < MaxLosses
  /\ losses' = losses + 1
  /\ \/ \E m \in toClient : toClient' = toClient \ {m} /\ UNCHANGED toServer
     \/ \E m \in toServer : toServer' = toServer \ {m} /\ UNCHANGED toClient
  /\ UNCHANGED <<serverVars, file, shutdown, stateVars, clientVars>>

\* A timer outlasts every packet in flight unless early timeouts are allowed;
\* nobody reads what is sent to a client that has gone.
TimerMayExpire ==
  \/ "early_timeout" \in Faults
  \/ (toClient = {} \/ clientPhase = "gone") /\ toServer = {}

-----------------------------------------------------------------------------
(***************************************************************************)
(* The server                                                              *)
(***************************************************************************)

\* spawn_session_task: the future has returned
Finish(outcome) ==
  /\ phase' = IF outcome = "Completed" THEN "done" ELSE "failed"
  /\ status' = outcome
  /\ errors' = IF outcome = "Failed" THEN errors + 1 ELSE errors

Send(packet) == toClient' = toClient \cup {packet}

\* spawn_write_session: the early checks (path, existing file, parent
\* directory, socket) answer with an ERROR, else the session is registered.
Request ==
  /\ phase = "start"
  /\ \/ /\ (~AllowOverwrite /\ file # "absent") \/ "system" \in Faults
        /\ phase' = "rejected" /\ Send(Error)
        /\ UNCHANGED status
     \/ /\ AllowOverwrite \/ file = "absent"
        /\ phase' = "open" /\ status' = "Negotiating"
        /\ UNCHANGED toClient
  /\ UNCHANGED <<expected, windowEnd, windowBuf, received, retries, file, shutdown,
                 bytes, totalRx, errors, toServer, losses, clientVars>>

\* run_write_session opens with OACK or ACK(0), which is never repeated.
Open ==
  /\ phase = "open"
  /\ Send(IF HasOptions THEN Oack ELSE Ack(0))
  /\ phase' = "receive" /\ status' = "Transferring" /\ bytes' = 0
  /\ windowEnd' = expected + WindowSize - 1
  /\ UNCHANGED <<expected, windowBuf, received, retries, file, shutdown,
                 totalRx, errors, toServer, losses, clientVars>>

\* window_buf after the block was put at position at
Insert(at, n) ==
  [a \in DOMAIN windowBuf \cup {at} |-> IF a = at THEN n ELSE windowBuf[a]]

\* The blocks of buf that no block before them is missing for
Contiguous(buf) == {k \in DOMAIN buf : expected .. k \subseteq DOMAIN buf}

\* A slip: a full block ends the transfer too
MutIsFinal(n, buf) == PayloadLen(n, FileSize, BlkSize) <= BlkSize /\ DOMAIN buf = {}

\* The packet just received is the short one and nothing is left in buf
IsFinal(n, buf) ==
  PayloadLen(n, FileSize, BlkSize) < BlkSize /\ DOMAIN buf = {}

\* A slip: the limit is only noticed one block later
MutTooLarge(size) == size > MaxFileSize + BlkSize

TooLarge(size) == size > MaxFileSize

\* A slip: blocks beyond the window are buffered too
MutDataInWindow(abs) == expected <= abs

DataInWindow(abs) == expected <= abs /\ abs <= windowEnd

\* A block of the window arrives: it is buffered, the contiguous blocks are
\* flushed, then the size limit, the end of the file, and the end of the
\* window are looked at, in this order.
TakeBlock(at, n) ==
  LET buf  == Insert(at, n)
      next == expected + Cardinality(Contiguous(buf))
      rest == [a \in {b \in DOMAIN buf : b >= next} |-> buf[a]]
      size == bytes + BytesOf(expected, next - 1)
  IN  /\ expected' = next
      /\ windowBuf' = rest
      /\ received' = [a \in 1 .. (next - 1) |-> IF a < expected THEN received[a] ELSE buf[a]]
      /\ IF TooLarge(size)
           THEN /\ Finish("Failed") /\ Send(Error)
                /\ UNCHANGED <<windowEnd, retries, bytes, totalRx>>
           ELSE /\ bytes' = size
                /\ totalRx' = totalRx + PayloadLen(n, FileSize, BlkSize)
                /\ status' = "Transferring"
                /\ UNCHANGED errors
                /\ IF IsFinal(n, rest)
                     THEN /\ Send(Ack(n)) /\ phase' = "write"
                          /\ UNCHANGED <<windowEnd, retries>>
                     ELSE IF next > windowEnd
                     THEN /\ Send(Ack(next - 1)) /\ retries' = 0
                          /\ windowEnd' = next + WindowSize - 1
                          /\ UNCHANGED phase
                     ELSE UNCHANGED <<phase, windowEnd, retries, toClient>>

\* Any other block is ignored: it is neither stored nor acknowledged again.
IgnoreBlock == UNCHANGED <<serverVars, stateVars, toClient>>

RecvData ==
  /\ phase = "receive" /\ totalRx <= MaxCounted
  /\ \E m \in toServer :
       /\ m.type = "DATA" /\ DataAlive(m.n)
       /\ Deliver(toServer, m, toServer')
       /\ LET abs == BlockToAbsolute(WireBlock(m.n), expected)
          IN  IF DataInWindow(abs) THEN TakeBlock(abs, m.n) ELSE IgnoreBlock
  /\ UNCHANGED <<file, shutdown, losses, clientVars>>

CountRetry == retries' = retries + 1

\* A slip: the whole window is acknowledged whatever of it arrived
MutReAck == Send(Ack(IF windowEnd < Total THEN windowEnd ELSE Total))

\* The last contiguous block is acknowledged again, but never block 0.
ReAck == IF expected > 1 THEN Send(Ack(expected - 1)) ELSE UNCHANGED toClient

Timeout ==
  /\ phase = "receive" /\ TimerMayExpire
  /\ CountRetry
  /\ IF retries' > MaxRetries
       THEN Finish("Failed") /\ UNCHANGED toClient
       ELSE ReAck /\ UNCHANGED <<phase, status, errors>>
  /\ UNCHANGED <<expected, windowEnd, windowBuf, received, file, shutdown, bytes,
                 totalRx, toServer, losses, clientVars>>

\* An ERROR of the client; its text decides how the outcome is counted.
RecvError ==
  /\ phase = "receive"
  /\ Error \in toServer
  /\ toServer' = toServer \ {Error}
  /\ \E outcome \in {"Failed", "Cancelled"} : Finish(outcome)
  /\ UNCHANGED <<expected, windowEnd, windowBuf, received, retries, file, shutdown,
                 bytes, totalRx, toClient, losses, clientVars>>

SeeShutdown ==
  /\ shutdown /\ phase = "receive"
  /\ Finish("Cancelled")
  /\ UNCHANGED <<expected, windowEnd, windowBuf, received, retries, file, shutdown,
                 bytes, totalRx, networkVars, clientVars>>

\* A slip: the file is opened with create and truncate whatever is configured
MutMayOpen == TRUE

\* create_new fails when the file exists; create with truncate does not.
MayOpen == AllowOverwrite \/ file = "absent"

\* The blocking task opens the file, after the final ACK was sent.
OpenFile ==
  /\ phase = "write"
  /\ IF MayOpen
       THEN phase' = "fill" /\ file' = "partial" /\ UNCHANGED <<status, errors>>
       ELSE Finish("Failed") /\ UNCHANGED file
  /\ UNCHANGED <<expected, windowEnd, windowBuf, received, retries, shutdown,
                 bytes, totalRx, networkVars, clientVars>>

\* write_all and sync_all
FillFile ==
  /\ phase = "fill"
  /\ file' = "written" /\ Finish("Completed")
  /\ UNCHANGED <<expected, windowEnd, windowBuf, received, retries, shutdown,
                 bytes, totalRx, networkVars, clientVars>>

\* A send, a receive, an open or a write returns an error; what was written
\* of the file stays.
IoError ==
  /\ "system" \in Faults
  /\ phase \in {"open", "receive", "write", "fill"}
  /\ Finish("Failed")
  /\ UNCHANGED <<expected, windowEnd, windowBuf, received, retries, file, shutdown,
                 bytes, totalRx, networkVars, clientVars>>

Server == \/ Request \/ Open \/ RecvData \/ Timeout \/ RecvError \/ SeeShutdown
          \/ OpenFile \/ FillFile \/ IoError

\* AppState::cancel_shutdown, called by another task
CancelShutdown ==
  /\ "shutdown" \in Faults /\ ~shutdown
  /\ shutdown' = TRUE
  /\ UNCHANGED <<serverVars, file, stateVars, networkVars, clientVars>>

\* Another session or program creates the file.
OtherWriter ==
  /\ "other_writer" \in Faults /\ file = "absent"
  /\ file' = "foreign"
  /\ UNCHANGED <<serverVars, shutdown, stateVars, networkVars, clientVars>>

-----------------------------------------------------------------------------
(***************************************************************************)
(* The client (RFC 1350 and 7440 sender): it sends a window, moves past the *)
(* acknowledged block, may repeat the window when its predecessor is        *)
(* acknowledged again, and does so on its own timer, until it gives up.     *)
(***************************************************************************)
ClientSend(b) == toServer' = toServer \cup {Data(n) : n \in b .. ClientWindowEnd(b)}

\* OACK or ACK(0) answers the request.
ClientBegin ==
  /\ clientPhase # "gone"
  /\ \E m \in toClient :
       /\ m \in {Oack, Ack(0)}
       /\ Deliver(toClient, m, toClient')
       /\ IF clientPhase = "request"
            THEN clientPhase' = "send" /\ ClientSend(1)
            ELSE UNCHANGED <<clientPhase, toServer>>
  /\ UNCHANGED <<serverVars, file, shutdown, stateVars, losses, clientBase, resends>>

ClientAdvance(abs) ==
  /\ clientBase' = abs + 1
  /\ IF abs = Total
       THEN clientPhase' = "done" /\ UNCHANGED toServer
       ELSE ClientSend(abs + 1) /\ UNCHANGED clientPhase

ClientRecvAck ==
  /\ clientPhase \notin {"request", "gone"}
  /\ \E m \in toClient :
       /\ m.type = "ACK" /\ m.n > 0 /\ AckAlive(m.n)
       /\ Deliver(toClient, m, toClient')
       /\ LET abs == BlockToAbsolute(WireBlock(m.n), clientBase)
              new == clientPhase = "send" /\ abs <= ClientWindowEnd(clientBase)
          IN  \/ new /\ ClientAdvance(abs)
              \/ ~new /\ UNCHANGED <<clientPhase, clientBase, toServer>>
              \/ /\ clientPhase = "send" /\ WireBlock(m.n) = WireBlock(clientBase - 1)
                 /\ ClientSend(clientBase)
                 /\ UNCHANGED <<clientPhase, clientBase>>
  /\ UNCHANGED <<serverVars, file, shutdown, stateVars, losses, resends>>

ClientTimeout ==
  /\ clientPhase = "send" /\ TimerMayExpire
  /\ IF resends < MaxResends
       THEN resends' = resends + 1 /\ ClientSend(clientBase) /\ UNCHANGED clientPhase
       ELSE clientPhase' = "gone" /\ UNCHANGED <<resends, toServer>>
  /\ UNCHANGED <<serverVars, file, shutdown, stateVars, toClient, losses, clientBase>>

ClientRecvError ==
  /\ clientPhase # "gone"
  /\ Deliver(toClient, Error, toClient')
  /\ clientPhase' = IF clientPhase = "done" THEN "done" ELSE "gone"
  /\ UNCHANGED <<serverVars, file, shutdown, stateVars, toServer, losses,
                 clientBase, resends>>

ClientAbort ==
  /\ "abort" \in Faults
  /\ clientPhase = "send"
  /\ clientPhase' = "gone"
  /\ toServer' = toServer \cup {Error}
  /\ UNCHANGED <<serverVars, file, shutdown, stateVars, toClient, losses,
                 clientBase, resends>>

Client == \/ ClientBegin \/ ClientRecvAck \/ ClientTimeout
          \/ ClientRecvError \/ ClientAbort

Next == Server \/ Client \/ Lose \/ CancelShutdown \/ OtherWriter

Spec == Init /\ [][Next]_vars

\* The runtime polls a task whose timer or socket is ready, packets that are
\* not lost arrive, and the client does not stop by itself.
FairSpec == Spec /\ WF_vars(Server) /\ WF_vars(Client)

-----------------------------------------------------------------------------
(***************************************************************************)
(* Properties                                                              *)
(***************************************************************************)
\* Every variable has its type; the window buffer keeps only blocks that wait
\* for an earlier one of their window, so fewer than WindowSize.
TypeOK ==
  /\ phase \in {"start", "rejected", "open", "receive", "write", "fill", "done", "failed"}
  /\ expected \in 1 .. (Total + 1)
  /\ windowEnd \in Nat /\ windowEnd <= expected + WindowSize - 1
  /\ DOMAIN windowBuf \subseteq (expected + 1) .. windowEnd
  /\ windowBuf = [a \in DOMAIN windowBuf |-> windowBuf[a]]
  /\ \A a \in DOMAIN windowBuf : windowBuf[a] \in 1 .. Total
  /\ DOMAIN received = 1 .. (expected - 1)
  /\ retries \in 0 .. (MaxRetries + 1)
  /\ file \in {"absent", "foreign", "partial", "written"}
  /\ shutdown \in BOOLEAN
  /\ status \in {"none", "Negotiating", "Transferring", "Completed", "Failed", "Cancelled"}
  /\ bytes \in Nat /\ totalRx \in Nat /\ errors \in 0 .. 1
  /\ toClient \subseteq {Oack, Error} \cup {Ack(n) : n \in 0 .. Total}
  /\ toServer \subseteq {Error} \cup {Data(n) : n \in 1 .. Total}
  /\ losses \in 0 .. MaxLosses
  /\ clientPhase \in {"request", "send", "done", "gone"}
  /\ clientBase \in 1 .. (Total + 1) /\ resends \in 0 .. MaxResends

\* The client moves past a block only when the server has appended it, so a
\* client that considers its upload acknowledged is right that all of it was
\* received: neither a partial window's ACK nor the final one claims too much.
AckedIsReceived ==
  /\ clientBase <= expected
  /\ clientPhase = "done" => expected = Total + 1

\* What the server has appended is exactly the first blocks of the file, each
\* once and in order, and the window buffer holds every block at its place:
\* repeated, reordered and renumbered DATA packets never end up elsewhere.
UploadIntact ==
  /\ received = [a \in 1 .. (expected - 1) |-> a]
  /\ \A a \in DOMAIN windowBuf : windowBuf[a] = a

\* A session is recorded as Completed only when the whole upload is on disk,
\* was reported with its size, and is within max_file_size.
CompletedMeansStored ==
  status = "Completed" =>
    /\ file = "written" /\ expected = Total + 1
    /\ bytes = FileSize /\ FileSize <= MaxFileSize

\* max_file_size is enforced while the upload runs: no session counts more
\* bytes, and an upload that is too large never creates or truncates a file.
SizeLimit ==
  /\ bytes <= MaxFileSize
  /\ FileSize > MaxFileSize => file \notin {"partial", "written"}

\* Without allow_overwrite a file somebody else created is never touched,
\* also when it appears after the early check of spawn_write_session.
NeverOverwrites ==
  [][~AllowOverwrite /\ file = "foreign" => file' = "foreign"]_vars

\* Every session ends, by max_retries timeouts if not otherwise.
SessionEnds == <>(phase \in {"rejected", "done", "failed"})

\* An upload over a network that loses nothing is stored, and the client is
\* told so.
UploadStored == <>(file = "written" /\ status = "Completed" /\ clientPhase = "done")

\* The session implements the abstract transfer, the client being the sender.
Transfer == INSTANCE BlockTransfer WITH
  delivered <- expected - 1,
  confirmed <- clientBase - 1,
  result    <- CASE clientPhase = "done" -> "success"
                 [] clientPhase = "gone" -> "failure"
                 [] OTHER                -> "active"
ImplementsTransfer == Transfer!Spec
=============================================================================
