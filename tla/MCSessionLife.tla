---------------------------- MODULE MCSessionLife ----------------------------
(***************************************************************************)
(* How sessions end, on instances of their own: kind says which one a      *)
(* behaviour is of.                                                        *)
(*   lossy      a download that loses as many packets as the retry limit   *)
(*              tolerates, and suffers nothing else                        *)
(*   download   a download with every fault but duplication, which could   *)
(*   upload     feed the receive timer for ever; an upload likewise        *)
(*   large      the WriteSession this module extends: SessionLife.cfg makes *)
(*              it an upload one byte larger than max_file_size            *)
(*   table      two sessions that use the only place of the table in turn  *)
(***************************************************************************)
EXTENDS WriteSession

CONSTANTS Sessions, Clients

VARIABLES kind,
  base, invalid, totalTx, got, have, acked, reAcks,     \* ReadSession's own
  main, run, cancelled, active, history, totalSessions, totalErrors, task, runOf, cleaner,
  accounted

readOnly  == <<base, invalid, totalTx, got, have, acked, reAcks>>
writeOnly == <<expected, windowBuf, received, file, totalRx, clientBase, resends>>
both      == <<phase, windowEnd, retries, shutdown, status, bytes, errors, toClient, toServer,
               losses, clientPhase>>
tableVars == <<main, run, cancelled, active, history, totalSessions, totalErrors, task, runOf,
               cleaner, accounted>>
lifeVars  == <<kind, readOnly, writeOnly, both, tableVars>>

Lossy == INSTANCE ReadSession WITH
  WireMod <- 16, FileSize <- 7, BlkSize <- 2, WindowSize <- 2, HasOptions <- TRUE,
  MaxRetries <- 2, MaxLosses <- 2, MaxReAcks <- 1, MaxJunk <- 0, Faults <- {}

Download == INSTANCE ReadSession WITH
  WireMod <- 16, FileSize <- 4, BlkSize <- 2, WindowSize <- 2, HasOptions <- TRUE,
  MaxRetries <- 1, MaxLosses <- 1, MaxReAcks <- 1, MaxJunk <- 11,
  Faults <- {"reorder", "early_timeout", "system", "abort", "shutdown"}

Upload == INSTANCE WriteSession WITH
  WireMod <- 8, FileSize <- 3, BlkSize <- 2, WindowSize <- 2, HasOptions <- FALSE,
  MaxRetries <- 1, MaxFileSize <- 3, AllowOverwrite <- FALSE,
  MaxLosses <- 1, MaxResends <- 1, MaxCounted <- 100,
  Faults <- {"reorder", "early_timeout", "system", "shutdown", "other_writer"}

Table == INSTANCE SessionTable WITH
  MaxSessions <- 1, PerIpMax <- 1, MaxHistory <- 2, MaxRuns <- 1, MayGoStale <- TRUE

-----------------------------------------------------------------------------
NoDownload ==
  base = 0 /\ invalid = 0 /\ totalTx = 0 /\ got = {} /\ have = 0 /\ acked = 0 /\ reAcks = 0

NoUpload ==
  /\ expected = 0 /\ windowBuf = 0 /\ received = 0 /\ file = "absent" /\ totalRx = 0
  /\ clientBase = 0 /\ resends = 0

NoSession ==
  /\ NoDownload /\ NoUpload
  /\ phase = "none" /\ windowEnd = 0 /\ retries = 0 /\ shutdown = FALSE /\ status = "none"
  /\ bytes = 0 /\ errors = 0 /\ toClient = {} /\ toServer = {} /\ losses = 0
  /\ clientPhase = "none"

NoTable ==
  /\ main = 0 /\ run = 0 /\ cancelled = {} /\ active = <<>> /\ history = <<>>
  /\ totalSessions = 0 /\ totalErrors = 0 /\ task = 0 /\ runOf = 0 /\ cleaner = 0
  /\ accounted = {}

LifeInit ==
  \/ kind = "lossy"    /\ Lossy!Init    /\ NoUpload /\ NoTable
  \/ kind = "download" /\ Download!Init /\ NoUpload /\ NoTable
  \/ kind = "upload"   /\ Upload!Init   /\ NoDownload /\ NoTable
  \/ kind = "large"    /\ Init          /\ NoDownload /\ NoTable
  \/ kind = "table"    /\ Table!Init    /\ NoSession

InDownload == UNCHANGED <<kind, writeOnly, tableVars>>
InUpload   == UNCHANGED <<kind, readOnly, tableVars>>
InTable    == UNCHANGED <<kind, readOnly, writeOnly, both>>

LifeNext ==
  \/ kind = "lossy"    /\ Lossy!Next    /\ InDownload
  \/ kind = "download" /\ Download!Next /\ InDownload
  \/ kind = "upload"   /\ Upload!Next   /\ InUpload
  \/ kind = "large"    /\ Next          /\ InUpload
  \/ kind = "table"    /\ Table!Next    /\ InTable

ServerStep ==
  \/ kind = "lossy"    /\ Lossy!Server    /\ InDownload
  \/ kind = "download" /\ Download!Server /\ InDownload
  \/ kind = "upload"   /\ Upload!Server   /\ InUpload

ClientStep ==
  \/ kind = "lossy"    /\ Lossy!Client    /\ InDownload
  \/ kind = "download" /\ Download!Client /\ InDownload
  \/ kind = "upload"   /\ Upload!Client   /\ InUpload

\* The fairness of ReadSession, WriteSession and SessionTable
LifeSpec ==
  /\ LifeInit /\ [][LifeNext]_lifeVars
  /\ WF_lifeVars(ServerStep) /\ WF_lifeVars(ClientStep)
  /\ \A s \in Sessions : WF_lifeVars(kind = "table" /\ Table!Finishing(s) /\ InTable)
  /\ WF_lifeVars(/\ kind = "table" /\ InTable
                 /\ Table!CleanRemove(1) \/ Table!CleanPush(1) \/ Table!CleanCount(1))

-----------------------------------------------------------------------------
\* Up to max_retries losses, of any packets, do not cost a download: the client
\* gets the whole file and the session is recorded as Completed.
SurvivesLosses == kind = "lossy" => Lossy!SurvivesLosses

\* Every read session ends, by max_retries timeouts if not otherwise, whatever
\* the client, the network and the operating system do (duplication excepted).
DownloadsEnd == kind = "download" => Download!SessionEnds

\* Every write session ends likewise (the timeout branch of run_write_session
\* counts every expiry, and an acknowledged block takes the transfer forward).
UploadsEnd   == kind = "upload" => Upload!SessionEnds

\* max_file_size is enforced while an upload runs: no session counts more
\* bytes, and an upload that is too large never creates or truncates a file.
LargeIsStopped == kind = "large" => SizeLimit

\* No entry stays in the table of active sessions for ever.
TableEmpties == kind = "table" => Table!EveryoneLeaves

\* No session goes on for ever, and none leaves its entry behind: the three
\* together, each on its instance.
EverythingEnds == DownloadsEnd /\ UploadsEnd /\ TableEmpties
=============================================================================
