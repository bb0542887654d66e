------------------------------ MODULE LogFiles ------------------------------
(***************************************************************************)
(* The log file and the log tab (core/log_buffer.rs).  A line waits for    *)
(* the appender's worker thread, which writes it and starts a new file     *)
(* every day; rotation cuts every file to its last MaxLines lines in two   *)
(* steps, reading and writing back, while the worker goes on; a start of   *)
(* the program loads the end of the newest file into the ring of the log   *)
(* tab.  Lines are numbered as logged.                                     *)
(***************************************************************************)
EXTENDS Integers, Sequences, FiniteSets, SequencesExt

CONSTANTS MaxLines,     \* max_log_lines; 0: no rotation
          RingSize,     \* entries the log tab keeps
          LoadLines,    \* lines a start loads
          QueueSize,    \* lines that may wait for the worker
          MaxLogged     \* bound: lines and days of a behaviour

ASSUME LogAssumption ==
  {MaxLines, RingSize, LoadLines, QueueSize, MaxLogged} \subseteq Nat /\ LoadLines <= RingSize

VARIABLES files,        \* the candidates of find_log_files, the newest last
          snapshot,     \* [of, lines]: the file a rotation has read; of = 0: none
          gap,          \* lines logged to that file since
          queued,       \* lines on their way to the worker, in their order
          lost,         \* overwritten by a rotation, or never written
          ring,         \* the log tab
          shown,        \* what went into the log tab since the start
          next          \* the next line's number

logVars == <<files, snapshot, gap, queued, lost, ring, shown, next>>

\* The last n elements of s
Last_(n, s) == SubSeq(s, IF Len(s) > n THEN Len(s) - n + 1 ELSE 1, Len(s))

NoSnapshot == [of |-> 0, lines |-> <<>>]

LogInit ==
  /\ files = <<<<>>>> /\ snapshot = NoSnapshot
  /\ gap = {} /\ queued = {} /\ lost = {} /\ ring = <<>> /\ shown = <<>> /\ next = 1

-----------------------------------------------------------------------------
\* An event: AppLogLayer::on_event pushes it and drops the oldest entries; the
\* file layer (tracing_appender::non_blocking) sends it to the worker, or drops
\* it when the queue is full
Log ==
  /\ next <= MaxLogged
  /\ ring'  = Last_(RingSize, Append(ring, next))
  /\ shown' = Append(shown, next)
  /\ next'  = next + 1
  /\ IF Cardinality(queued) < QueueSize
     THEN queued' = queued \cup {next} /\ UNCHANGED lost
     ELSE lost' = lost \cup {next} /\ UNCHANGED queued
  /\ UNCHANGED <<files, snapshot, gap>>

\* The worker (external crate tracing-appender) appends the oldest line
Work ==
  \E line \in queued :
    /\ \A later \in queued : line <= later
    /\ queued' = queued \ {line}
    /\ files' = [files EXCEPT ![Len(files)] = Append(@, line)]
    /\ gap'   = IF snapshot.of = Len(files) THEN gap \cup {line} ELSE gap
    /\ UNCHANGED <<snapshot, lost, ring, shown, next>>

\* The appender's file changes with the date (external)
NewDay ==
  /\ Len(files) < MaxLogged \div 2
  /\ files' = Append(files, <<>>)
  /\ UNCHANGED <<snapshot, gap, queued, lost, ring, shown, next>>

\* What truncate_single_file leaves of a file
Cut(lines) == Last_(MaxLines, lines)

\* truncate_log_file takes the newest file first: read_to_string
ReadBack ==
  /\ MaxLines > 0 /\ snapshot.of = 0
  /\ snapshot' = [of |-> Len(files), lines |-> files[Len(files)]]
  /\ gap' = {}
  /\ UNCHANGED <<files, queued, lost, ring, shown, next>>

\* A slip: what was read is written behind what is there
MutWriteBack ==
  /\ snapshot.of # 0
  /\ files' = [files EXCEPT ![snapshot.of] = @ \o Cut(snapshot.lines)]
  /\ snapshot' = NoSnapshot
  /\ UNCHANGED <<gap, queued, lost, ring, shown, next>>

\* ... fs::write, if there were too many lines, and then the older files
WriteBack ==
  LET tooLong == Len(snapshot.lines) > MaxLines
  IN  /\ snapshot.of # 0
      /\ files' = [i \in DOMAIN files |->
                     CASE i < snapshot.of              -> Cut(files[i])
                       [] i = snapshot.of /\ tooLong   -> Cut(snapshot.lines)
                       [] OTHER                        -> files[i]]
      /\ lost' = IF tooLong THEN lost \cup gap ELSE lost
      /\ snapshot' = NoSnapshot
      /\ UNCHANGED <<gap, queued, ring, shown, next>>

\* load_logs_from_file: the end of the newest file
Loaded(candidates) == Last_(LoadLines, candidates[Len(candidates)])

\* A new process; main forgets the worker's guard, so that what waits is not
\* written when the old one ends
Restart ==
  /\ shown # <<>>
  /\ queued' = {} /\ lost' = lost \cup queued
  /\ ring' = Loaded(files) /\ shown' = Loaded(files)
  /\ snapshot' = NoSnapshot
  /\ UNCHANGED <<files, gap, next>>

\* fs::write empties the file before it writes: the process ends in between
\* and a new one starts
CrashInWriteBack ==
  /\ Len(snapshot.lines) > MaxLines
  /\ files' = [files EXCEPT ![snapshot.of] = <<>>]
  /\ lost'  = lost \cup ToSet(files[snapshot.of]) \cup queued
  /\ queued' = {}
  /\ ring' = Loaded(files') /\ shown' = Loaded(files')
  /\ snapshot' = NoSnapshot
  /\ UNCHANGED <<gap, next>>

LogNext == Log \/ Work \/ NewDay \/ ReadBack \/ WriteBack \/ Restart \/ CrashInWriteBack

-----------------------------------------------------------------------------
\* Rotation loses nothing of the end of the log: each of the last MaxLines
\* lines is in a file or on its way there, but for those the worker wrote
\* between the read and the write back of a rotation, those in a file whose
\* write back a crash cut, those a full queue dropped, and those that were
\* queued when a process ended.
KeepsTheEnd ==
  LET kept == UNION {ToSet(files[i]) : i \in DOMAIN files}
  IN  \A k \in 1 .. next - 1 :
        MaxLines = 0 \/ k > next - 1 - MaxLines => k \in kept \cup queued \cup lost

\* A write back of an old snapshot never repeats or reorders a line, whatever
\* waits for the worker meanwhile.
InOrder ==
  \A i, j \in DOMAIN files : \A a \in DOMAIN files[i], b \in DOMAIN files[j] :
    i < j \/ (i = j /\ a < b) => files[i][a] < files[j][b]

\* The log tab shows the most recent entries, and after a start the end of
\* the log of the run before: no line between two shown ones is missing, but
\* for the ones that were lost.
TabShowsTheEnd ==
  /\ ring = Last_(RingSize, shown)
  /\ \A i \in 1 .. Len(ring) - 1 : \A k \in ring[i] + 1 .. ring[i + 1] - 1 : k \in lost
=============================================================================
