---------------------------- MODULE SessionTable ----------------------------
(***************************************************************************)
(* The sessions as AppState sees them: the main loop admits and registers  *)
(* them, their tasks report progress and the outcome, the clean-up task    *)
(* takes out those that look inactive, and the user stops and restarts the *)
(* server.  active_sessions and transfer_history have a lock each, and the *)
(* counters have none, so every acquisition is a step of its own.          *)
(*                                                                         *)
(* What a session does in between is in ReadSession and WriteSession; here *)
(* its future returns some outcome at some time.                           *)
(***************************************************************************)
EXTENDS Integers, Sequences, FiniteSets

CONSTANTS Sessions,         \* ids of the sessions that may be registered
          Clients,          \* their IP addresses
          MaxSessions,      \* session.max_sessions
          PerIpMax,         \* security.per_ip_max_sessions
          MaxHistory,       \* records kept in transfer_history, 1000 in the code
          MaxRuns,          \* bound: times the server is started
          MayGoStale        \* a session may be silent longer than session_timeout

ASSUME TableAssumption ==
  /\ IsFiniteSet(Sessions) /\ IsFiniteSet(Clients)
  /\ {MaxSessions, PerIpMax} \subseteq Nat
  /\ MaxHistory \in Nat \ {0} /\ MaxRuns \in Nat \ {0}
  /\ MayGoStale \in BOOLEAN

Outcomes == {"Completed", "Failed", "Cancelled"}
Runs == 1 .. MaxRuns
Idle == [pc |-> "idle"]
Off  == [pc |-> "off"]

VARIABLES
  main,             \* where run_server, or the task that restarts it, stands
  run,              \* number of the current run: its token is the current one
  cancelled,        \* runs whose token is cancelled
  active,           \* active_sessions: id -> client and whether it looks inactive
  history,          \* transfer_history: records of id and status
  totalSessions,    \* AppState.total_sessions
  totalErrors,      \* AppState.total_errors
  task,             \* session -> where its task stands
  runOf,            \* session -> run whose token the task holds
  cleaner,          \* run -> where the clean-up task of that run stands
  accounted         \* ids of the records pushed in this run, truncated ones too

mainVars  == <<main, run, cancelled>>
stateVars == <<active, history, totalSessions, totalErrors, accounted>>
taskVars  == <<task, runOf>>
vars == <<mainVars, stateVars, taskVars, cleaner>>

Init ==
  /\ main = [pc |-> "recv"] /\ run = 1 /\ cancelled = {}
  /\ active = [s \in {} |-> 0] /\ history = <<>> /\ accounted = {}
  /\ totalSessions = 0 /\ totalErrors = 0
  /\ task = [s \in Sessions |-> [pc |-> "none"]]
  /\ runOf = [s \in Sessions |-> 0]
  /\ cleaner = [r \in Runs |-> Idle]

-----------------------------------------------------------------------------
(***************************************************************************)
(* The operations of AppState                                              *)
(***************************************************************************)
SessionsOf(c) == {s \in DOMAIN active : active[s].client = c}

\* A slip: a session that was taken out is put back
MutUpdate(s) ==
  active' = [t \in DOMAIN active \cup {s} |->
               IF t \in DOMAIN active /\ t # s THEN active[t]
               ELSE [client |-> CHOOSE c \in Clients : TRUE, stale |-> FALSE]]

\* update_session: last_activity is now; an id that is not there is ignored.
Update(s) ==
  active' = [t \in DOMAIN active |->
               IF t = s THEN [active[t] EXCEPT !.stale = FALSE] ELSE active[t]]

\* complete_session up to drop(sessions): next is where to go with the record
\* that was made, other where to go when the id is not in the table.
Remove(s, next, other) ==
  /\ active' = [t \in DOMAIN active \ {s} |-> active[t]]
  /\ IF s \in DOMAIN active THEN next ELSE other

\* A slip: the outcome is lost and the history never cut
MutPush(s, status) ==
  /\ history' = Append(history, [id |-> s, status |-> "Completed"])
  /\ accounted' = accounted \cup {s}

\* complete_session from there: push, then drop the oldest beyond MaxHistory
Push(s, status) ==
  LET all    == Append(history, [id |-> s, status |-> status])
      excess == Len(all) - MaxHistory
  IN  /\ history' = IF excess > 0 THEN SubSeq(all, excess + 1, Len(all)) ELSE all
      /\ accounted' = accounted \cup {s}

-----------------------------------------------------------------------------
(***************************************************************************)
(* The main loop: one request at a time, up to the spawn of its session    *)
(***************************************************************************)
RecvRequest ==
  /\ main.pc = "recv"
  /\ \E s \in Sessions, c \in Clients :
       /\ task[s].pc = "none"
       /\ main' = [pc |-> "per_ip", id |-> s, client |-> c]
  /\ UNCHANGED <<run, cancelled, stateVars, taskVars, cleaner>>

\* A slip: the limit is one too high
MutRoom(n, limit) == n <= limit

Room(n, limit) == n < limit

\* count_sessions_by_ip
CheckPerIp ==
  /\ main.pc = "per_ip"
  /\ main' = IF Room(Cardinality(SessionsOf(main.client)), PerIpMax)
               THEN [main EXCEPT !.pc = "global"] ELSE [pc |-> "recv"]
  /\ UNCHANGED <<run, cancelled, stateVars, taskVars, cleaner>>

\* count_sessions
CheckGlobal ==
  /\ main.pc = "global"
  /\ main' = IF Room(Cardinality(DOMAIN active), MaxSessions)
               THEN [main EXCEPT !.pc = "admitted"] ELSE [pc |-> "recv"]
  /\ UNCHANGED <<run, cancelled, stateVars, taskVars, cleaner>>

\* spawn_read_session or spawn_write_session rejects the request, or
\* register_session counts it
CountSession ==
  /\ main.pc = "admitted"
  /\ \/ main' = [pc |-> "recv"] /\ UNCHANGED totalSessions
     \/ /\ main' = [main EXCEPT !.pc = "counted"]
        /\ totalSessions' = totalSessions + 1
  /\ UNCHANGED <<run, cancelled, active, history, totalErrors, accounted, taskVars, cleaner>>

\* register_session inserts it, and the task is spawned with the current token
Register ==
  /\ main.pc = "counted"
  /\ active' = [t \in DOMAIN active \cup {main.id} |->
                  IF t = main.id THEN [client |-> main.client, stale |-> FALSE]
                                 ELSE active[t]]
  /\ task' = [task EXCEPT ![main.id] = [pc |-> "running"]]
  /\ runOf' = [runOf EXCEPT ![main.id] = run]
  /\ main' = [pc |-> "recv"]
  /\ UNCHANGED <<run, cancelled, history, totalSessions, totalErrors, accounted, cleaner>>

SeeShutdown ==
  /\ main.pc = "recv" /\ run \in cancelled
  /\ main' = [pc |-> "stopping"]
  /\ UNCHANGED <<run, cancelled, stateVars, taskVars, cleaner>>

\* The grace period ends when the table is empty or the deadline has passed.
Stopped ==
  /\ main.pc = "stopping"
  /\ main' = [pc |-> "stopped"]
  /\ UNCHANGED <<run, cancelled, stateVars, taskVars, cleaner>>

\* reset_for_restart: first the counters, then the table, the history, and
\* last the token; run_server follows.
ResetCounters ==
  /\ main.pc = "stopped" /\ run < MaxRuns
  /\ totalSessions' = 0 /\ totalErrors' = 0
  /\ main' = [pc |-> "clear"]
  /\ UNCHANGED <<run, cancelled, active, history, accounted, taskVars, cleaner>>

ClearTable ==
  /\ main.pc = "clear"
  /\ active' = [s \in {} |-> 0]
  /\ main' = [pc |-> "cleared"]
  /\ UNCHANGED <<run, cancelled, history, totalSessions, totalErrors, accounted,
                 taskVars, cleaner>>

ClearHistory ==
  /\ main.pc = "cleared"
  /\ history' = <<>> /\ accounted' = {}
  /\ run' = run + 1
  /\ main' = [pc |-> "recv"]
  /\ UNCHANGED <<cancelled, active, totalSessions, totalErrors, taskVars, cleaner>>

Main == \/ RecvRequest \/ CheckPerIp \/ CheckGlobal \/ CountSession \/ Register
        \/ SeeShutdown \/ Stopped \/ ResetCounters \/ ClearTable \/ ClearHistory

\* AppState::cancel_shutdown, by a signal, the IPC or a user
CancelShutdown ==
  /\ run \notin cancelled
  /\ cancelled' = cancelled \cup {run}
  /\ UNCHANGED <<main, run, stateVars, taskVars, cleaner>>

-----------------------------------------------------------------------------
(***************************************************************************)
(* A session's task (spawn_session_task)                                   *)
(***************************************************************************)
Progress(s) ==
  /\ task[s].pc = "running"
  /\ Update(s)
  /\ UNCHANGED <<mainVars, history, totalSessions, totalErrors, accounted, taskVars, cleaner>>

\* The future returns, with the outcome spawn_session_task makes of it.
Return(s) ==
  /\ task[s].pc = "running"
  /\ \E o \in Outcomes : task' = [task EXCEPT ![s] = [pc |-> "remove", outcome |-> o]]
  /\ UNCHANGED <<mainVars, stateVars, runOf, cleaner>>

TaskAt(s, pc) == task' = [task EXCEPT ![s].pc = pc]

\* Failed sessions are counted once complete_session has returned.
AfterComplete(s) == IF task[s].outcome = "Failed" THEN "count" ELSE "ended"

TaskRemove(s) ==
  /\ task[s].pc = "remove"
  /\ Remove(s, TaskAt(s, "push"), TaskAt(s, AfterComplete(s)))
  /\ UNCHANGED <<mainVars, history, totalSessions, totalErrors, accounted, runOf, cleaner>>

TaskPush(s) ==
  /\ task[s].pc = "push"
  /\ Push(s, task[s].outcome)
  /\ TaskAt(s, AfterComplete(s))
  /\ UNCHANGED <<mainVars, active, totalSessions, totalErrors, runOf, cleaner>>

TaskCount(s) ==
  /\ task[s].pc = "count"
  /\ totalErrors' = totalErrors + 1
  /\ TaskAt(s, "ended")
  /\ UNCHANGED <<mainVars, active, history, totalSessions, accounted, runOf, cleaner>>

Task(s) == Progress(s) \/ Return(s) \/ TaskRemove(s) \/ TaskPush(s) \/ TaskCount(s)

\* Nothing has been acknowledged for session_timeout: retransmissions do not
\* count as activity, and with backoff they go on for longer than that.
GoStale(s) ==
  /\ MayGoStale
  /\ s \in DOMAIN active /\ ~active[s].stale
  /\ active' = [active EXCEPT ![s].stale = TRUE]
  /\ UNCHANGED <<mainVars, history, totalSessions, totalErrors, accounted, taskVars, cleaner>>

-----------------------------------------------------------------------------
(***************************************************************************)
(* The clean-up task of run r (cleanup_stale_sessions)                     *)
(***************************************************************************)
CleanerAt(r, where) == cleaner' = [cleaner EXCEPT ![r] = where]

\* Go on with the ids that are left
CleanNext(r, ids) ==
  CleanerAt(r, IF ids = {} THEN Idle ELSE [pc |-> "remove", ids |-> ids])

\* A tick of the interval; select! may take it although the token is cancelled.
Collect(r) ==
  /\ r <= run /\ cleaner[r] = Idle
  /\ LET stale == {s \in DOMAIN active : active[s].stale}
     IN  stale # {} /\ CleanNext(r, stale)
  /\ UNCHANGED <<mainVars, stateVars, taskVars>>

CleanRemove(r) ==
  /\ cleaner[r].pc = "remove"
  /\ \E s \in cleaner[r].ids :
       LET at(pc) == [pc |-> pc, id |-> s, ids |-> cleaner[r].ids \ {s}]
       IN  Remove(s, CleanerAt(r, at("push")), CleanerAt(r, at("count")))
  /\ UNCHANGED <<mainVars, history, totalSessions, totalErrors, accounted, taskVars>>

CleanPush(r) ==
  /\ cleaner[r].pc = "push"
  /\ Push(cleaner[r].id, "Failed")
  /\ CleanerAt(r, [cleaner[r] EXCEPT !.pc = "count"])
  /\ UNCHANGED <<mainVars, active, totalSessions, totalErrors, taskVars>>

\* A slip: the clean-up leaves the counting to the task of the session
MutCleanCount(r) ==
  /\ cleaner[r].pc = "count"
  /\ CleanNext(r, cleaner[r].ids)
  /\ UNCHANGED <<mainVars, active, history, totalSessions, totalErrors, accounted, taskVars>>

CleanCount(r) ==
  /\ cleaner[r].pc = "count"
  /\ totalErrors' = totalErrors + 1
  /\ CleanNext(r, cleaner[r].ids)
  /\ UNCHANGED <<mainVars, active, history, totalSessions, accounted, taskVars>>

CleanerStops(r) ==
  /\ r \in cancelled /\ cleaner[r] = Idle
  /\ CleanerAt(r, Off)
  /\ UNCHANGED <<mainVars, stateVars, taskVars>>

Clean(r) == CleanerStops(r) \/ Collect(r) \/ CleanRemove(r) \/ CleanPush(r) \/ CleanCount(r)

-----------------------------------------------------------------------------
Next ==
  \/ Main \/ CancelShutdown
  \/ \E s \in Sessions : Task(s) \/ GoStale(s)
  \/ \E r \in Runs : Clean(r)

Spec == Init /\ [][Next]_vars

\* Every session's future returns (ReadSession, WriteSession: SessionEnds),
\* and the runtime polls the tasks that can go on.
Finishing(s) == Return(s) \/ TaskRemove(s) \/ TaskPush(s) \/ TaskCount(s)
FairSpec ==
  /\ Spec
  /\ \A s \in Sessions : WF_vars(Finishing(s))
  /\ \A r \in Runs : WF_vars(CleanRemove(r) \/ CleanPush(r) \/ CleanCount(r))

-----------------------------------------------------------------------------
(***************************************************************************)
(* Properties                                                              *)
(***************************************************************************)
Restarting == main.pc \in {"clear", "cleared"}

\* A session whose record was made and not yet pushed, by whom ever
InTransit(s) ==
  \/ task[s].pc = "push"
  \/ \E r \in Runs : cleaner[r].pc = "push" /\ cleaner[r].id = s

MainType ==
  /\ \/ main \in [pc : {"recv", "stopping", "stopped", "clear", "cleared"}]
     \/ main \in [pc : {"per_ip", "global", "admitted", "counted"},
                  id : Sessions, client : Clients]
  /\ run \in Runs /\ cancelled \subseteq 1 .. run

TableType ==
  /\ DOMAIN active \subseteq Sessions
  /\ active \in [DOMAIN active -> [client : Clients, stale : BOOLEAN]]
  /\ history \in Seq([id : Sessions, status : Outcomes]) /\ Len(history) <= MaxHistory
  /\ totalSessions \in Nat /\ totalErrors \in Nat
  /\ accounted \subseteq Sessions

TaskType ==
  /\ DOMAIN task = Sessions
  /\ \A s \in Sessions :
       \/ task[s] \in [pc : {"none", "running"}]
       \/ task[s] \in [pc : {"remove", "push", "count", "ended"}, outcome : Outcomes]
  /\ runOf \in [Sessions -> 0 .. run]

CleanerType ==
  /\ DOMAIN cleaner = Runs
  /\ \A r \in Runs :
       \/ cleaner[r] \in {Idle, Off}
       \/ cleaner[r] \in [pc : {"remove"}, ids : SUBSET Sessions]
       \/ cleaner[r] \in [pc : {"push", "count"}, id : Sessions, ids : SUBSET Sessions]

TypeOK == MainType /\ TableType /\ TaskType /\ CleanerType

\* Every session of this run is in exactly one place: in the table, on its way
\* to the history, or recorded; so the clean-up, the session's own end and its
\* progress reports never lose, repeat or revive it, whatever they overtake.
\* total_sessions counts exactly these sessions.
OnePlaceEach ==
  ~Restarting =>
    /\ \A s \in Sessions :
         /\ runOf[s] = run => s \in DOMAIN active \/ InTransit(s) \/ s \in accounted
         /\ ~(s \in DOMAIN active /\ InTransit(s))
         /\ s \in accounted => s \notin DOMAIN active /\ ~InTransit(s)
    /\ totalSessions = Cardinality({s \in Sessions : runOf[s] = run})
                         + (IF main.pc = "counted" THEN 1 ELSE 0)

\* No session has two records in the transfer history, although its task and
\* the clean-up may both complete it.
RecordedOnce ==
  \A i, j \in 1 .. Len(history) : history[i].id = history[j].id => i = j

\* The history calls a session Completed only if its task returned Ok: the
\* clean-up's verdict does not outlive or forge a success.
CompletedIsTrue ==
  \A i \in 1 .. Len(history) :
    history[i].status = "Completed" =>
      LET t == task[history[i].id]
      IN  t.pc \in {"push", "count", "ended"} /\ t.outcome = "Completed"

\* What the history says of a session is said once and is true, although its
\* task, the clean-up and a restart may all complete it.
RecordsAreTrue == RecordedOnce /\ CompletedIsTrue

\* The limits on the active sessions hold although they are read in two steps and
\* the session is inserted in a later one.
LimitsHold ==
  /\ Cardinality(DOMAIN active) <= MaxSessions
  /\ \A c \in Clients : Cardinality(SessionsOf(c)) <= PerIpMax

\* Every failure in the history is in total_errors, or is about to be counted
\* by the task that recorded it.
NoFailureUncounted ==
  ~Restarting =>
    Cardinality({i \in 1 .. Len(history) : history[i].status = "Failed"})
      <= totalErrors + Cardinality({s \in Sessions : task[s].pc = "count"})
                     + Cardinality({r \in Runs : cleaner[r].pc = "count"})

\* No entry stays in the table of active sessions for ever.
EveryoneLeaves ==
  \A s \in Sessions : s \in DOMAIN active ~> s \notin DOMAIN active

\* --max-sessions bounds the sessions that run in parallel.
ParallelSessions ==
  Cardinality({s \in Sessions : task[s].pc = "running"}) <= MaxSessions
=============================================================================
