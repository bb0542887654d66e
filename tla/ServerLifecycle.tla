--------------------------- MODULE ServerLifecycle ---------------------------
(***************************************************************************)
(* Starting, stopping, restarting and leaving the server: run_server and   *)
(* its tasks (core/mod.rs), the shutdown token and its replacement         *)
(* (core/state.rs), and everything that cancels it or starts a new run:    *)
(* the TUI, the GUI and its tray, signals, the control socket and the      *)
(* Windows service.  Every call of run_server is a run of its own; a token *)
(* is a number, the current one the last that was created.  Which requests *)
(* become sessions is the subject of SessionTable.                         *)
(***************************************************************************)
EXTENDS Integers, FiniteSets

CONSTANTS Modes,        \* subset of {"headless", "tui", "gui"}
          MaxRuns,      \* bound: calls of run_server
          Sessions,
          Signals       \* subset of {"TERM", "INT", "BREAK"}

ASSUME LifecycleAssumption ==
  /\ Modes \subseteq {"headless", "tui", "gui"}
  /\ Signals \subseteq {"TERM", "INT", "BREAK"}
  /\ MaxRuns \in Nat \ {0}

Runs == 1 .. MaxRuns

VARIABLES mode,
          serverState,  \* the atomic the user interfaces show
          token,        \* the current shutdown token
          cancelled,    \* tokens that are cancelled
          pc,           \* where each run is
          loopToken,    \* the token its main loop listens to
          helperToken,  \* the token of its background tasks; 0: none runs
          session,      \* the token of each session that runs; 0: none
          listed,       \* sessions in the table
          armed,        \* signals whose handler still waits
          main,         \* "up", "returned", "exited"
          raced,        \* history: races of the user with the server
          control       \* the control socket: "listening", "connected", "closed"

coreVars    == <<serverState, token, cancelled>>
runVars     == <<pc, loopToken, helperToken>>
sessionVars == <<session, listed>>
procVars    == <<mode, armed, main, raced, control>>
lifeVars    == <<coreVars, runVars, sessionVars, procVars>>

LifeInit ==
  /\ mode \in Modes
  /\ serverState = "Starting" /\ token = 1 /\ cancelled = {}
  /\ pc = [r \in Runs |-> IF r = 1 THEN "bind" ELSE "none"]
  /\ loopToken = [r \in Runs |-> 0] /\ helperToken = [r \in Runs |-> 0]
  /\ session = [s \in Sessions |-> 0] /\ listed = {}
  /\ armed = Signals /\ main = "up" /\ raced = {}
  /\ control = IF mode = "headless" THEN "listening" ELSE "closed"

\* Tasks run until the runtime is dropped
TasksRun == main \in {"up", "returned"}

-----------------------------------------------------------------------------
(***************************************************************************)
(* run_server                                                              *)
(***************************************************************************)

\* A slip: a run that has started can be reset again
MutReset(r) ==
  /\ TasksRun /\ pc[r] \notin {"none", "ended"}
  /\ token' = token + 1
  /\ serverState' = "Starting"
  /\ listed' = {}
  /\ pc' = [pc EXCEPT ![r] = "bind"]
  /\ UNCHANGED <<cancelled, loopToken, helperToken, session, procVars>>

\* reset_for_restart: tables cleared, a new token, Starting
Reset(r) ==
  /\ TasksRun /\ pc[r] = "reload"
  /\ token' = token + 1
  /\ serverState' = "Starting"
  /\ listed' = {}
  /\ pc' = [pc EXCEPT ![r] = "bind"]
  /\ UNCHANGED <<cancelled, loopToken, helperToken, session, procVars>>

\* create_main_socket succeeds; Running; the periodic tasks and the watcher
\* take the token.  The address can be taken twice (SO_REUSEADDR).
Bind(r) ==
  /\ TasksRun /\ pc[r] = "bind"
  /\ serverState' = "Running"
  /\ helperToken' = [helperToken EXCEPT ![r] = token]
  /\ pc' = [pc EXCEPT ![r] = "bound"]
  /\ UNCHANGED <<token, cancelled, loopToken, sessionVars, procVars>>

\* It fails: the caller shows Error; the headless program ends
BindFails(r) ==
  /\ TasksRun /\ pc[r] = "bind"
  /\ pc' = [pc EXCEPT ![r] = "ended"]
  /\ serverState' = IF mode # "headless" THEN "Error" ELSE serverState
  /\ main' = IF mode = "headless" THEN "returned" ELSE main
  /\ UNCHANGED <<token, cancelled, loopToken, helperToken, sessionVars, mode, armed, raced, control>>

\* The main loop takes the token, a few statements later
EnterLoop(r) ==
  /\ TasksRun /\ pc[r] = "bound"
  /\ loopToken' = [loopToken EXCEPT ![r] = token]
  /\ pc' = [pc EXCEPT ![r] = "serving"]
  /\ UNCHANGED <<coreVars, helperToken, sessionVars, procVars>>

\* A request becomes a session, which takes the token that is current now;
\* select! may still choose the socket when the token is cancelled
Accept(r, s) ==
  /\ TasksRun /\ pc[r] = "serving" /\ session[s] = 0
  /\ session' = [session EXCEPT ![s] = token]
  /\ listed' = listed \cup {s}
  /\ UNCHANGED <<coreVars, runVars, procVars>>

\* A slip: the token is looked at only after a request
MutLeaveLoop(r) ==
  /\ TasksRun /\ pc[r] = "serving" /\ loopToken[r] \in cancelled /\ listed # {}
  /\ serverState' = "Stopping"
  /\ pc' = [pc EXCEPT ![r] = "grace"]
  /\ UNCHANGED <<token, cancelled, loopToken, helperToken, sessionVars, procVars>>

\* The loop sees its token cancelled
LeaveLoop(r) ==
  /\ TasksRun /\ pc[r] = "serving" /\ loopToken[r] \in cancelled
  /\ serverState' = "Stopping"
  /\ pc' = [pc EXCEPT ![r] = "grace"]
  /\ UNCHANGED <<token, cancelled, loopToken, helperToken, sessionVars, procVars>>

\* The grace period is over when no session is left or its time is up
Stop(r) ==
  /\ TasksRun /\ pc[r] = "grace"
  /\ serverState' = "Stopped"
  /\ pc' = [pc EXCEPT ![r] = "ended"]
  /\ loopToken' = [loopToken EXCEPT ![r] = 0]
  /\ main' = IF mode = "headless" THEN "returned" ELSE main
  /\ UNCHANGED <<token, cancelled, helperToken, sessionVars, mode, armed, raced, control>>

\* The background tasks of a run, the watcher's thread among them
HelpersEnd(r) ==
  /\ main # "exited" /\ helperToken[r] \in cancelled
  /\ helperToken' = [helperToken EXCEPT ![r] = 0]
  /\ UNCHANGED <<coreVars, pc, loopToken, sessionVars, procVars>>

\* A session ends by itself, or because its token is cancelled
SessionEnds(s) ==
  /\ TasksRun /\ session[s] # 0
  /\ session' = [session EXCEPT ![s] = 0]
  /\ listed' = listed \ {s}
  /\ UNCHANGED <<coreVars, runVars, procVars>>

-----------------------------------------------------------------------------
(***************************************************************************)
(* Users                                                                   *)
(***************************************************************************)

\* cancel_shutdown
Cancel == cancelled' = cancelled \cup {token}

Pending == {r \in Runs : pc[r] = "reload"}      \* starts before their reset

\* A start: the spawned task reads the configuration and resets the state.
\* Until that reset the old state is shown, and a second press spawns a
\* second task.
StartRun ==
  /\ \E r \in Runs :
       /\ pc[r] = "none" /\ r > 1 /\ pc[r - 1] # "none"
       /\ pc' = [pc EXCEPT ![r] = "reload"]
  /\ raced' = IF Pending # {} THEN raced \cup {"double start"} ELSE raced
  /\ UNCHANGED <<coreVars, loopToken, helperToken, sessionVars, mode, armed, main, control>>

\* A slip: the key starts a run whatever the state
MutTuiStart == mode = "tui" /\ main = "up" /\ StartRun

\* 's' of the TUI when Stopped or Error
TuiStart == mode = "tui" /\ main = "up" /\ serverState \in {"Stopped", "Error"} /\ StartRun

\* The GUI's button, which is drawn in these states only
GuiStart == mode = "gui" /\ main = "up" /\ serverState \in {"Stopped", "Error"} /\ StartRun

\* A slip: the interface shows the state it expects
MutTuiStop ==
  /\ mode = "tui" /\ main = "up" /\ serverState = "Running"
  /\ Cancel
  /\ serverState' = "Stopped"
  /\ UNCHANGED <<token, runVars, sessionVars, procVars>>

\* 's' of the TUI when Running
TuiStop ==
  /\ mode = "tui" /\ main = "up" /\ serverState = "Running"
  /\ Cancel
  /\ UNCHANGED <<serverState, token, runVars, sessionVars, procVars>>

\* Stop in the tray's menu, at any time, and the GUI's button when Running
TrayStop ==
  /\ mode = "gui" /\ main = "up"
  /\ Cancel
  /\ UNCHANGED <<serverState, token, runVars, sessionVars, procVars>>

\* The last thing main does is to cancel the current token
Leave ==
  /\ Cancel /\ main' = "returned"
  /\ raced' = IF Pending # {} THEN raced \cup {"quit during start"} ELSE raced
  /\ UNCHANGED <<serverState, token, runVars, sessionVars, mode, armed, control>>

\* 'q' ends the event loop of the TUI
TuiQuit == mode = "tui" /\ main = "up" /\ Leave

\* The window is closed, by its button or by Quit of the tray
GuiQuit == mode = "gui" /\ main = "up" /\ Leave

\* A slip: the handler has a token of its own
MutSignal(sig) ==
  /\ TasksRun /\ sig \in armed
  /\ armed' = armed \ {sig}
  /\ UNCHANGED <<coreVars, runVars, sessionVars, mode, main, raced, control>>

\* A signal: every handler waits for one, and cancels the token of the first
\* run, which it was given at the start of the program
Signal(sig) ==
  /\ TasksRun /\ sig \in armed
  /\ armed' = armed \ {sig}
  /\ cancelled' = cancelled \cup {1}
  /\ UNCHANGED <<serverState, token, runVars, sessionVars, mode, main, raced, control>>

\* The process ends, with all it held
Gone ==
  /\ main' = "exited" /\ control' = "closed" /\ cancelled' = {}
  /\ session' = [s \in Sessions |-> 0] /\ listed' = {}
  /\ pc' = [r \in Runs |-> "ended"]
  /\ loopToken' = [r \in Runs |-> 0] /\ helperToken' = [r \in Runs |-> 0]

\* Ctrl+Break of Windows ends the process half a second later
BreakExits ==
  /\ TasksRun /\ "BREAK" \in Signals \ armed
  /\ Gone
  /\ UNCHANGED <<serverState, token, mode, armed, raced>>

\* The control socket (headless only): the listener takes connections until
\* the first token is cancelled; a connection lasts for at most ten seconds
ControlConnect ==
  /\ mode = "headless" /\ TasksRun /\ control = "listening"
  /\ control' = "connected"
  /\ UNCHANGED <<coreVars, runVars, sessionVars, mode, armed, main, raced>>

ControlDisconnect ==
  /\ TasksRun /\ control = "connected"
  /\ control' = IF 1 \in cancelled THEN "closed" ELSE "listening"
  /\ UNCHANGED <<coreVars, runVars, sessionVars, mode, armed, main, raced>>

\* The stop command; reload and status leave this state alone
ControlStop ==
  /\ TasksRun /\ control = "connected"
  /\ Cancel
  /\ UNCHANGED <<serverState, token, runVars, sessionVars, procVars>>

\* Stop or shutdown from the Windows service manager
ServiceStop ==
  /\ mode = "headless" /\ TasksRun
  /\ Cancel
  /\ UNCHANGED <<serverState, token, runVars, sessionVars, procVars>>

\* main has returned: the runtime drops every task where it waits, and then
\* waits for the threads of the watchers (external: tokio)
DropRuntime ==
  /\ main = "returned"
  /\ main' = "dropped" /\ control' = "closed"
  /\ session' = [s \in Sessions |-> 0] /\ listed' = {}
  /\ pc' = [r \in Runs |-> "ended"] /\ loopToken' = [r \in Runs |-> 0]
  /\ UNCHANGED <<coreVars, helperToken, mode, armed, raced>>

Exit ==
  /\ main = "dropped" /\ \A r \in Runs : helperToken[r] = 0
  /\ Gone
  /\ UNCHANGED <<serverState, token, mode, armed, raced>>

-----------------------------------------------------------------------------
Run(r) == Reset(r) \/ Bind(r) \/ BindFails(r) \/ EnterLoop(r) \/ LeaveLoop(r) \/ Stop(r)

LifeNext ==
  \/ \E r \in Runs : Run(r) \/ HelpersEnd(r) \/ \E s \in Sessions : Accept(r, s)
  \/ \E s \in Sessions : SessionEnds(s)
  \/ \E sig \in Signals : Signal(sig)
  \/ TuiStart \/ TuiStop \/ TuiQuit
  \/ GuiStart \/ TrayStop \/ GuiQuit
  \/ ControlConnect \/ ControlDisconnect \/ ControlStop \/ ServiceStop
  \/ BreakExits \/ DropRuntime \/ Exit

LifeSpec == LifeInit /\ [][LifeNext]_lifeVars

\* Tasks that can go on do, the watchers look at their token every second, and
\* a returned main leaves.  Nothing is assumed of users, requests or sessions:
\* the grace period ends without them.  (A run takes each of its steps
\* once, so fairness for all of them is fairness for each.)
FairLifeSpec ==
  /\ LifeSpec
  /\ WF_lifeVars(\E r \in Runs : Run(r))
  /\ WF_lifeVars(\E r \in Runs : HelpersEnd(r))
  /\ WF_lifeVars(DropRuntime \/ Exit)

-----------------------------------------------------------------------------
LifeTypeOK ==
  /\ mode \in Modes
  /\ serverState \in {"Starting", "Running", "Stopping", "Stopped", "Error"}
  /\ token \in 1 .. MaxRuns /\ cancelled \subseteq 1 .. MaxRuns
  /\ pc \in [Runs -> {"none", "reload", "bind", "bound", "serving", "grace", "ended"}]
  /\ loopToken \in [Runs -> 0 .. MaxRuns] /\ helperToken \in [Runs -> 0 .. MaxRuns]
  /\ session \in [Sessions -> 0 .. MaxRuns] /\ listed \subseteq Sessions
  /\ armed \subseteq Signals
  /\ main \in {"up", "returned", "dropped", "exited"}
  /\ raced \subseteq {"double start", "quit during start"}
  /\ control \in {"listening", "connected", "closed"}

\* When the interfaces say Stopped or Error no run serves: a port that is
\* shown as free is free, for every order of starts, stops and failures.
StoppedIsQuiet ==
  raced = {} /\ serverState \in {"Stopped", "Error"}
    => \A r \in Runs : pc[r] \notin {"bind", "bound", "serving", "grace"}

\* Whatever still runs listens to the current token or to a cancelled one:
\* no restart leaves behind a loop, a background task or a session that
\* nobody can stop any more.
NothingOrphaned ==
  raced = {} =>
    LET stoppable(t) == t \in {0, token} \cup cancelled
    IN  /\ \A r \in Runs : /\ pc[r] = "serving" => stoppable(loopToken[r])
                           /\ stoppable(helperToken[r])
        /\ \A s \in Sessions : stoppable(session[s])

\* A server that runs and is told to stop gets to Stopped.
StopsWhenTold ==
  (serverState = "Running" /\ token \in cancelled)
    ~> (serverState = "Stopped" \/ main # "up" \/ raced # {})

\* No start hangs: Starting is always followed by Running, by Error or by the
\* end of the program.
StartIsDecided == (serverState = "Starting") ~> (serverState # "Starting" \/ main # "up")

\* Nobody waits for ever for a start or a stop.
StartsAndStops == StartIsDecided /\ StopsWhenTold

\* The headless program ends after a signal or a stop command.
HeadlessEnds ==
  (mode = "headless" /\ (armed # Signals \/ token \in cancelled)) ~> (main = "exited")

\* A user interface that is closed ends the program, whatever was started and
\* stopped before: no thread keeps it.
QuitEnds == (main = "returned" /\ raced = {}) ~> (main = "exited")

\* The program ends when it is told to: without an interface by a signal or a
\* stop command, with one by closing it, for there a signal stops the server
\* and leaves the program to its user.
ProgramEnds == HeadlessEnds /\ QuitEnds
=============================================================================
