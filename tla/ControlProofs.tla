----------------------------- MODULE ControlProofs -----------------------------
(***************************************************************************)
(* What the user controls: the server that is started and stopped, the     *)
(* configuration that is stored, reloaded and edited, and the keys of the  *)
(* terminal interface.                                                     *)
(***************************************************************************)
EXTENDS ServerLifecycle, Configuration, TextConsole, FiniteSetTheorems, SequenceTheorems, TLAPS

-----------------------------------------------------------------------------
(***************************************************************************)
(* However often the server is started, stopped and restarted, whatever    *)
(* still runs can be stopped, and a server that is shown as stopped is      *)
(* quiet.                                                                  *)
(***************************************************************************)

RunPhases == {"none", "reload", "bind", "bound", "serving", "grace", "ended"}

\* Runs that have been reset, or need no reset
Prepared == {r \in Runs : pc[r] \notin {"none", "reload"}}

\* Every new token belongs to a run
TokenBound == token <= Cardinality(Prepared)

Busy(r) == pc[r] \in {"reload", "bind", "bound", "serving", "grace"}

\* Without the two races of the user with the server there is at most one run
\* at a time ...
OneBusy == \A r, q \in Runs : Busy(r) /\ Busy(q) => r = q

\* ... it is shown, ...
Shown ==
  \A r \in Runs : pc[r] \in {"bind", "bound", "serving", "grace"}
                    => serverState \notin {"Stopped", "Error"}

\* ... its loop listens to the current token, ...
LoopIsCurrent ==
  \A r \in Runs : /\ pc[r] \in {"serving", "grace"} => loopToken[r] = token
                  /\ pc[r] = "grace" => token \in cancelled

\* ... and what the runs before it left behind has been told to stop.
HelpersKnow ==
  \A r \in Runs : \/ helperToken[r] \in {0} \cup cancelled
                  \/ helperToken[r] = token /\ (TasksRun => pc[r] \in {"bound", "serving"})

SessionsKnow ==
  \A s \in Sessions : \/ session[s] \in {0} \cup cancelled
                      \/ session[s] = token /\ \E r \in Runs : pc[r] = "serving"

Orderly == OneBusy /\ Shown /\ LoopIsCurrent /\ HelpersKnow /\ SessionsKnow

LifeInv == LifeTypeOK /\ TokenBound /\ (raced = {} => Orderly)

-----------------------------------------------------------------------------
LEMMA RunsFacts ==
  /\ MaxRuns \in Nat \ {0} /\ Runs \subseteq Nat /\ 1 \in Runs
  /\ IsFiniteSet(Runs) /\ Cardinality(Runs) = MaxRuns
<1>1. MaxRuns \in Nat \ {0}
  BY LifecycleAssumption
<1>2. IsFiniteSet(1 .. MaxRuns) /\ Cardinality(1 .. MaxRuns) = MaxRuns
  BY <1>1, FS_Interval
<1> QED BY <1>1, <1>2 DEF Runs

\* A set of runs that grows does not lose members.
LEMMA PreparedGrows ==
  ASSUME NEW A \in SUBSET Runs, NEW B \in SUBSET Runs, A \subseteq B
  PROVE  /\ Cardinality(A) \in Nat /\ Cardinality(B) \in Nat
         /\ Cardinality(A) <= Cardinality(B) /\ Cardinality(B) <= MaxRuns
         /\ \A r \in B \ A : Cardinality(A) + 1 <= Cardinality(B)
<1>1. IsFiniteSet(A) /\ IsFiniteSet(B)
  BY RunsFacts, FS_Subset
<1>2. /\ Cardinality(A) \in Nat /\ Cardinality(B) \in Nat
      /\ Cardinality(A) <= Cardinality(B) /\ Cardinality(B) <= MaxRuns
  BY <1>1, RunsFacts, FS_Subset, FS_CardinalityType
<1>3. ASSUME NEW r \in B \ A PROVE Cardinality(A) + 1 <= Cardinality(B)
  <2>1. Cardinality(A \cup {r}) = Cardinality(A) + 1
    BY <1>1, FS_AddElement
  <2>2. A \cup {r} \subseteq B /\ IsFiniteSet(A \cup {r})
    BY <1>1, FS_AddElement
  <2>3. Cardinality(A \cup {r}) <= Cardinality(B)
    BY <1>1, <2>2, FS_Subset
  <2> QED BY <2>1, <2>3
<1> QED BY <1>2, <1>3

LEMMA LifeStarts == LifeInit => LifeInv
<1> SUFFICES ASSUME LifeInit PROVE LifeInv
  OBVIOUS
<1>1. LifeTypeOK
  BY RunsFacts, LifecycleAssumption DEF LifeInit, LifeTypeOK, Runs
<1>2. TokenBound
  <2>1. {1} \subseteq Prepared /\ Prepared \subseteq Runs
    BY RunsFacts DEF LifeInit, Prepared
  <2>2. Cardinality({1}) = 1
    BY FS_Singleton
  <2>3. Cardinality({1}) <= Cardinality(Prepared)
    BY <2>1, RunsFacts, PreparedGrows
  <2> QED BY <2>2, <2>3 DEF TokenBound, LifeInit
<1>3. Orderly
  BY RunsFacts
  DEF LifeInit, Orderly, OneBusy, Busy, Shown, LoopIsCurrent, HelpersKnow, SessionsKnow
<1> QED BY <1>1, <1>2, <1>3 DEF LifeInv

-----------------------------------------------------------------------------
(***************************************************************************)
(* Tokens                                                                  *)
(***************************************************************************)

LEMMA TokenStep == LifeInv /\ [LifeNext]_lifeVars => TokenBound' /\ token' \in 1 .. MaxRuns
<1> SUFFICES ASSUME LifeInv, [LifeNext]_lifeVars PROVE TokenBound' /\ token' \in 1 .. MaxRuns
  OBVIOUS
<1> USE RunsFacts
<1>0. token \in 1 .. MaxRuns /\ token <= Cardinality(Prepared) /\ pc \in [Runs -> RunPhases]
  BY DEF LifeInv, LifeTypeOK, TokenBound, RunPhases
<1>1. ASSUME NEW r \in Runs, Reset(r) PROVE TokenBound' /\ token' \in 1 .. MaxRuns
  <2>1. Prepared \subseteq Prepared' /\ r \in Prepared' \ Prepared /\ Prepared' \subseteq Runs
    BY <1>0, <1>1 DEF Reset, Prepared
  <2>2. Cardinality(Prepared) + 1 <= Cardinality(Prepared') /\ Cardinality(Prepared') <= MaxRuns
        /\ Cardinality(Prepared) \in Nat /\ Cardinality(Prepared') \in Nat
    BY <2>1, PreparedGrows DEF Prepared
  <2> QED BY <1>0, <1>1, <2>2 DEF Reset, TokenBound
<1>2. ASSUME token' = token, Prepared \subseteq Prepared'
      PROVE  TokenBound' /\ token' \in 1 .. MaxRuns
  <2>1. Prepared' \subseteq Runs /\ Prepared \subseteq Runs
    BY DEF Prepared
  <2>2. /\ Cardinality(Prepared) <= Cardinality(Prepared')
        /\ Cardinality(Prepared) \in Nat /\ Cardinality(Prepared') \in Nat
    BY <1>2, <2>1, PreparedGrows
  <2> QED BY <1>0, <1>2, <2>2 DEF TokenBound
<1>3. ASSUME NEW r \in Runs,
             Bind(r) \/ BindFails(r) \/ EnterLoop(r) \/ LeaveLoop(r) \/ Stop(r) \/ HelpersEnd(r)
      PROVE  token' = token /\ Prepared \subseteq Prepared'
  BY <1>0, <1>3
  DEF Bind, BindFails, EnterLoop, LeaveLoop, Stop, HelpersEnd, Prepared, coreVars, procVars
<1>4. ASSUME StartRun PROVE token' = token /\ Prepared \subseteq Prepared'
  BY <1>0, <1>4 DEF StartRun, Prepared, coreVars
<1>5. ASSUME BreakExits \/ DropRuntime \/ Exit
      PROVE  token' = token /\ Prepared \subseteq Prepared'
  BY <1>0, <1>5 DEF BreakExits, DropRuntime, Exit, Gone, Prepared, coreVars
<1>6. ASSUME NEW s \in Sessions, SessionEnds(s) \/ \E r \in Runs : Accept(r, s)
      PROVE  token' = token /\ Prepared \subseteq Prepared'
  BY <1>6 DEF SessionEnds, Accept, Prepared, coreVars, runVars
<1>7. ASSUME \/ \E sig \in Signals : Signal(sig)
             \/ TuiStop \/ TrayStop \/ Leave
             \/ ControlConnect \/ ControlDisconnect \/ ControlStop \/ ServiceStop
             \/ UNCHANGED lifeVars
      PROVE  token' = token /\ Prepared \subseteq Prepared'
  BY <1>7
  DEF Signal, TuiStop, TrayStop, Leave, ControlConnect, ControlDisconnect, ControlStop,
      ServiceStop, Prepared, coreVars, runVars, lifeVars
<1> QED
  BY <1>1, <1>2, <1>3, <1>4, <1>5, <1>6, <1>7
  DEF LifeNext, Run, TuiStart, GuiStart, TuiQuit, GuiQuit

-----------------------------------------------------------------------------
(***************************************************************************)
(* Type correctness                                                        *)
(***************************************************************************)

\* Type correctness, but for the token, with the numbers as sets
Domains(tokens, optional) ==
  /\ mode \in Modes
  /\ serverState \in {"Starting", "Running", "Stopping", "Stopped", "Error"}
  /\ cancelled \subseteq tokens
  /\ pc \in [Runs -> RunPhases]
  /\ loopToken \in [Runs -> optional] /\ helperToken \in [Runs -> optional]
  /\ session \in [Sessions -> optional] /\ listed \subseteq Sessions
  /\ armed \subseteq Signals
  /\ main \in {"up", "returned", "dropped", "exited"}
  /\ raced \subseteq {"double start", "quit during start"}
  /\ control \in {"listening", "connected", "closed"}

LEMMA DomainsStep ==
  ASSUME NEW tokens, NEW optional, tokens \subseteq optional, 0 \in optional, 1 \in tokens,
         token \in tokens, Domains(tokens, optional), [LifeNext]_lifeVars
  PROVE  Domains(tokens, optional)'
<1> USE DEF Domains, RunPhases, coreVars, runVars, sessionVars, procVars
<1>1. ASSUME NEW r \in Runs, Reset(r) PROVE Domains(tokens, optional)'
  BY <1>1 DEF Reset
<1>2. ASSUME NEW r \in Runs, Bind(r) \/ BindFails(r) PROVE Domains(tokens, optional)'
  BY <1>2 DEF Bind, BindFails
<1>3. ASSUME NEW r \in Runs, EnterLoop(r) \/ LeaveLoop(r) PROVE Domains(tokens, optional)'
  BY <1>3 DEF EnterLoop, LeaveLoop
<1>4. ASSUME NEW r \in Runs, Stop(r) PROVE Domains(tokens, optional)'
  BY <1>4 DEF Stop
<1>5. ASSUME NEW r \in Runs, HelpersEnd(r) PROVE Domains(tokens, optional)'
  BY <1>5 DEF HelpersEnd
<1>6. ASSUME NEW s \in Sessions, SessionEnds(s) \/ \E r \in Runs : Accept(r, s)
      PROVE  Domains(tokens, optional)'
  BY ZenonT(40), <1>6 DEF SessionEnds, Accept
<1>7. CASE StartRun
  BY <1>7 DEF StartRun
<1>8. CASE (\E sig \in Signals : Signal(sig)) \/ TuiStop \/ TrayStop
  BY <1>8 DEF Signal, TuiStop, TrayStop, Cancel
<1>9. CASE Leave
  BY <1>9 DEF Leave, Cancel
<1>10. CASE ControlConnect \/ ControlDisconnect \/ ControlStop \/ ServiceStop
  BY <1>10 DEF ControlConnect, ControlDisconnect, ControlStop, ServiceStop, Cancel
<1>11. CASE BreakExits \/ DropRuntime \/ Exit
  <2>1. CASE Gone /\ UNCHANGED <<serverState, mode, armed, raced>>
    BY <2>1 DEF Gone
  <2>2. CASE DropRuntime
    BY <2>2 DEF DropRuntime
  <2> QED BY <1>11, <2>1, <2>2 DEF BreakExits, Exit
<1>12. CASE UNCHANGED lifeVars
  BY <1>12 DEF lifeVars
<1> HIDE DEF Domains
<1> QED
  BY <1>1, <1>2, <1>3, <1>4, <1>5, <1>6, <1>7, <1>8, <1>9, <1>10, <1>11, <1>12
  DEF LifeNext, Run, TuiStart, GuiStart, TuiQuit, GuiQuit

LEMMA TypeStep == LifeInv /\ [LifeNext]_lifeVars => LifeTypeOK'
<1> SUFFICES ASSUME LifeTypeOK, token' \in 1 .. MaxRuns, [LifeNext]_lifeVars PROVE LifeTypeOK'
  BY TokenStep DEF LifeInv
<1>1. 1 .. MaxRuns \subseteq 0 .. MaxRuns /\ 0 \in 0 .. MaxRuns /\ 1 \in 1 .. MaxRuns
  BY RunsFacts
<1>2. Domains(1 .. MaxRuns, 0 .. MaxRuns) /\ token \in 1 .. MaxRuns
  BY DEF LifeTypeOK, Domains, RunPhases
<1>3. Domains(1 .. MaxRuns, 0 .. MaxRuns)'
  BY <1>1, <1>2, DomainsStep
<1> QED BY <1>3 DEF LifeTypeOK, Domains, RunPhases

-----------------------------------------------------------------------------
(***************************************************************************)
(* One run after the other                                                 *)
(***************************************************************************)

LEMMA OrderStep == LifeInv /\ [LifeNext]_lifeVars => (raced' = {} => Orderly')
<1> SUFFICES ASSUME LifeTypeOK, raced = {} => Orderly, [LifeNext]_lifeVars, raced' = {}
             PROVE  Orderly'
  BY DEF LifeInv
<1>0. raced = {}
  BY DEF LifeNext, Run, Reset, Bind, BindFails, EnterLoop, LeaveLoop, Stop, HelpersEnd,
         SessionEnds, Accept, TuiStart, GuiStart, StartRun, Signal, TuiStop, TrayStop,
         TuiQuit, GuiQuit, Leave, ControlConnect, ControlDisconnect, ControlStop,
         ServiceStop, BreakExits, DropRuntime, Exit, Gone, lifeVars, procVars
<1>00. Orderly
  BY <1>0
<1> USE <1>00 DEF LifeTypeOK, Orderly, OneBusy, Busy, Shown, LoopIsCurrent, HelpersKnow, SessionsKnow,
        TasksRun, coreVars, runVars, sessionVars, procVars
<1>1. ASSUME NEW r \in Runs, Reset(r) PROVE Orderly'
  BY ZenonT(40), <1>1 DEF Reset
<1>2. ASSUME NEW r \in Runs, Bind(r) PROVE Orderly'
  BY ZenonT(40), <1>2 DEF Bind
<1>3. ASSUME NEW r \in Runs, BindFails(r) PROVE Orderly'
  BY ZenonT(40), <1>3 DEF BindFails
<1>4. ASSUME NEW r \in Runs, EnterLoop(r) PROVE Orderly'
  BY ZenonT(40), <1>4 DEF EnterLoop
<1>5. ASSUME NEW r \in Runs, LeaveLoop(r) PROVE Orderly'
  BY ZenonT(40), <1>5 DEF LeaveLoop
<1>6. ASSUME NEW r \in Runs, Stop(r) PROVE Orderly'
  BY ZenonT(40), <1>6 DEF Stop
<1>7. ASSUME NEW r \in Runs, HelpersEnd(r) PROVE Orderly'
  BY <1>7 DEF HelpersEnd
<1>8. ASSUME NEW s \in Sessions, SessionEnds(s) \/ \E r \in Runs : Accept(r, s)
      PROVE  Orderly'
  <2>1. UNCHANGED <<coreVars, runVars, procVars>>
    BY <1>8 DEF SessionEnds, Accept
  <2>2. CASE SessionEnds(s)
    <3>1. \A t \in Sessions : session'[t] \in {0, session[t]}
      BY <2>2 DEF SessionEnds
    <3> QED BY <2>1, <3>1
  <2>3. ASSUME NEW r \in Runs, Accept(r, s) PROVE Orderly'
    <3>1. pc[r] = "serving" /\ \A t \in Sessions : session'[t] \in {token, session[t]}
      BY <2>3 DEF Accept
    <3> QED BY <2>1, <3>1
  <2> QED BY <1>8, <2>2, <2>3
<1>9. CASE serverState \in {"Stopped", "Error"} /\ StartRun
  <2>1. PICK r \in Runs : pc[r] = "none" /\ pc' = [pc EXCEPT ![r] = "reload"]
    BY <1>9 DEF StartRun
  <2>2. \A q \in Runs : ~Busy(q)
    BY <1>9, <1>0 DEF StartRun, Pending
  <2>3. UNCHANGED <<coreVars, loopToken, helperToken, sessionVars, main>>
    BY <1>9 DEF StartRun
  <2> QED BY ZenonT(40), <2>1, <2>2, <2>3
<1>10. CASE (\E sig \in Signals : Signal(sig)) \/ TuiStop \/ TrayStop \/ Leave
  BY <1>10 DEF Signal, TuiStop, TrayStop, Leave, Cancel
<1>11. CASE ControlConnect \/ ControlDisconnect \/ ControlStop \/ ServiceStop
  BY <1>11 DEF ControlConnect, ControlDisconnect, ControlStop, ServiceStop, Cancel
<1>12. CASE BreakExits \/ DropRuntime \/ Exit
  BY ZenonT(40), <1>12 DEF BreakExits, DropRuntime, Exit, Gone
<1>13. CASE UNCHANGED lifeVars
  BY <1>13 DEF lifeVars
<1> QED
  BY <1>1, <1>2, <1>3, <1>4, <1>5, <1>6, <1>7, <1>8, <1>9, <1>10, <1>11, <1>12, <1>13
  DEF LifeNext, Run, TuiStart, GuiStart, TuiQuit, GuiQuit

-----------------------------------------------------------------------------
(***************************************************************************)
(* Theorems                                                                *)
(***************************************************************************)

THEOREM LifeInvariance == LifeSpec => []LifeInv
<1>1. LifeInv /\ [LifeNext]_lifeVars => LifeInv'
  BY TokenStep, TypeStep, OrderStep DEF LifeInv
<1> QED BY LifeStarts, <1>1, PTL DEF LifeSpec

\* Type correctness: no more tokens than runs, for any number of restarts.
THEOREM TypeCorrect == LifeSpec => []LifeTypeOK
<1>1. LifeInv => LifeTypeOK
  BY DEF LifeInv
<1> QED BY <1>1, LifeInvariance, PTL

\* When the interfaces say Stopped or Error no run serves.
THEOREM ServerIsQuiet == LifeSpec => []StoppedIsQuiet
<1>1. LifeInv => StoppedIsQuiet
  BY DEF LifeInv, Orderly, Shown, StoppedIsQuiet
<1> QED BY <1>1, LifeInvariance, PTL

\* Whatever still runs listens to the current token or to a cancelled one.
THEOREM NobodyLeftBehind == LifeSpec => []NothingOrphaned
<1>1. LifeInv => NothingOrphaned
  <2> SUFFICES ASSUME LifeInv, raced = {} PROVE NothingOrphaned
    BY DEF NothingOrphaned
  <2>1. LoopIsCurrent /\ HelpersKnow /\ SessionsKnow
    BY DEF LifeInv, Orderly
  <2> QED BY <2>1 DEF NothingOrphaned, LoopIsCurrent, HelpersKnow, SessionsKnow
<1> QED BY <1>1, LifeInvariance, PTL

-----------------------------------------------------------------------------
(***************************************************************************)
(* Whatever reloads, restarts, edits and rewrites of the files follow each *)
(* other: what the server runs with came from where it should, and the     *)
(* buffer pool fits it.                                                    *)
(***************************************************************************)

ReloadPhases == {"idle", "read", "resize", "store", "clone", "reset"}
EditPhases   == {"idle", "save", "write", "store"}
ReloadRecs   == [pc : ReloadPhases, cfg : Configs]
EditRecs     == [pc : EditPhases, setting : Settings, value : Nat, cfg : Configs]

StoreType ==
  /\ over \in Overrides /\ config \in Configs /\ pool \in Nat
  /\ files \in [Places -> Contents] /\ watched \in {"user", "system", "none"}
  /\ serving \in {"starting", "up", "down"}
  /\ writing \in [to : Places \cup {"none"}, content : Contents]
  /\ saved \in [setting : Settings \cup {"none"}, value : Nat]
  /\ events \in Nat /\ recent \in BOOLEAN

ActorType ==
  /\ reload \in [Reloaders -> ReloadRecs]
  /\ \A r \in Reloaders : reload[r].pc \in {"clone", "reset"} => r = "restart"
  /\ edit \in EditRecs

Types == StoreType /\ ActorType

-----------------------------------------------------------------------------
Sound == taint \cap {"race", "fallback"} = {}

\* Without a race one actor works at a time
Solo ==
  "race" \notin taint =>
    \A r \in Reloaders : ~Idle(r) => edit.pc = "idle" /\ \A q \in Reloaders : ~Idle(q) => q = r

\* The pool is resized before the configuration is stored, and a restart
\* stores what it has cloned from there
PoolFollows ==
  Sound =>
    /\ \A r \in Reloaders :
         /\ reload[r].pc = "store" => pool = reload[r].cfg["blk"]
         /\ reload[r].pc = "reset" => pool = reload[r].cfg["blk"]
         /\ reload[r].pc = "clone" => by = "load"
    /\ (by # "edit" /\ \A r \in Reloaders : reload[r].pc # "store") => pool = config["blk"]

\* The overrides are in c
Covered(c) ==
  /\ over.port # 0 => c["port"] = over.port
  /\ over.port = 0 /\ over.env # 0 => c["port"] = over.env
  /\ over.blk # 0 => c["blk"] = over.blk

OverridesFollow ==
  /\ \A r \in Reloaders : reload[r].pc \in {"resize", "store"} => Covered(reload[r].cfg)
  /\ Sound => /\ by # "edit" => Covered(config)
              /\ \A r \in Reloaders :
                   /\ reload[r].pc = "reset" => Covered(reload[r].cfg)
                   /\ reload[r].pc = "clone" => by # "edit"

\* What a load would find of the last edit
SavedIsThere ==
  /\ edit.pc # "idle" => edit.cfg[edit.setting] = edit.value
  /\ saved.setting # "none" =>
       /\ files["user"].kind = "good"
       /\ files["user"].cfg[saved.setting] = saved.value

\* A default is only in a file that is being rewritten, and there is a file to
\* load, or it is being written anew
Whole(c) == \A s \in Settings : c[s] # 0

ToLoad == {"user", "system"} \cup IF over.path THEN {"given"} ELSE {}

Rewritten ==
  /\ \E p \in ToLoad : files[p].kind # "none" \/ writing.to = p
  /\ writing.to # "none" => writing.content.kind = "good" /\ Whole(writing.content.cfg)

Clean == taint \cap {"torn", "disk", "fallback"} = {}

WholeActors ==
  Clean =>
    /\ Whole(config)
    /\ edit.pc # "idle" => Whole(edit.cfg)
    /\ \A r \in Reloaders : reload[r].pc \in {"resize", "store", "reset"} => Whole(reload[r].cfg)

WholeFiles ==
  Clean =>
    \A p \in Places :
      files[p].kind = "good" => \/ Whole(files[p].cfg)
                                \/ writing.to = p
                                \/ p = "user" /\ edit.pc = "write"

Intact == Rewritten /\ WholeActors /\ WholeFiles

StoreInv == Types /\ Solo /\ PoolFollows /\ OverridesFollow /\ SavedIsThere /\ Intact

-----------------------------------------------------------------------------
(* What the helpers return *)

\* A configuration whose settings are replaced is one
LEMMA OverriddenIs ==
  ASSUME NEW c \in Configs, over \in Overrides
  PROVE  /\ Overridden(c) \in Configs
         /\ Covered(Overridden(c))
         /\ Whole(c) => Whole(Overridden(c))
         /\ \A s \in Settings : \/ Overridden(c)[s] = c[s]
                                \/ /\ Overridden(c)[s] # 0
                                   /\ Overridden(c)[s] \in {over.port, over.env, over.blk}
BY DEF Configs, Settings, Overrides, Overridden, InEnvironment, Covered, Whole

\* ... with the environment alone too
LEMMA EnvironmentIs ==
  ASSUME NEW c \in Configs, over \in Overrides
  PROVE  InEnvironment(c) \in Configs
BY DEF Configs, Settings, Overrides, InEnvironment

LEMMA ConstantConfigs ==
  /\ Default \in Configs /\ Missing \in Contents /\ Empty \in Contents /\ Broken \in Contents
  /\ \A c \in Configs : Good(c) \in Contents /\ Good(c).kind = "good" /\ Good(c).cfg = c
  /\ \A v \in Values : [s \in Settings |-> v] \in Configs /\ Whole([s \in Settings |-> v])
BY ConfigurationAssumption
   DEF Default, Missing, Empty, Broken, Good, Contents, Configs, Settings, Whole

\* The file that is loaded is there
LEMMA LoadFromIs ==
  ASSUME files \in [Places -> Contents]
  PROVE  /\ LoadFrom(files) \in Places \cup {"none"}
         /\ LoadFrom(files) # "none" => files[LoadFrom(files)].kind # "none"
         /\ LoadFrom(files) = "none" <=> \A p \in ToLoad : files[p].kind = "none"
         /\ LoadFrom(files) = "none" => files["user"].kind = "none" /\ files["system"].kind = "none"
         /\ files["user"].kind # "none" /\ ~(over.path /\ files["given"].kind # "none")
              => LoadFrom(files) = "user"
BY DEF LoadFrom, ConfigFilePath, Places, ToLoad

LEMMA EffectiveIs ==
  ASSUME files \in [Places -> Contents], over \in Overrides
  PROVE  Effective \in Configs
<1>1. (IF LoadFrom(files) = "none" THEN Default ELSE files[LoadFrom(files)].cfg) \in Configs
  BY LoadFromIs, ConstantConfigs DEF Contents
<1> QED  BY <1>1, OverriddenIs DEF Effective

-----------------------------------------------------------------------------
LEMMA StoreStarts == ConfigurationInit => StoreInv
<1> SUFFICES ASSUME ConfigurationInit PROVE StoreInv
  OBVIOUS
<1> USE DEF ConfigurationInit
<1>1. over \in Overrides /\ files \in [Places -> Contents]
  BY StartsAssumption
<1>2. \A p \in Places : /\ files[p].kind \in {"none", "good"}
                        /\ files[p].kind = "good" => Whole(files[p].cfg)
  BY StartsAssumption DEF Whole
<1>3. \E p \in ToLoad : files[p].kind # "none"
  BY <1>1, LoadFromIs
<1>4. LoadFrom(files) \in Places /\ files[LoadFrom(files)].kind = "good"
  BY <1>1, <1>2, LoadFromIs
<1>5. config = Overridden(files[LoadFrom(files)].cfg) /\ files[LoadFrom(files)].cfg \in Configs
  BY <1>1, <1>4 DEF Effective, Contents, Places
<1>6. config \in Configs /\ Covered(config) /\ Whole(config)
  BY <1>1, <1>2, <1>4, <1>5, OverriddenIs
<1>7. Types
  BY <1>1, <1>3, <1>6, ConstantConfigs
     DEF Types, StoreType, ActorType, ReloadRecs, EditRecs, ReloadPhases, EditPhases, Settings,
         Configs, Places
<1>8. Solo /\ PoolFollows /\ OverridesFollow /\ SavedIsThere
  BY <1>6 DEF Solo, Idle, PoolFollows, OverridesFollow, SavedIsThere
<1>9. Intact
  BY <1>2, <1>3, <1>6 DEF Intact, Rewritten, WholeActors, WholeFiles
<1> QED  BY <1>7, <1>8, <1>9 DEF StoreInv

-----------------------------------------------------------------------------
(***************************************************************************)
(* The steps.  over never changes.                                         *)
(***************************************************************************)
LEMMA ConfigIs ==
  ASSUME NEW c \in Configs, NEW s \in Settings, NEW v \in Nat
  PROVE  /\ c[s] \in Nat
         /\ [c EXCEPT ![s] = v] \in Configs
         /\ [c EXCEPT ![s] = v][s] = v
         /\ Whole(c) /\ v # 0 => Whole([c EXCEPT ![s] = v])
BY DEF Configs, Settings, Whole

\* What Start changes
LEMMA StartIs ==
  ASSUME NEW r \in Reloaders, ActorType, Start(r)
  PROVE  /\ reload' \in [Reloaders -> ReloadRecs]
         /\ reload[r].pc = "idle" /\ reload'[r].pc = "read"
         /\ \A q \in Reloaders : reload'[q].cfg = reload[q].cfg /\ (q # r => reload'[q] = reload[q])
         /\ taint \subseteq taint' /\ taint' \subseteq taint \cup {"race"}
         /\ "race" \notin taint' => Quiet
BY DEF Start, Race, Idle, ActorType, ReloadRecs, ReloadPhases

\* The server and its watcher come and go
Comings == StopServer \/ StartFails \/ Watch \/ LeaveWatch

LEMMA ComingsChange ==
  Comings => UNCHANGED <<over, files, config, pool, reload, edit, writing, by, saved, unseen, taint>>
BY DEF Comings, StopServer, StartFails, Watch, LeaveWatch, WatcherGone, envVars, histVars

\* An event is one more
LEMMA NotifyIs ==
  ASSUME NEW p, events \in Nat, Notify(p)
  PROVE  events' \in Nat
<1>1. events' = IF p = watched THEN events + 1 ELSE events
  BY Zenon DEF Notify
<1> QED  BY <1>1

LEMMA TypesStep == Types /\ [ConfigurationNext]_configurationVars => Types'
<1> SUFFICES ASSUME Types, [ConfigurationNext]_configurationVars PROVE Types'
  OBVIOUS
<1> USE ConstantConfigs DEF Types, StoreType, ActorType, watcherVars, envVars, histVars
<1>1. ASSUME NEW r \in Reloaders, Read(r) PROVE Types'
  <2>1. Overridden(Default) \in Configs /\ Good(InEnvironment(Default)) \in Contents
    BY OverriddenIs, EnvironmentIs
  <2>2. /\ files' \in [Places -> Contents] /\ events' \in Nat
    BY <1>1, <2>1, NotifyIs DEF Read, Put, Places
  <2>3. LoadFrom(files) # "none" => files[LoadFrom(files)].cfg \in Configs
    BY LoadFromIs DEF Contents
  <2>4. LoadFrom(files) # "none" => Overridden(files[LoadFrom(files)].cfg) \in Configs
    BY <2>3, OverriddenIs
  <2>5. \E rec \in ReloadRecs : /\ reload' = [reload EXCEPT ![r] = rec]
                              /\ (rec.pc \in {"clone", "reset"} => r = "restart")
    BY <1>1, <2>1, <2>4 DEF Read, ReloadRecs, ReloadPhases
  <2> QED  BY <1>1, <2>2, <2>5 DEF Read, Reloaders
<1>2. ASSUME NEW r \in Reloaders, Resize(r) PROVE Types'
  <2>1. reload[r].cfg \in Configs
    BY <1>2 DEF ReloadRecs
  <2>2. pool' \in Nat
    BY <1>2, <2>1 DEF Resize, Configs, Settings
  <2> QED  BY <1>2, <2>2 DEF Resize, ReloadRecs, ReloadPhases
<1>3. ASSUME NEW r \in Reloaders, Store(r) PROVE Types'
  BY <1>3 DEF Store, ReloadRecs, ReloadPhases
<1>4. ASSUME Clone PROVE Types'
  BY <1>4 DEF Clone, ReloadRecs, ReloadPhases, Reloaders
<1>5. ASSUME ResetStore PROVE Types'
  BY <1>5 DEF ResetStore, ReloadRecs, ReloadPhases, Reloaders
<1>6. ASSUME NEW r \in Reloaders, Start(r), events' \in Nat, recent' \in BOOLEAN,
             watched' \in {"user", "system", "none"},
             UNCHANGED <<over, files, config, pool, edit, serving, writing, by, saved>>
      PROVE  Types'
  BY <1>6, StartIs
<1>7. CASE Hangup
  BY <1>6, <1>7 DEF Hangup, Reloaders
<1>8. CASE RestartServer
  BY <1>6, <1>8 DEF RestartServer, Reloaders
<1>9. CASE SeeEvent
  <2>1. /\ events' \in Nat /\ recent' \in BOOLEAN /\ watched' \in {"user", "system", "none"}
    <3>1. CASE serving = "up"
      <4>1. events > 0 /\ events' = events - 1 /\ recent' = TRUE /\ watched' = watched
        BY Zenon, <1>9, <3>1 DEF SeeEvent
      <4>2. events \in Nat /\ watched \in {"user", "system", "none"}
        OBVIOUS
      <4> HIDE DEF Types, StoreType
      <4> QED  BY <4>1, <4>2
    <3>2. CASE serving # "up"
      <4>1. WatcherGone
        BY Zenon, <1>9, <3>2 DEF SeeEvent
      <4> QED  BY <4>1 DEF WatcherGone
    <3> QED  BY <3>1, <3>2
  <2>2. CASE recent
    BY <1>9, <2>1, <2>2 DEF SeeEvent
  <2>3. CASE ~recent
    BY <1>6, <1>9, <2>1, <2>3 DEF SeeEvent, Reloaders
  <2> QED  BY <2>2, <2>3
<1>10. CASE TwoSecondsPass
  BY <1>10 DEF TwoSecondsPass
<1>11. CASE EditTruncate
  BY <1>11 DEF EditTruncate, Put, Notify, EditRecs, EditPhases, Settings, Places
<1>12. CASE EditWrite
  <2>1. Good(edit.cfg) \in Contents
    BY DEF EditRecs
  <2> QED  BY <1>12, <2>1 DEF EditWrite, Put, Notify, EditRecs, EditPhases, Settings, Places
<1>13. CASE EditFails
  BY <1>13 DEF EditFails, EditRecs, EditPhases
<1>14. CASE EditStore
  BY <1>14 DEF EditStore, EditRecs, EditPhases
<1>15. ASSUME NEW s \in Settings, NEW v \in Values, EditBegin(s, v) PROVE Types'
  <2>1. v \in Nat /\ [config EXCEPT ![s] = v] \in Configs
    BY ConfigIs, ConfigurationAssumption
  <2> QED  BY <1>15, <2>1 DEF EditBegin, EditRecs, EditPhases
<1>16. CASE OperatorDone
  BY <1>16 DEF OperatorDone, Put, Notify, Settings, Places
<1>17. ASSUME NEW p \in Places, NEW style \in Styles, NEW v \in Values,
              OperatorSaves(p, style, [s \in Settings |-> v])
       PROVE  Types'
  <2> DEFINE c == [s \in Settings |-> v]
  <2>1. Good(c) \in Contents
    OBVIOUS
  <2> HIDE DEF c
  <2>2. files' \in [Places -> Contents] /\ events' \in Nat
        /\ writing' \in [to : Places \cup {"none"}, content : Contents]
    BY <1>17, <2>1, NotifyIs DEF OperatorSaves, Put, c
  <2> QED  BY <1>17, <2>2 DEF OperatorSaves, Settings
<1>18. CASE UNCHANGED configurationVars
  BY <1>18 DEF configurationVars
<1>19. CASE Comings
  <2>1. /\ serving' \in {"starting", "up", "down"} /\ watched' \in {"user", "system", "none"}
        /\ events' \in Nat /\ recent' \in BOOLEAN
    <3>1. CASE StopServer \/ StartFails
      BY <3>1 DEF StopServer, StartFails
    <3>2. CASE Watch
      BY <3>2 DEF Watch, ConfigFilePath
    <3>3. CASE LeaveWatch
      BY <3>3 DEF LeaveWatch, WatcherGone
    <3> QED  BY <1>19, <3>1, <3>2, <3>3 DEF Comings
  <2> QED  BY <1>19, <2>1, ComingsChange
<1> QED  BY <1>1, <1>2, <1>3, <1>4, <1>5, <1>7, <1>8, <1>9, <1>10, <1>11, <1>12, <1>13, <1>14,
            <1>15, <1>16, <1>17, <1>18, <1>19 DEF ConfigurationNext, ReloadStep, EditStep, Comings

\* Start and EditBegin note a race when they are not alone
LEMMA SoloStep ==
  Types /\ Solo /\ [ConfigurationNext]_configurationVars
    => Solo'
<1> SUFFICES ASSUME Types, Solo, [ConfigurationNext]_configurationVars
             PROVE  Solo'
  OBVIOUS
<1> USE DEF Types, StoreType, ActorType, Solo, Idle, watcherVars, envVars, histVars
<1>1. ASSUME NEW r \in Reloaders, Read(r) PROVE Solo'
  BY <1>1 DEF Read
<1>2. ASSUME NEW r \in Reloaders, Resize(r) PROVE Solo'
  BY <1>2 DEF Resize
<1>3. ASSUME NEW r \in Reloaders, Store(r) PROVE Solo'
  BY <1>3 DEF Store
<1>4. CASE Clone
  BY <1>4 DEF Clone, Reloaders
<1>5. CASE ResetStore
  BY <1>5 DEF ResetStore, Reloaders
<1>6. CASE Hangup
  BY <1>6, StartIs DEF Hangup, Quiet, Reloaders
<1>7. CASE RestartServer
  BY <1>7, StartIs DEF RestartServer, Quiet, Reloaders
<1>8. CASE SeeEvent
  BY <1>8, StartIs DEF SeeEvent, Quiet, Reloaders
<1>9. CASE TwoSecondsPass
  BY <1>9 DEF TwoSecondsPass
<1>10. CASE EditTruncate
  BY <1>10 DEF EditTruncate
<1>11. CASE EditWrite
  BY <1>11 DEF EditWrite
<1>12. CASE EditFails
  BY <1>12 DEF EditFails
<1>13. CASE EditStore
  BY <1>13 DEF EditStore
<1>14. ASSUME NEW s \in Settings, NEW v \in Values, EditBegin(s, v) PROVE Solo'
  BY <1>14 DEF EditBegin, Race, Quiet
<1>15. CASE OperatorDone
  BY <1>15 DEF OperatorDone
<1>16. ASSUME NEW p \in Places, NEW style \in Styles, NEW v \in Values,
             OperatorSaves(p, style, [s \in Settings |-> v])
      PROVE  Solo'
  BY <1>16 DEF OperatorSaves
<1>17. CASE UNCHANGED configurationVars
  BY <1>17 DEF configurationVars
<1>18. CASE Comings
  BY <1>18, ComingsChange
<1> HIDE DEF Types, StoreType, ActorType, Solo, Idle, watcherVars, envVars, histVars
<1> QED  BY <1>1, <1>2, <1>3, <1>4, <1>5, <1>6, <1>7, <1>8, <1>9, <1>10, <1>11,
            <1>12, <1>13, <1>14, <1>15, <1>16, <1>17, <1>18
         DEF ConfigurationNext, ReloadStep, EditStep, Comings

\* Alone, a reload stores what it has resized the pool for
LEMMA PoolFollowsStep ==
  Types /\ Solo /\ PoolFollows /\ [ConfigurationNext]_configurationVars
    => PoolFollows'
<1> SUFFICES ASSUME Types, Solo, PoolFollows, [ConfigurationNext]_configurationVars
             PROVE  PoolFollows'
  OBVIOUS
<1> USE DEF Types, StoreType, ActorType, Solo, PoolFollows, Sound, Idle,
            watcherVars, envVars, histVars
<1>1. ASSUME NEW r \in Reloaders, Read(r) PROVE PoolFollows'
  BY SMTT(30), <1>1 DEF Read
<1>2. ASSUME NEW r \in Reloaders, Resize(r) PROVE PoolFollows'
  BY <1>2 DEF Resize
<1>3. ASSUME NEW r \in Reloaders, Store(r) PROVE PoolFollows'
  BY <1>3 DEF Store
<1>4. CASE Clone
  BY <1>4 DEF Clone, Reloaders
<1>5. CASE ResetStore
  BY <1>5 DEF ResetStore, Reloaders
<1>6. CASE Hangup
  BY <1>6, StartIs DEF Hangup, Reloaders
<1>7. CASE RestartServer
  BY <1>7, StartIs DEF RestartServer, Reloaders
<1>8. CASE SeeEvent
  BY <1>8, StartIs DEF SeeEvent, Reloaders
<1>9. CASE TwoSecondsPass
  BY <1>9 DEF TwoSecondsPass
<1>10. CASE EditTruncate
  BY <1>10 DEF EditTruncate
<1>11. CASE EditWrite
  BY <1>11 DEF EditWrite
<1>12. CASE EditFails
  BY <1>12 DEF EditFails
<1>13. CASE EditStore
  BY <1>13 DEF EditStore
<1>14. ASSUME NEW s \in Settings, NEW v \in Values, EditBegin(s, v) PROVE PoolFollows'
  BY <1>14 DEF EditBegin
<1>15. CASE OperatorDone
  BY <1>15 DEF OperatorDone
<1>16. ASSUME NEW p \in Places, NEW style \in Styles, NEW v \in Values,
             OperatorSaves(p, style, [s \in Settings |-> v])
      PROVE  PoolFollows'
  BY <1>16 DEF OperatorSaves
<1>17. CASE UNCHANGED configurationVars
  BY <1>17 DEF configurationVars
<1>18. CASE Comings
  BY <1>18, ComingsChange
<1> HIDE DEF Types, StoreType, ActorType, Solo, PoolFollows, Sound, Idle,
            watcherVars, envVars, histVars
<1> QED  BY <1>1, <1>2, <1>3, <1>4, <1>5, <1>6, <1>7, <1>8, <1>9, <1>10, <1>11,
            <1>12, <1>13, <1>14, <1>15, <1>16, <1>17, <1>18
         DEF ConfigurationNext, ReloadStep, EditStep, Comings

\* What a load returns has the overrides in it
LEMMA OverridesFollowStep ==
  Types /\ Solo /\ OverridesFollow /\ [ConfigurationNext]_configurationVars
    => OverridesFollow'
<1> SUFFICES ASSUME Types, Solo, OverridesFollow, [ConfigurationNext]_configurationVars
             PROVE  OverridesFollow'
  OBVIOUS
<1> USE DEF Types, StoreType, ActorType, Solo, OverridesFollow, Covered, Sound, Idle,
            watcherVars, envVars, histVars
<1>1. ASSUME NEW r \in Reloaders, Read(r) PROVE OverridesFollow'
  <2>1. Overridden(Default) \in Configs /\ Covered(Overridden(Default))
    BY OverriddenIs, ConstantConfigs
  <2>2. LoadFrom(files) # "none" => files[LoadFrom(files)].cfg \in Configs
    BY LoadFromIs DEF Contents
  <2>3. LoadFrom(files) # "none" => Covered(Overridden(files[LoadFrom(files)].cfg))
    BY <2>2, OverriddenIs
  <2>4. \E rec \in ReloadRecs :
          /\ reload' = [reload EXCEPT ![r] = rec]
          /\ rec.pc \in {"resize", "store"} => Covered(rec.cfg)
          /\ rec.pc # "clone" /\ (rec.pc = "reset" => "fallback" \in taint')
    <3> HIDE DEF Covered
    <3>1. Overridden(Default) \in Configs /\ Default \in Configs
      BY OverriddenIs, ConstantConfigs
    <3>2. LoadFrom(files) # "none" => Overridden(files[LoadFrom(files)].cfg) \in Configs
      BY <2>2, OverriddenIs
    <3>3. CASE LoadFrom(files) = "none"
      BY <1>1, <2>1, <3>1, <3>3 DEF Read, ReloadRecs, ReloadPhases
    <3>4. CASE LoadFrom(files) # "none" /\ files[LoadFrom(files)].kind = "good"
      BY <1>1, <2>3, <3>2, <3>4 DEF Read, ReloadRecs, ReloadPhases
    <3>5. CASE LoadFrom(files) # "none" /\ files[LoadFrom(files)].kind # "good"
      BY <1>1, <3>1, <3>5 DEF Read, ReloadRecs, ReloadPhases
    <3> QED  BY <3>3, <3>4, <3>5
  <2>5. UNCHANGED <<over, config, by>> /\ taint \subseteq taint'
    BY <1>1 DEF Read
  <2> QED  BY <2>4, <2>5
<1>2. ASSUME NEW r \in Reloaders, Resize(r) PROVE OverridesFollow'
  BY <1>2 DEF Resize
<1>3. ASSUME NEW r \in Reloaders, Store(r) PROVE OverridesFollow'
  BY <1>3 DEF Store
<1>4. CASE Clone
  BY <1>4 DEF Clone, Reloaders
<1>5. CASE ResetStore
  BY <1>5 DEF ResetStore, Reloaders
<1>6. CASE Hangup
  BY <1>6, StartIs DEF Hangup, Reloaders
<1>7. CASE RestartServer
  BY <1>7, StartIs DEF RestartServer, Reloaders
<1>8. CASE SeeEvent
  BY <1>8, StartIs DEF SeeEvent, Reloaders
<1>9. CASE TwoSecondsPass
  BY <1>9 DEF TwoSecondsPass
<1>10. CASE EditTruncate
  BY <1>10 DEF EditTruncate
<1>11. CASE EditWrite
  BY <1>11 DEF EditWrite
<1>12. CASE EditFails
  BY <1>12 DEF EditFails
<1>13. CASE EditStore
  BY <1>13 DEF EditStore
<1>14. ASSUME NEW s \in Settings, NEW v \in Values, EditBegin(s, v) PROVE OverridesFollow'
  BY <1>14 DEF EditBegin
<1>15. CASE OperatorDone
  BY <1>15 DEF OperatorDone
<1>16. ASSUME NEW p \in Places, NEW style \in Styles, NEW v \in Values,
             OperatorSaves(p, style, [s \in Settings |-> v])
      PROVE  OverridesFollow'
  BY <1>16 DEF OperatorSaves
<1>17. CASE UNCHANGED configurationVars
  BY <1>17 DEF configurationVars
<1>18. CASE Comings
  BY <1>18, ComingsChange
<1> HIDE DEF Types, StoreType, ActorType, Solo, OverridesFollow, Covered, Sound, Idle,
            watcherVars, envVars, histVars
<1> QED  BY <1>1, <1>2, <1>3, <1>4, <1>5, <1>6, <1>7, <1>8, <1>9, <1>10, <1>11,
            <1>12, <1>13, <1>14, <1>15, <1>16, <1>17, <1>18
         DEF ConfigurationNext, ReloadStep, EditStep, Comings

\* Only a rewrite of a file takes an edit away
LEMMA SavedIsThereStep ==
  Types /\ SavedIsThere /\ [ConfigurationNext]_configurationVars
    => SavedIsThere'
<1> SUFFICES ASSUME Types, SavedIsThere, [ConfigurationNext]_configurationVars
             PROVE  SavedIsThere'
  OBVIOUS
<1> USE DEF Types, StoreType, ActorType, SavedIsThere, Put, watcherVars, envVars, histVars
<1>1. ASSUME NEW r \in Reloaders, Read(r) PROVE SavedIsThere'
  BY <1>1, LoadFromIs DEF Read, Places
<1>2. ASSUME NEW r \in Reloaders, Resize(r) PROVE SavedIsThere'
  BY <1>2 DEF Resize
<1>3. ASSUME NEW r \in Reloaders, Store(r) PROVE SavedIsThere'
  BY <1>3 DEF Store
<1>4. CASE Clone
  BY <1>4 DEF Clone, Reloaders
<1>5. CASE ResetStore
  BY <1>5 DEF ResetStore, Reloaders
<1>6. CASE Hangup
  BY <1>6 DEF Hangup
<1>7. CASE RestartServer
  BY <1>7 DEF RestartServer
<1>8. CASE SeeEvent
  BY <1>8 DEF SeeEvent
<1>9. CASE TwoSecondsPass
  BY <1>9 DEF TwoSecondsPass
<1>10. CASE EditTruncate
  BY <1>10 DEF EditTruncate
<1>11. CASE EditWrite
  BY <1>11 DEF EditWrite, Places, EditRecs, Good
<1>12. CASE EditFails
  BY <1>12 DEF EditFails
<1>13. CASE EditStore
  BY <1>13 DEF EditStore
<1>14. ASSUME NEW s \in Settings, NEW v \in Values, EditBegin(s, v) PROVE SavedIsThere'
  BY <1>14, ConfigIs, ConfigurationAssumption DEF EditBegin
<1>15. CASE OperatorDone
  BY <1>15 DEF OperatorDone
<1>16. ASSUME NEW p \in Places, NEW style \in Styles, NEW v \in Values,
             OperatorSaves(p, style, [s \in Settings |-> v])
      PROVE  SavedIsThere'
  BY <1>16 DEF OperatorSaves
<1>17. CASE UNCHANGED configurationVars
  BY <1>17 DEF configurationVars
<1>18. CASE Comings
  BY <1>18, ComingsChange
<1> HIDE DEF Types, StoreType, ActorType, SavedIsThere, Put, watcherVars, envVars, histVars
<1> QED  BY <1>1, <1>2, <1>3, <1>4, <1>5, <1>6, <1>7, <1>8, <1>9, <1>10, <1>11,
            <1>12, <1>13, <1>14, <1>15, <1>16, <1>17, <1>18
         DEF ConfigurationNext, ReloadStep, EditStep, Comings

\* A file that is missing is being written anew
LEMMA RewrittenStep ==
  Types /\ Rewritten /\ [ConfigurationNext]_configurationVars
    => Rewritten'
<1> SUFFICES ASSUME Types, Rewritten, [ConfigurationNext]_configurationVars
             PROVE  Rewritten'
  OBVIOUS
<1> USE DEF Types, StoreType, ActorType, Rewritten, ToLoad, Put, watcherVars, envVars, histVars
<1>1. ASSUME NEW r \in Reloaders, Read(r) PROVE Rewritten'
  BY <1>1, LoadFromIs, ConstantConfigs, EnvironmentIs DEF Read, Places
<1>2. ASSUME NEW r \in Reloaders, Resize(r) PROVE Rewritten'
  BY <1>2 DEF Resize
<1>3. ASSUME NEW r \in Reloaders, Store(r) PROVE Rewritten'
  BY <1>3 DEF Store
<1>4. CASE Clone
  BY <1>4 DEF Clone, Reloaders
<1>5. CASE ResetStore
  BY <1>5 DEF ResetStore, Reloaders
<1>6. CASE Hangup
  BY <1>6 DEF Hangup
<1>7. CASE RestartServer
  BY <1>7 DEF RestartServer
<1>8. CASE SeeEvent
  BY <1>8 DEF SeeEvent
<1>9. CASE TwoSecondsPass
  BY <1>9 DEF TwoSecondsPass
<1>10. CASE EditTruncate
  BY <1>10 DEF EditTruncate, Empty
<1>11. CASE EditWrite
  BY <1>11 DEF EditWrite, Good
<1>12. CASE EditFails
  BY <1>12 DEF EditFails
<1>13. CASE EditStore
  BY <1>13 DEF EditStore
<1>14. ASSUME NEW s \in Settings, NEW v \in Values, EditBegin(s, v) PROVE Rewritten'
  BY <1>14 DEF EditBegin
<1>15. CASE OperatorDone
  BY <1>15 DEF OperatorDone
<1>16. ASSUME NEW p \in Places, NEW style \in Styles, NEW v \in Values,
             OperatorSaves(p, style, [s \in Settings |-> v])
      PROVE  Rewritten'
  <2> DEFINE c == [s \in Settings |-> v]
  <2>1. Whole(c) /\ Good(c).cfg = c /\ Good(c).kind = "good"
    BY ConstantConfigs DEF Good
  <2> HIDE DEF c
  <2>2. /\ writing.to = "none"
        /\ \/ writing' = [to |-> p, content |-> Good(c)]
           \/ writing' = writing /\ \E f \in {Good(c), Broken} : files' = [files EXCEPT ![p] = f]
        /\ \E f \in Contents : files' = [files EXCEPT ![p] = f]
    BY <1>16, ConstantConfigs DEF OperatorSaves, c
  <2>3. CASE writing' = [to |-> p, content |-> Good(c)]
    <3>1. \A q \in Places : q # p => files'[q] = files[q]
      BY <2>2
    <3>2. PICK q \in ToLoad : files[q].kind # "none"
      BY <2>2 DEF Places
    <3>3. q \in Places /\ ToLoad' = ToLoad
      BY <1>16 DEF Places, OperatorSaves
    <3>4. files'[q].kind # "none" \/ writing'.to = q
      BY <2>3, <3>1, <3>2, <3>3
    <3>5. \E u \in ToLoad' : files'[u].kind # "none" \/ writing'.to = u
      BY <3>3, <3>4
    <3>6. writing'.content.kind = "good" /\ Whole(writing'.content.cfg)
      BY <2>1, <2>3
    <3> QED  BY <3>5, <3>6
  <2>4. CASE writing' = writing /\ \E f \in {Good(c), Broken} : files' = [files EXCEPT ![p] = f]
    <3>1. \A q \in Places : files[q].kind # "none" => files'[q].kind # "none"
      BY <2>1, <2>2, <2>4 DEF Broken
    <3>2. PICK q \in ToLoad : files[q].kind # "none"
      BY <2>2 DEF Places
    <3>3. q \in Places /\ ToLoad' = ToLoad
      BY <1>16 DEF Places, OperatorSaves
    <3>4. \E u \in ToLoad' : files'[u].kind # "none" \/ writing'.to = u
      BY <3>1, <3>2, <3>3
    <3> QED  BY <2>2, <2>4, <3>4
  <2> QED  BY <2>2, <2>3, <2>4
<1>17. CASE UNCHANGED configurationVars
  BY <1>17 DEF configurationVars
<1>18. CASE Comings
  BY <1>18, ComingsChange
<1> HIDE DEF Types, StoreType, ActorType, Rewritten, ToLoad, Put, watcherVars, envVars, histVars
<1> QED  BY <1>1, <1>2, <1>3, <1>4, <1>5, <1>6, <1>7, <1>8, <1>9, <1>10, <1>11,
            <1>12, <1>13, <1>14, <1>15, <1>16, <1>17, <1>18
         DEF ConfigurationNext, ReloadStep, EditStep, Comings

\* A load that misses something has met a rewrite
LEMMA WholeActorsStep ==
  Types /\ Rewritten /\ WholeActors /\ WholeFiles /\ [ConfigurationNext]_configurationVars
    => WholeActors'
<1> SUFFICES ASSUME Types, Rewritten, WholeActors, WholeFiles, [ConfigurationNext]_configurationVars
             PROVE  WholeActors'
  OBVIOUS
<1> USE DEF Types, StoreType, ActorType, WholeActors, Clean, watcherVars, envVars, histVars
<1>1. ASSUME NEW r \in Reloaders, Read(r) PROVE WholeActors'
  <2>1. /\ LoadFrom(files) \in Places \cup {"none"}
        /\ LoadFrom(files) # "none" => files[LoadFrom(files)].cfg \in Configs
    BY LoadFromIs DEF Contents
  <2>2. CASE LoadFrom(files) = "none"
    <3>1. "torn" \in taint'
      BY <1>1, <2>2, LoadFromIs DEF Read, Rewritten, ToLoad
    <3> QED  BY <3>1
  <2>3. CASE LoadFrom(files) # "none" /\ files[LoadFrom(files)].kind = "good"
    <3>1. "torn" \in taint' \/ (Clean => Whole(files[LoadFrom(files)].cfg))
      BY <1>1, <2>1, <2>3 DEF Read, WholeFiles
    <3>2. "torn" \in taint' \/ (Clean => Whole(Overridden(files[LoadFrom(files)].cfg)))
      BY <3>1, <2>1, <2>3, OverriddenIs
    <3> QED  BY <1>1, <2>3, <3>2 DEF Read
  <2>4. CASE LoadFrom(files) # "none" /\ files[LoadFrom(files)].kind # "good"
    BY SMTT(30), <1>1, <2>4 DEF Read
  <2> QED  BY <2>2, <2>3, <2>4
<1>2. ASSUME NEW r \in Reloaders, Resize(r) PROVE WholeActors'
  BY <1>2 DEF Resize
<1>3. ASSUME NEW r \in Reloaders, Store(r) PROVE WholeActors'
  BY <1>3 DEF Store
<1>4. CASE Clone
  BY <1>4 DEF Clone, Reloaders
<1>5. CASE ResetStore
  BY <1>5 DEF ResetStore, Reloaders
<1>6. CASE Hangup
  BY <1>6, StartIs DEF Hangup, Reloaders
<1>7. CASE RestartServer
  BY <1>7, StartIs DEF RestartServer, Reloaders
<1>8. CASE SeeEvent
  BY <1>8, StartIs DEF SeeEvent, Reloaders
<1>9. CASE TwoSecondsPass
  BY <1>9 DEF TwoSecondsPass
<1>10. CASE EditTruncate
  BY <1>10 DEF EditTruncate
<1>11. CASE EditWrite
  BY <1>11 DEF EditWrite
<1>12. CASE EditFails
  BY <1>12 DEF EditFails
<1>13. CASE EditStore
  BY <1>13 DEF EditStore
<1>14. ASSUME NEW s \in Settings, NEW v \in Values, EditBegin(s, v) PROVE WholeActors'
  <2>1. v \in Nat /\ v # 0
    BY ConfigurationAssumption
  <2> QED  BY <1>14, <2>1, ConfigIs DEF EditBegin
<1>15. CASE OperatorDone
  BY <1>15 DEF OperatorDone
<1>16. ASSUME NEW p \in Places, NEW style \in Styles, NEW v \in Values,
             OperatorSaves(p, style, [s \in Settings |-> v])
      PROVE  WholeActors'
  BY <1>16 DEF OperatorSaves
<1>17. CASE UNCHANGED configurationVars
  BY <1>17 DEF configurationVars
<1>18. CASE Comings
  BY <1>18, ComingsChange
<1> HIDE DEF Types, StoreType, ActorType, WholeActors, Clean, watcherVars, envVars, histVars
<1> QED  BY <1>1, <1>2, <1>3, <1>4, <1>5, <1>6, <1>7, <1>8, <1>9, <1>10, <1>11,
            <1>12, <1>13, <1>14, <1>15, <1>16, <1>17, <1>18
         DEF ConfigurationNext, ReloadStep, EditStep, Comings

\* What is written in the end is whole
LEMMA WholeFilesStep ==
  Types /\ Rewritten /\ WholeActors /\ WholeFiles /\ [ConfigurationNext]_configurationVars
    => WholeFiles'
<1> SUFFICES ASSUME Types, Rewritten, WholeActors, WholeFiles, [ConfigurationNext]_configurationVars
             PROVE  WholeFiles'
  OBVIOUS
<1> USE DEF Types, StoreType, ActorType, WholeFiles, Clean, Put, watcherVars, envVars, histVars
<1>1. ASSUME NEW r \in Reloaders, Read(r) PROVE WholeFiles'
  <2>1. CASE LoadFrom(files) = "none"
    <3>1. "torn" \in taint'
      BY <1>1, <2>1, LoadFromIs DEF Read, Rewritten, ToLoad
    <3> QED  BY <3>1
  <2>2. CASE LoadFrom(files) # "none"
    BY <1>1, <2>2 DEF Read
  <2> QED  BY <2>1, <2>2
<1>2. ASSUME NEW r \in Reloaders, Resize(r) PROVE WholeFiles'
  BY <1>2 DEF Resize
<1>3. ASSUME NEW r \in Reloaders, Store(r) PROVE WholeFiles'
  BY <1>3 DEF Store
<1>4. CASE Clone
  BY <1>4 DEF Clone, Reloaders
<1>5. CASE ResetStore
  BY <1>5 DEF ResetStore, Reloaders
<1>6. CASE Hangup
  BY <1>6, StartIs DEF Hangup, Reloaders
<1>7. CASE RestartServer
  BY <1>7, StartIs DEF RestartServer, Reloaders
<1>8. CASE SeeEvent
  BY <1>8, StartIs DEF SeeEvent, Reloaders
<1>9. CASE TwoSecondsPass
  BY <1>9 DEF TwoSecondsPass
<1>10. CASE EditTruncate
  BY <1>10 DEF EditTruncate, EditRecs
<1>11. CASE EditWrite
  BY <1>11 DEF EditWrite, EditRecs, WholeActors, Good
<1>12. CASE EditFails
  BY <1>12 DEF EditFails
<1>13. CASE EditStore
  BY <1>13 DEF EditStore
<1>14. ASSUME NEW s \in Settings, NEW v \in Values, EditBegin(s, v) PROVE WholeFiles'
  BY <1>14 DEF EditBegin
<1>15. CASE OperatorDone
  BY <1>15 DEF OperatorDone, Rewritten
<1>16. ASSUME NEW p \in Places, NEW style \in Styles, NEW v \in Values,
             OperatorSaves(p, style, [s \in Settings |-> v])
      PROVE  WholeFiles'
  <2> DEFINE c == [s \in Settings |-> v]
  <2>1. Whole(c) /\ Good(c).cfg = c
    BY ConstantConfigs DEF Good
  <2> HIDE DEF c
  <2>2. taint' = taint /\ edit' = edit /\ writing.to = "none"
    BY <1>16 DEF OperatorSaves
  <2>3. \/ /\ writing' = [to |-> p, content |-> Good(c)]
           /\ \E f \in Contents : files' = [files EXCEPT ![p] = f]
        \/ writing' = writing /\ \E f \in {Good(c), Broken} : files' = [files EXCEPT ![p] = f]
    BY <1>16, ConstantConfigs DEF OperatorSaves, c
  <2>4. CASE /\ writing' = [to |-> p, content |-> Good(c)]
             /\ \E f \in Contents : files' = [files EXCEPT ![p] = f]
    BY <2>2, <2>4 DEF Places
  <2>5. CASE writing' = writing /\ \E f \in {Good(c), Broken} : files' = [files EXCEPT ![p] = f]
    BY <2>1, <2>2, <2>5 DEF Broken, Places
  <2> QED  BY <2>3, <2>4, <2>5
<1>17. CASE UNCHANGED configurationVars
  BY <1>17 DEF configurationVars
<1>18. CASE Comings
  BY <1>18, ComingsChange
<1> HIDE DEF Types, StoreType, ActorType, WholeFiles, Clean, Put, watcherVars, envVars, histVars
<1> QED  BY <1>1, <1>2, <1>3, <1>4, <1>5, <1>6, <1>7, <1>8, <1>9, <1>10, <1>11,
            <1>12, <1>13, <1>14, <1>15, <1>16, <1>17, <1>18
         DEF ConfigurationNext, ReloadStep, EditStep, Comings

-----------------------------------------------------------------------------
(* Every reachable state satisfies the invariant. *)
THEOREM StoreInvariance == ConfigurationSpec => []StoreInv
<1>1. StoreInv /\ [ConfigurationNext]_configurationVars => StoreInv'
  BY TypesStep, SoloStep, PoolFollowsStep, OverridesFollowStep, SavedIsThereStep,
     RewrittenStep, WholeActorsStep, WholeFilesStep DEF StoreInv, Intact
<1> QED  BY StoreStarts, <1>1, PTL DEF ConfigurationSpec

\* Whatever replaces the configuration, in any number and order (reloads of
\* three kinds, restarts, edits, rewritten files): while nothing overlapped,
\* the server runs with a configuration its overrides are in and the buffer
\* pool fits, and no setting falls back to its default behind the operator's
\* back (Config::load, reload_config, reset_for_restart, Config::save).
THEOREM StoreIsTrue == ConfigurationSpec => []StoreIsSound
<1> SUFFICES ASSUME StoreInv PROVE StoreIsSound
  BY StoreInvariance, PTL
<1> USE DEF StoreInv, Types
<1>1. ConfigurationTypeOK
  BY DEF ConfigurationTypeOK, StoreType, ActorType, ReloadRecs, ReloadPhases, EditRecs,
         EditPhases, Places
<1>2. PoolFits
  BY DEF PoolFits, PoolFollows, Sound, Quiet, Idle
<1>3. OverridesHold
  BY DEF OverridesHold, OverridesFollow, Sound, Covered
<1>4. NotReset
  BY DEF NotReset, Intact, WholeActors, Clean, Whole
<1> QED  BY <1>1, <1>2, <1>3, <1>4 DEF StoreIsSound

\* An edit of any setting that is saved is what the next load finds, unless a
\* file was given with --config or the setting is overridden (Config::save
\* writes where config_file_path looks first).
THEOREM EditsAreFound == ConfigurationSpec => []EditIsReloaded
<1> SUFFICES ASSUME StoreInv, saved.setting # "none",
                    ~(over.path /\ files["given"].kind # "none")
             PROVE  \/ Effective[saved.setting] = saved.value
                    \/ /\ Effective[saved.setting] # 0
                       /\ Effective[saved.setting] \in {over.port, over.env, over.blk}
  <2>1. StoreInv => EditIsReloaded
    BY DEF EditIsReloaded
  <2> QED  BY <2>1, StoreInvariance, PTL
<1> USE DEF StoreInv, Types, StoreType
<1>1. /\ files["user"].kind = "good" /\ files["user"].cfg \in Configs
      /\ files["user"].cfg[saved.setting] = saved.value /\ saved.setting \in Settings
  BY DEF SavedIsThere, Contents, Places
<1>2. Effective = Overridden(files["user"].cfg)
  BY <1>1, LoadFromIs DEF Effective
<1> QED  BY <1>1, <1>2, OverriddenIs

-----------------------------------------------------------------------------
(***************************************************************************)
(* Whatever keys are pressed and whatever is reloaded meanwhile: a key has *)
(* one meaning, and an edit hits what was opened.                          *)
(***************************************************************************)

RuleTexts == Rules \cup {Nothing}
RowNames  == {"port", "root"}
GoodTexts == Texts \ {"bad"}
ConsoleConfigs   == [rules : Seq(RuleTexts), port : GoodTexts, root : GoodTexts]

ConfigType ==
  /\ tuiConfig \in ConsoleConfigs
  /\ rows \in [RowNames -> Texts] /\ fresh \subseteq RowNames

ModeType ==
  /\ filterActive \in BOOLEAN /\ showHelp \in BOOLEAN
  /\ editing \in [kind : {"none", "adding", "editing"}, at : Nat, rule : RuleTexts]
  /\ setting \in [row : 0 .. 2, text : Texts \cup {Nothing}]
  /\ setting.row # 0 => setting.text \in Texts

CursorType ==
  /\ tab \in Tabs /\ elsewhere \in Nat
  /\ aclScroll \in 1 .. MaxCursor /\ configScroll \in 1 .. 2

\* What was opened is still at its place
OpenedIsThere ==
  opened # Nothing => /\ editing.kind = "editing"
                      /\ editing.at \in DOMAIN tuiConfig.rules
                      /\ tuiConfig.rules[editing.at] = opened

\* The clone against the rows and against what was opened
CloneFits ==
  /\ clone \in ConsoleConfigs
  /\ ~filterActive /\ ~showHelp
  /\ "port" \in fresh => rows["port"] = clone.port
  /\ "root" \in fresh => rows["root"] = clone.root
  /\ setting.row = 1 /\ setting.text # "bad"
       => rows["port"] = setting.text /\ clone.port = setting.text
  /\ opened # Nothing
       => clone.rules = [tuiConfig.rules EXCEPT ![editing.at] = editing.rule]

\* ... and, unless a reload came, against the running configuration
NothingElse ==
  /\ clone.root = tuiConfig.root
  /\ setting.row = 0 => clone.port = tuiConfig.port
  /\ setting.row # 0 => clone.rules = tuiConfig.rules
  /\ setting.row = 2 => clone = tuiConfig
  /\ editing.kind # "none" => Len(clone.rules) >= Len(tuiConfig.rules)

SavingInv ==
  /\ saving => CloneFits
  /\ saving /\ ~overtaken => NothingElse
  /\ ~saving => ~overtaken

KeysInv ==
  ConfigType /\ ModeType /\ CursorType /\ OneMode /\ OpenedIsThere /\ RowsAreTrue /\ SavingInv

-----------------------------------------------------------------------------
(* What the helpers make of the configuration *)

LEMMA ConfigFields ==
  ASSUME ConfigType
  PROVE  tuiConfig.rules \in Seq(RuleTexts) /\ tuiConfig.port \in GoodTexts
         /\ tuiConfig.root \in GoodTexts
BY DEF ConfigType, ConsoleConfigs

LEMMA SaveRuleIs ==
  ASSUME ConfigType, NEW at \in Nat, NEW rule \in RuleTexts, SaveRule(at, rule)
  PROVE  /\ clone' \in ConsoleConfigs
         /\ clone'.port = tuiConfig.port /\ clone'.root = tuiConfig.root
         /\ Len(clone'.rules) >= Len(tuiConfig.rules)
         /\ at \in DOMAIN tuiConfig.rules
              => clone'.rules = [tuiConfig.rules EXCEPT ![at] = rule]
<1> DEFINE s == tuiConfig.rules
           t == IF at \in 1 .. Len(s) THEN [s EXCEPT ![at] = rule] ELSE Append(s, rule)
<1>1. s \in Seq(RuleTexts)
  BY ConfigFields
<1>2. clone' = [tuiConfig EXCEPT !.rules = t]
  BY DEF SaveRule
<1>3. t \in Seq(RuleTexts) /\ Len(t) >= Len(s)
      /\ (at \in DOMAIN s => t = [s EXCEPT ![at] = rule])
  <2>1. CASE at \in 1 .. Len(s)
    BY <1>1, <2>1, ExceptSeq
  <2>2. CASE at \notin 1 .. Len(s)
    BY <1>1, <2>2, AppendProperties
  <2> QED  BY <2>1, <2>2
<1> HIDE DEF t
<1> QED  BY <1>2, <1>3 DEF ConfigType, ConsoleConfigs

LEMMA DeleteRuleIs ==
  ASSUME ConfigType, NEW at \in DOMAIN tuiConfig.rules, DeleteRule(at)
  PROVE  /\ clone' \in ConsoleConfigs
         /\ clone'.port = tuiConfig.port /\ clone'.root = tuiConfig.root
<1> DEFINE s == tuiConfig.rules
           t == RemoveAt(s, at)
<1>1. s \in Seq(RuleTexts)
  BY ConfigFields
<1>2. clone' = [tuiConfig EXCEPT !.rules = t]
  BY DEF DeleteRule
<1>3. t \in Seq(RuleTexts)
  <2>1. SubSeq(s, 1, at - 1) \in Seq(RuleTexts) /\ SubSeq(s, at + 1, Len(s)) \in Seq(RuleTexts)
    BY <1>1, SubSeqProperties
  <2> QED  BY <2>1, ConcatProperties DEF RemoveAt
<1> HIDE DEF t
<1> QED  BY <1>2, <1>3 DEF ConfigType, ConsoleConfigs

LEMMA ApplyEditIs ==
  ASSUME ConfigType, NEW row \in RowNames, NEW text \in Texts, ApplyEdit(row, text)
  PROVE  /\ clone' \in ConsoleConfigs
         /\ clone'.rules = tuiConfig.rules /\ clone'.root = tuiConfig.root
         /\ row = "port" /\ text # "bad" => clone'.port = text
         /\ row # "port" \/ text = "bad" => clone' = tuiConfig
BY DEF ApplyEdit, ConfigType, ConsoleConfigs, GoodTexts

\* Rows, field by field
LEMMA RowsAreTrueIs ==
  ASSUME ConfigType
  PROVE  RowsAreTrue <=> /\ "port" \in fresh => rows["port"] = tuiConfig.port
                         /\ "root" \in fresh => rows["root"] = tuiConfig.root
BY DEF ConfigType, RowNames, RowsAreTrue

LEMMA RowIs == Rows[1] = "port" /\ Rows[2] = "root" /\ Len(Rows) = 2
BY DEF Rows

\* A key that saves nothing
LEMMA NothingSaved == ~saving /\ SavingInv /\ UNCHANGED savingVars => SavingInv'
BY DEF SavingInv, savingVars

LEMMA OneModeIs ==
  OneMode <=> /\ filterActive => editing.kind = "none" /\ setting.row = 0 /\ ~showHelp
              /\ editing.kind # "none" => setting.row = 0 /\ ~showHelp
              /\ setting.row # 0 => ~showHelp
<1> DEFINE flag == <<filterActive, editing.kind # "none", setting.row # 0, showHelp>>
<1>1. OneMode <=> \A p, q \in 1 .. 4 : flag[p] /\ flag[q] => p = q
  BY DEF OneMode
<1>2. (flag[1] <=> filterActive) /\ (flag[2] <=> editing.kind # "none")
      /\ (flag[3] <=> setting.row # 0) /\ (flag[4] <=> showHelp)
  OBVIOUS
<1> HIDE DEF flag
<1>3. \A p \in 1 .. 4 : p = 1 \/ p = 2 \/ p = 3 \/ p = 4
  OBVIOUS
<1> QED  BY <1>1, <1>2, <1>3

LEMMA KeysStart == ConsoleInit => KeysInv
<1> SUFFICES ASSUME ConsoleInit PROVE KeysInv
  OBVIOUS
<1> USE ConsoleAssumption DEF ConsoleInit
<1>1. tuiConfig \in ConsoleConfigs
  BY DEF RuleTexts, GoodTexts, ConsoleConfigs
<1>2. rows["port"] = tuiConfig.port /\ rows["root"] = tuiConfig.root /\ rows \in [RowNames -> Texts]
  <2>1. rows = [r \in RowNames |-> tuiConfig[r]]
    BY DEF RowsOf, RowNames
  <2>2. \A r \in RowNames : tuiConfig[r] = FirstText
    BY DEF RowNames
  <2>3. tuiConfig.port = FirstText /\ tuiConfig.root = FirstText
    OBVIOUS
  <2> QED  BY <2>1, <2>2, <2>3 DEF RowNames
<1>3. ConfigType
  BY <1>1, <1>2 DEF ConfigType, RowNames
<1>4. ModeType /\ CursorType
  <2>1. NotEditing \in [kind : {"none", "adding", "editing"}, at : Nat, rule : RuleTexts]
    BY DEF NotEditing, RuleTexts
  <2>2. NoSetting \in [row : 0 .. 2, text : Texts \cup {Nothing}] /\ NoSetting.row = 0
    BY DEF NoSetting
  <2>3. ModeType
    BY <2>1, <2>2 DEF ModeType
  <2>4. CursorType
    BY DEF CursorType, Tabs
  <2> QED  BY <2>3, <2>4
<1>5. OneMode
  BY OneModeIs DEF NotEditing, NoSetting
<1>6. RowsAreTrue
  BY <1>2, <1>3, RowsAreTrueIs
<1>7. OpenedIsThere
  BY DEF OpenedIsThere
<1>8. SavingInv
  BY DEF SavingInv
<1> QED  BY <1>3, <1>4, <1>5, <1>6, <1>7, <1>8 DEF KeysInv

-----------------------------------------------------------------------------
(***************************************************************************)
(* The keys.  Those that change the configuration come first.              *)
(***************************************************************************)
\* A step that leaves the configuration, its rows and the modes alone
LEMMA ElsewhereIsOk ==
  KeysInv /\ ~saving /\ CursorType'
    /\ UNCHANGED <<tuiConfig, rows, fresh, opened, modeVars, savingVars>> => KeysInv'
BY NothingSaved DEF KeysInv, ConfigType, ModeType, OneMode, OpenedIsThere, RowsAreTrue, modeVars

LEMMA RuleKeyIsOk == KeysInv /\ ~saving /\ RuleKey => KeysInv'
<1> SUFFICES ASSUME KeysInv, ~saving, RuleKey PROVE KeysInv'
  OBVIOUS
<1> USE DEF KeysInv
<1>1. UNCHANGED <<tuiConfig, rows, tab, elsewhere, fresh, aclScroll, configScroll, filterActive,
                  setting, showHelp>>
  BY DEF RuleKey
<1>2. editing.kind # "none" /\ editing.at \in Nat /\ editing.rule \in RuleTexts
  BY DEF RuleKey, InRule, ModeType
<1>3. /\ editing' \in [kind : {"none", "adding", "editing"}, at : Nat, rule : RuleTexts]
      /\ editing'.kind # "none" => editing'.kind = editing.kind /\ editing'.at = editing.at
      /\ opened' # Nothing => editing'.kind # "none" /\ opened' = opened
  BY SMTT(30), <1>2, ConsoleAssumption DEF RuleKey, ModeType, NotEditing, RuleTexts
<1>4. ConfigType' /\ ModeType' /\ CursorType' /\ RowsAreTrue' /\ OpenedIsThere'
  BY <1>1, <1>3 DEF ConfigType, ModeType, CursorType, RowsAreTrue, OpenedIsThere
<1>5. OneMode'
  <2>1. (OneMode <=> /\ filterActive => editing.kind = "none" /\ setting.row = 0 /\ ~showHelp
                     /\ editing.kind # "none" => setting.row = 0 /\ ~showHelp
                     /\ setting.row # 0 => ~showHelp)'
    BY OneModeIs, PTL
  <2> QED  BY <1>1, <1>2, <1>3, <2>1, OneModeIs
<1>6. SavingInv'
  <2>1. CASE UNCHANGED savingVars
    BY <2>1, NothingSaved
  <2>2. CASE Begin /\ SaveRule(editing.at, editing.rule) /\ UNCHANGED <<editing, opened>>
    <3>1. /\ clone' \in ConsoleConfigs /\ clone'.port = tuiConfig.port /\ clone'.root = tuiConfig.root
          /\ Len(clone'.rules) >= Len(tuiConfig.rules)
          /\ editing.at \in DOMAIN tuiConfig.rules
               => clone'.rules = [tuiConfig.rules EXCEPT ![editing.at] = editing.rule]
      BY <1>2, <2>2, SaveRuleIs
    <3>2. ~filterActive /\ setting.row = 0 /\ ~showHelp
      BY <1>2, OneModeIs
    <3>3. /\ "port" \in fresh => rows["port"] = tuiConfig.port
          /\ "root" \in fresh => rows["root"] = tuiConfig.root
      BY RowsAreTrueIs
    <3>4. CloneFits'
      BY <1>1, <2>2, <3>1, <3>2, <3>3 DEF CloneFits, OpenedIsThere
    <3>5. NothingElse'
      BY <1>1, <2>2, <3>1, <3>2 DEF NothingElse
    <3> QED  BY <2>2, <3>4, <3>5 DEF SavingInv, Begin
  <2> QED  BY <2>1, <2>2 DEF RuleKey
<1> QED  BY <1>4, <1>5, <1>6

LEMMA SettingKeyIsOk == KeysInv /\ ~saving /\ SettingKey => KeysInv'
<1> SUFFICES ASSUME KeysInv, ~saving, SettingKey PROVE KeysInv'
  OBVIOUS
<1> USE DEF KeysInv
<1> DEFINE row == Rows[setting.row]
<1>1. UNCHANGED <<tuiConfig, tab, elsewhere, opened, aclScroll, configScroll, filterActive,
                  editing, showHelp>>
  BY DEF SettingKey
<1>2. /\ row \in RowNames /\ setting.row # 0 /\ setting.text \in Texts /\ editing.kind = "none"
      /\ ~filterActive /\ ((setting.row = 1 /\ row = "port") \/ (setting.row = 2 /\ row = "root"))
  BY DEF SettingKey, InSetting, ModeType, Rows, RowNames
<1>3. opened = Nothing
  BY <1>2 DEF OpenedIsThere
<1>4. /\ setting' \in [row : 0 .. 2, text : Texts \cup {Nothing}]
      /\ setting'.row # 0 => setting'.text \in Texts /\ setting'.row = setting.row
  BY <1>2 DEF SettingKey, ModeType, NoSetting
<1>5. ModeType' /\ CursorType'
  BY <1>1, <1>4 DEF ModeType, CursorType
<1>6. OneMode'
  <2>1. (OneMode <=> /\ filterActive => editing.kind = "none" /\ setting.row = 0 /\ ~showHelp
                     /\ editing.kind # "none" => setting.row = 0 /\ ~showHelp
                     /\ setting.row # 0 => ~showHelp)'
    BY OneModeIs, PTL
  <2> QED  BY <1>1, <1>2, <1>4, <2>1, OneModeIs
<1>7. OpenedIsThere'
  BY <1>1, <1>3 DEF OpenedIsThere
<1>8. ConfigType' /\ RowsAreTrue' /\ SavingInv'
  <2> HIDE DEF row
  <2>1. CASE UNCHANGED <<rows, fresh, savingVars>>
    BY <1>1, <2>1, NothingSaved DEF ConfigType, RowsAreTrue
  <2>2. CASE /\ rows' = [rows EXCEPT ![row] = setting.text]
             /\ Begin /\ ApplyEdit(row, setting.text)
             /\ fresh' = fresh \ {row} /\ UNCHANGED setting
    <3>1. \A r \in RowNames \ {row} : rows'[r] = rows[r]
      BY <2>2 DEF ConfigType
    <3>2. rows'[row] = setting.text
      BY <1>2, <2>2 DEF ConfigType
    <3>3. ConfigType' /\ RowsAreTrue'
      BY <1>1, <1>2, <2>2, <3>1 DEF ConfigType, RowsAreTrue
    <3>4. /\ clone' \in ConsoleConfigs
          /\ clone'.rules = tuiConfig.rules /\ clone'.root = tuiConfig.root
          /\ row = "port" /\ setting.text # "bad" => clone'.port = setting.text
          /\ row # "port" \/ setting.text = "bad" => clone' = tuiConfig
      BY <1>2, <2>2, ApplyEditIs
    <3>5. ~showHelp
      BY <1>2, OneModeIs
    <3>6. \A r \in fresh : rows[r] = tuiConfig[r]
      BY DEF RowsAreTrue
    <3>7. CloneFits'
      <4>1. ("port" \in fresh' => rows'["port"] = clone'.port)
            /\ ("root" \in fresh' => rows'["root"] = clone'.root)
        BY <1>2, <2>2, <3>1, <3>4, <3>6 DEF RowNames
      <4>2. setting.row = 1 /\ setting.text # "bad"
              => rows'["port"] = setting.text /\ clone'.port = setting.text
        BY <1>2, <3>2, <3>4
      <4> QED  BY <1>1, <1>2, <1>3, <2>2, <3>4, <3>5, <4>1, <4>2 DEF CloneFits
    <3>8. NothingElse'
      BY <1>1, <1>2, <2>2, <3>4 DEF NothingElse
    <3> QED  BY <2>2, <3>3, <3>7, <3>8 DEF SavingInv, Begin
  <2> QED  BY <2>1, <2>2 DEF SettingKey, row
<1> QED  BY <1>5, <1>6, <1>7, <1>8

LEMMA DeleteKeyIsOk == KeysInv /\ ~saving /\ DeleteKey => KeysInv'
<1> SUFFICES ASSUME KeysInv, ~saving, DeleteKey PROVE KeysInv'
  OBVIOUS
<1> USE DEF KeysInv
<1>1. UNCHANGED <<tuiConfig, rows, tab, elsewhere, opened, fresh, configScroll, modeVars>>
  BY DEF DeleteKey
<1>2. aclScroll \in Nat /\ aclScroll' \in 1 .. MaxCursor
  BY ConsoleAssumption DEF DeleteKey, CursorType
<1>3. /\ ~filterActive /\ editing.kind = "none" /\ setting.row = 0 /\ ~showHelp
      /\ opened = Nothing
  BY DEF DeleteKey, Commands, OpenedIsThere
<1>4. SavingInv'
  <2>1. CASE UNCHANGED savingVars
    BY <2>1, NothingSaved
  <2>2. CASE aclScroll \in DOMAIN tuiConfig.rules /\ Begin /\ DeleteRule(aclScroll)
    <3>1. /\ clone' \in ConsoleConfigs
          /\ clone'.port = tuiConfig.port /\ clone'.root = tuiConfig.root
      BY <2>2, DeleteRuleIs
    <3>2. /\ "port" \in fresh => rows["port"] = tuiConfig.port
          /\ "root" \in fresh => rows["root"] = tuiConfig.root
      BY RowsAreTrueIs
    <3>3. CloneFits'
      BY <1>1, <1>3, <3>1, <3>2 DEF CloneFits, modeVars
    <3>4. NothingElse'
      BY <1>1, <1>3, <3>1 DEF NothingElse, modeVars
    <3> QED  BY <2>2, <3>3, <3>4 DEF SavingInv, Begin
  <2> QED  BY <2>1, <2>2 DEF DeleteKey
<1> QED  BY <1>1, <1>2, <1>3, <1>4
         DEF ConfigType, ModeType, CursorType, OneMode, OpenedIsThere, RowsAreTrue, modeVars

\* The end of an edit
LEMMA TuiStoreIsOk == KeysInv /\ TuiStore => KeysInv'
<1> SUFFICES ASSUME KeysInv, TuiStore PROVE KeysInv'
  OBVIOUS
<1> USE DEF KeysInv
<1>1. /\ UNCHANGED <<rows, tab, aclScroll, configScroll, elsewhere, filterActive, showHelp>>
      /\ saving /\ tuiConfig' = clone /\ opened' = Nothing
      /\ saving' = FALSE /\ overtaken' = FALSE
      /\ editing' = NotEditing /\ setting' = NoSetting
  BY DEF TuiStore
<1>2. CloneFits
  BY <1>1 DEF SavingInv
<1>3. /\ fresh' = fresh \/ fresh' = fresh \cup {"port"}
      /\ "port" \in fresh' => rows["port"] = clone.port
      /\ "root" \in fresh' => rows["root"] = clone.root
  <2>1. Rows[1] = "port" /\ Rows[2] = "root" /\ setting.row \in {0, 1, 2}
    BY RowIs DEF ModeType
  <2>2. CASE setting.row = 1 /\ setting.text # "bad"
    BY <1>2, <2>1, <2>2 DEF CloneFits, TuiStore
  <2>3. CASE ~(setting.row = 1 /\ setting.text # "bad")
    <3>1. fresh' = fresh
      BY <2>1, <2>3 DEF TuiStore
    <3> QED  BY <1>2, <3>1 DEF CloneFits
  <2> QED  BY <2>2, <2>3
<1>4. ConfigType'
  BY <1>1, <1>2, <1>3 DEF ConfigType, CloneFits, RowNames
<1>5. RowsAreTrue'
  <2>1. ConfigType' => (RowsAreTrue <=> /\ "port" \in fresh => rows["port"] = tuiConfig.port
                                        /\ "root" \in fresh => rows["root"] = tuiConfig.root)'
    BY RowsAreTrueIs, PTL
  <2> QED  BY <1>1, <1>3, <1>4, <2>1
<1>6. ModeType' /\ CursorType' /\ OpenedIsThere' /\ SavingInv'
  BY <1>1 DEF ModeType, CursorType, OpenedIsThere, SavingInv, NotEditing, NoSetting, RuleTexts
<1>7. OneMode'
  <2>1. (OneMode <=> /\ filterActive => editing.kind = "none" /\ setting.row = 0 /\ ~showHelp
                     /\ editing.kind # "none" => setting.row = 0 /\ ~showHelp
                     /\ setting.row # 0 => ~showHelp)'
    BY OneModeIs, PTL
  <2> QED  BY <1>1, <1>2, <2>1 DEF CloneFits, NotEditing, NoSetting
<1> QED  BY <1>4, <1>5, <1>6, <1>7

\* Keys that only change a mode
LEMMA ModeKeysAreOk ==
  KeysInv /\ ~saving /\ (FilterKey \/ HelpKey \/ ModeKey \/ OpenSetting \/ AddKey \/ EditKey)
    => KeysInv'
<1> SUFFICES ASSUME KeysInv, ~saving,
                    FilterKey \/ HelpKey \/ ModeKey \/ OpenSetting \/ AddKey \/ EditKey
             PROVE  KeysInv'
  OBVIOUS
<1> USE DEF KeysInv
<1>1. UNCHANGED <<savingVars, tuiConfig, rows, fresh, tab, elsewhere, aclScroll, configScroll>>
  BY DEF FilterKey, HelpKey, ModeKey, OpenSetting, AddKey, EditKey
<1>2. ConfigType' /\ CursorType' /\ RowsAreTrue' /\ SavingInv'
  BY <1>1, NothingSaved DEF ConfigType, CursorType, RowsAreTrue
<1>3. (OneMode <=> /\ filterActive => editing.kind = "none" /\ setting.row = 0 /\ ~showHelp
                   /\ editing.kind # "none" => setting.row = 0 /\ ~showHelp
                   /\ setting.row # 0 => ~showHelp)'
  BY OneModeIs, PTL
<1>4. CASE FilterKey
  <2>1. UNCHANGED <<editing, setting, showHelp, opened>>
    BY <1>4 DEF FilterKey
  <2>2. filterActive /\ (filterActive' = FALSE \/ filterActive' = filterActive)
    BY Zenon, <1>4 DEF FilterKey, Typing
  <2>3. filterActive' \in BOOLEAN
    BY <2>2 DEF ModeType
  <2>4. ModeType' /\ OpenedIsThere'
    BY <1>1, <2>1, <2>3 DEF ModeType, OpenedIsThere
  <2>5. OneMode'
    BY <1>3, <2>1, <2>2, OneModeIs
  <2> QED  BY <1>2, <2>4, <2>5
<1>5. CASE HelpKey
  BY <1>1, <1>2, <1>3, <1>5, OneModeIs DEF HelpKey, InHelp, ModeType, OpenedIsThere
<1>6. CASE ModeKey
  <2>1. UNCHANGED <<editing, setting, opened>> /\ editing.kind = "none" /\ setting.row = 0
    BY <1>6 DEF ModeKey, Commands
  <2>2. ~filterActive /\ ~showHelp
    BY <1>6 DEF ModeKey, Commands
  <2>3. \/ showHelp' = TRUE /\ filterActive' = filterActive
        \/ showHelp' = showHelp /\ (filterActive' = TRUE \/ filterActive' = filterActive)
    BY <1>6 DEF ModeKey
  <2>4. ModeType' /\ OpenedIsThere'
    BY <1>1, <2>1, <2>3 DEF ModeType, OpenedIsThere
  <2>5. OneMode'
    BY <1>3, <2>1, <2>2, <2>3
  <2> QED  BY <1>2, <2>4, <2>5
<1>7. CASE OpenSetting
  <2>1. configScroll \in 1 .. 2 /\ Rows[configScroll] \in RowNames
    BY DEF CursorType, Rows, RowNames
  <2>2. rows[Rows[configScroll]] \in Texts
    BY <2>1 DEF ConfigType
  <2> QED  BY <1>1, <1>2, <1>3, <1>7, <2>1, <2>2, OneModeIs
           DEF OpenSetting, Commands, ModeType, OpenedIsThere
<1>8. CASE AddKey
  <2>1. opened = Nothing
    BY <1>8 DEF AddKey, Commands, OpenedIsThere
  <2> QED  BY <1>1, <1>2, <1>3, <1>8, <2>1, ConsoleAssumption
           DEF AddKey, Commands, ModeType, OpenedIsThere, RuleTexts
<1>9. CASE EditKey
  <2>1. /\ aclScroll \in Nat /\ aclScroll \in DOMAIN tuiConfig.rules
        /\ tuiConfig.rules[aclScroll] \in RuleTexts
    BY <1>9, ConfigFields DEF EditKey, CursorType
  <2> QED  BY <1>1, <1>2, <1>3, <1>9, <2>1, ConsoleAssumption
           DEF EditKey, Commands, ModeType, OpenedIsThere
<1> QED  BY <1>4, <1>5, <1>6, <1>7, <1>8, <1>9

\* The other keys
LEMMA OtherKeysAreOk ==
  KeysInv /\ ~saving /\ (ServerKey \/ RefreshKey \/ TabKey \/ Scroll) => KeysInv'
<1> SUFFICES ASSUME KeysInv, ~saving, ServerKey \/ RefreshKey \/ TabKey \/ Scroll PROVE KeysInv'
  OBVIOUS
<1> USE DEF KeysInv
<1>1. CASE RefreshKey
  <2>1. UNCHANGED <<tuiConfig, tab, configScroll, aclScroll, elsewhere, opened, modeVars,
                    savingVars>>
    BY <1>1 DEF RefreshKey
  <2>2. rows' = [r \in RowNames |-> tuiConfig[r]] /\ fresh' = RowNames
    BY <1>1 DEF RefreshKey, RowsOf, RowNames
  <2>3. \A r \in RowNames : tuiConfig[r] \in Texts
    BY DEF ConfigType, ConsoleConfigs, RowNames, GoodTexts
  <2>4. ConfigType' /\ RowsAreTrue'
    BY <2>1, <2>2, <2>3 DEF ConfigType, RowsAreTrue
  <2> QED  BY <2>1, <2>4, NothingSaved DEF ModeType, CursorType, OneMode, OpenedIsThere, modeVars
<1>2. CASE ServerKey
  BY <1>2, ElsewhereIsOk DEF ServerKey, CursorType
<1>3. CASE TabKey
  BY <1>3, ElsewhereIsOk DEF TabKey, CursorType
<1>4. CASE Scroll
  BY <1>4, RowIs, ElsewhereIsOk, ConsoleAssumption DEF Scroll, CursorType
<1> QED  BY <1>1, <1>2, <1>3, <1>4

LEMMA ReloadIsOk ==
  ASSUME KeysInv, NEW rules \in {FirstRules, Tail(FirstRules)}, NEW t \in Texts \ {"bad"},
         TuiReload([rules |-> rules, port |-> t, root |-> t])
  PROVE  KeysInv'
<1> USE DEF KeysInv
<1>1. /\ UNCHANGED <<rows, tab, server, configScroll, aclScroll, modeVars, saving, clone>>
      /\ elsewhere' = elsewhere + 1 /\ opened' = Nothing
      /\ tuiConfig' = [rules |-> rules, port |-> t, root |-> t]
      /\ overtaken' = saving
  BY DEF TuiReload
<1>2. rules \in Seq(RuleTexts)
  <2>1. FirstRules \in Seq(Rules) /\ Tail(FirstRules) \in Seq(Rules)
    BY ConsoleAssumption, HeadTailProperties
  <2>2. rules \in Seq(Rules)
    BY <2>1
  <2> QED  BY <2>2 DEF RuleTexts
<1>3. fresh' = {r \in fresh : tuiConfig'[r] = rows[r]}
  BY DEF TuiReload
<1>4. ConfigType' /\ RowsAreTrue'
  BY <1>1, <1>2, <1>3 DEF ConfigType, ConsoleConfigs, RowsAreTrue, GoodTexts
<1>5. SavingInv'
  <2>1. CASE saving
    <3>1. CloneFits
      BY <2>1 DEF SavingInv
    <3>2. CloneFits'
      BY <1>1, <1>3, <3>1 DEF CloneFits, modeVars
    <3> QED  BY <1>1, <2>1, <3>2 DEF SavingInv
  <2>2. CASE ~saving
    BY <1>1, <2>2 DEF SavingInv
  <2> QED  BY <2>1, <2>2
<1> QED  BY <1>1, <1>4, <1>5 DEF ModeType, CursorType, OneMode, OpenedIsThere, modeVars

-----------------------------------------------------------------------------
LEMMA KeysStep == KeysInv /\ [ConsoleNext]_consoleVars => KeysInv'
<1> SUFFICES ASSUME KeysInv, [ConsoleNext]_consoleVars PROVE KeysInv'
  OBVIOUS
<1>1. CASE Key
  BY <1>1, RuleKeyIsOk, SettingKeyIsOk, DeleteKeyIsOk, ModeKeysAreOk, OtherKeysAreOk DEF Key
<1>2. CASE TuiStore
  BY <1>2, TuiStoreIsOk
<1>3. CASE \E rules \in {FirstRules, Tail(FirstRules)}, t \in Texts \ {"bad"} :
             TuiReload([rules |-> rules, port |-> t, root |-> t])
  BY <1>3, ReloadIsOk
<1>4. CASE UNCHANGED consoleVars
  BY <1>4 DEF KeysInv, ConfigType, ModeType, CursorType, OneMode, OpenedIsThere, RowsAreTrue,
              SavingInv, CloneFits, NothingElse, consoleVars, modeVars, savingVars
<1> QED  BY <1>1, <1>2, <1>3, <1>4 DEF ConsoleNext

THEOREM KeysInvariance == ConsoleSpec => []KeysInv
<1> QED  BY KeysStart, KeysStep, PTL DEF ConsoleSpec

\* A key is taken by the one mode that is on: what is typed into a filter, a
\* rule or a setting, or pressed while the help is shown, never quits, stops
\* the server or deletes a rule (handle_key), for any rules, texts and reloads.
THEOREM OneMeaning == ConsoleSpec => KeysAreSafe
<1>1. KeysInv => ConsoleTypeOK /\ OneMode
  <2> SUFFICES ASSUME KeysInv PROVE ConsoleTypeOK
    BY DEF KeysInv
  <2>1. DOMAIN Rows = 1 .. 2
    BY DEF Rows
  <2>2. \A i \in DOMAIN tuiConfig.rules : tuiConfig.rules[i] \in RuleTexts
    BY ConfigFields DEF KeysInv
  <2>3. tuiConfig.port \in GoodTexts
    BY ConfigFields DEF KeysInv
  <2>4. setting.row \in 0 .. 2
    BY DEF KeysInv, ModeType
  <2> QED  BY <2>1, <2>2, <2>3, <2>4 DEF ConsoleTypeOK, KeysInv, CursorType, RuleTexts, GoodTexts
<1>2. KeysInv /\ [ConsoleNext]_consoleVars =>
        [filterActive \/ editing.kind # "none" \/ setting.row # 0 \/ showHelp
           => /\ quit' = quit /\ server' = server
              /\ elsewhere' = elsewhere /\ ~overtaken
                   => Len(tuiConfig'.rules) >= Len(tuiConfig.rules)]_consoleVars
  <2> SUFFICES ASSUME KeysInv, ConsoleNext,
                      filterActive \/ editing.kind # "none" \/ setting.row # 0 \/ showHelp
               PROVE  /\ quit' = quit /\ server' = server
                      /\ elsewhere' = elsewhere /\ ~overtaken
                           => Len(tuiConfig'.rules) >= Len(tuiConfig.rules)
    OBVIOUS
  <2>1. ~Commands
    BY DEF Commands
  <2>2. Len(tuiConfig.rules) \in Nat
    BY ConfigFields DEF KeysInv
  <2>3. CASE FilterKey \/ HelpKey \/ RuleKey \/ SettingKey \/ Scroll
    BY <2>2, <2>3 DEF FilterKey, HelpKey, RuleKey, SettingKey, Scroll
  <2>4. CASE TuiStore
    <3>1. quit' = quit /\ server' = server /\ tuiConfig' = clone /\ saving
      BY <2>4 DEF TuiStore
    <3>2. ASSUME ~overtaken PROVE Len(clone.rules) >= Len(tuiConfig.rules)
      <4>1. CloneFits /\ NothingElse
        BY <3>1, <3>2 DEF KeysInv, SavingInv
      <4>2. editing.kind # "none" \/ setting.row # 0
        BY <4>1 DEF CloneFits
      <4> QED  BY <2>2, <4>1, <4>2 DEF NothingElse
    <3> QED  BY <3>1, <3>2
  <2>5. ASSUME NEW c, TuiReload(c) PROVE quit' = quit /\ server' = server /\ elsewhere' # elsewhere
    BY <2>5 DEF TuiReload, KeysInv, CursorType
  <2> QED  BY <2>1, <2>3, <2>4, <2>5
           DEF ConsoleNext, Key, ModeKey, ServerKey, RefreshKey, TabKey, OpenSetting, AddKey,
               EditKey, DeleteKey
<1> QED  BY <1>1, <1>2, KeysInvariance, PTL DEF ConsoleSpec, KeysAreSafe, TypingIsHarmless

\* Only the end of an edit and a reload change the running configuration
LEMMA WhoStores ==
  KeysInv /\ ConsoleNext /\ elsewhere' = elsewhere =>
    TuiStore \/ tuiConfig' = tuiConfig
<1> SUFFICES ASSUME KeysInv, ConsoleNext, elsewhere' = elsewhere, ~TuiStore
             PROVE  tuiConfig' = tuiConfig
  OBVIOUS
<1>1. ASSUME NEW c, TuiReload(c) PROVE FALSE
  BY <1>1 DEF TuiReload, KeysInv, CursorType
<1> QED  BY <1>1 DEF ConsoleNext, Key, FilterKey, RuleKey, SettingKey, HelpKey, ModeKey, ServerKey,
                     RefreshKey, TabKey, Scroll, OpenSetting, AddKey, EditKey, DeleteKey

\* An edit changes the rule or the setting that was opened and nothing else,
\* also when the configuration was reloaded since the rows were read or the
\* rule was opened; only what is reloaded between the clone and its store is
\* taken back (save_acl_rule, apply_config_edit, refresh_config).
THEOREM EditsHitTheirTarget == ConsoleSpec => EditsAreExact
<1>1. KeysInv /\ [ConsoleNext]_consoleVars =>
        [opened # Nothing /\ tuiConfig'.rules # tuiConfig.rules /\ elsewhere' = elsewhere
           => /\ tuiConfig.rules[editing.at] = opened
              /\ tuiConfig'.rules = [tuiConfig.rules EXCEPT ![editing.at] = editing.rule]
        ]_consoleVars
  <2> SUFFICES ASSUME KeysInv, ConsoleNext, opened # Nothing, tuiConfig'.rules # tuiConfig.rules,
                      elsewhere' = elsewhere
               PROVE  /\ tuiConfig.rules[editing.at] = opened
                      /\ tuiConfig'.rules = [tuiConfig.rules EXCEPT ![editing.at] = editing.rule]
    OBVIOUS
  <2>1. TuiStore
    BY WhoStores
  <2>2. saving /\ tuiConfig' = clone
    BY <2>1 DEF TuiStore
  <2> QED  BY <2>2 DEF KeysInv, SavingInv, CloneFits, OpenedIsThere
<1>2. KeysInv /\ [ConsoleNext]_consoleVars =>
        [elsewhere' = elsewhere /\ ~overtaken
           => /\ tuiConfig'.root = tuiConfig.root
              /\ setting.row = 0 => tuiConfig'.port = tuiConfig.port
              /\ setting.row # 0
                   => /\ tuiConfig'.rules = tuiConfig.rules
                      /\ Rows[setting.row] # "port" => tuiConfig' = tuiConfig]_consoleVars
  <2> SUFFICES ASSUME KeysInv, ConsoleNext, elsewhere' = elsewhere, ~overtaken
               PROVE  /\ tuiConfig'.root = tuiConfig.root
                      /\ setting.row = 0 => tuiConfig'.port = tuiConfig.port
                      /\ setting.row # 0
                           => /\ tuiConfig'.rules = tuiConfig.rules
                              /\ Rows[setting.row] # "port" => tuiConfig' = tuiConfig
    OBVIOUS
  <2>1. CASE tuiConfig' = tuiConfig
    BY <2>1
  <2>2. CASE TuiStore
    <3>1. saving /\ tuiConfig' = clone
      BY <2>2 DEF TuiStore
    <3>2. NothingElse
      BY <3>1 DEF KeysInv, SavingInv
    <3>3. setting.row \in {0, 1, 2}
      BY DEF KeysInv, ModeType
    <3> QED  BY <3>1, <3>2, <3>3, RowIs DEF NothingElse
  <2> QED  BY <2>1, <2>2, WhoStores
<1>3. KeysInv => RowsAreTrue
  BY DEF KeysInv
<1> QED  BY <1>1, <1>2, <1>3, KeysInvariance, PTL
         DEF ConsoleSpec, EditsAreExact, EditReplacesItsRule, OthersStay
=============================================================================
