---------------------------- MODULE Configuration ----------------------------
(***************************************************************************)
(* The configuration of a running server: where it is loaded from and      *)
(* saved to (core/config/mod.rs), what overrides it, and everything that   *)
(* replaces it: the watcher of the file (core/mod.rs), SIGHUP and the      *)
(* control socket, a restart, and an edit in a user interface.  They run   *)
(* in different threads, none of them holds a lock from its read to its    *)
(* store, and a file is rewritten in more than one step.  The watcher      *)
(* belongs to a run of the server: it begins when the configuration has    *)
(* been loaded and the socket bound, and leaves when the server stops.     *)
(*                                                                         *)
(* Two settings stand for all: the port, which the environment and the     *)
(* command line override, and the largest block size, which the command    *)
(* line overrides and the buffer pool follows.                             *)
(***************************************************************************)
EXTENDS Integers, FiniteSets

CONSTANTS Values,       \* values a setting is changed to; 0 is its default
          Starts,       \* [files, over]: the files there are, and the overrides:
                        \* [path, port, blk] of the command line, env of the environment
          MaxChanges,   \* bound: changes of a file, reload commands, restarts and edits
          Changes,      \* which of them: subset of {"write", "signal", "restart", "edit"}
          Styles,       \* how the operator's editor writes: subset of
                        \* {"in_place", "recreate", "rename", "broken"}
          Faults        \* subset of {"disk", "socket"}

ASSUME ConfigurationAssumption ==
  /\ Values \subseteq Nat \ {0} /\ Values # {}
  /\ MaxChanges \in Nat

Settings  == {"port", "blk"}
Places    == {"given", "user", "system"}    \* --config, default_config_paths in order
Reloaders == {"watcher", "signal", "restart"}
Configs   == [Settings -> Nat]
Default   == [s \in Settings |-> 0]
\* A file that is empty is a configuration: every setting has its default
Missing   == [kind |-> "none", cfg |-> Default]
Empty     == [kind |-> "good", cfg |-> Default]
Broken    == [kind |-> "broken", cfg |-> Default]
Good(c)   == [kind |-> "good", cfg |-> c]
Contents  == [kind : {"none", "good", "broken"}, cfg : Configs]
Overrides == [path : BOOLEAN, port : Nat, blk : Nat, env : Nat]

\* The files of the start can be parsed, and none of them says a default: 0 is
\* what a setting is reset to
ASSUME StartsAssumption ==
  \A start \in Starts :
    /\ start.over \in Overrides /\ start.files \in [Places -> Contents]
    /\ \A p \in Places : start.files[p].kind \in {"none", "good"}
    /\ \A p \in Places, s \in Settings :
         start.files[p].kind = "good" => start.files[p].cfg[s] # 0

VARIABLES over,         \* the overrides of this process
          files,
          config,       \* AppState.config, an ArcSwap
          pool,         \* block size the buffers of the pool are for
          reload,       \* [pc, cfg] of every reloader
          edit,         \* [pc, setting, value, cfg] of the user interface
          serving,      \* "starting", "up" with its watcher, or "down"
          watched,      \* the place whose events the watcher gets, or "none"
          events, recent,   \* events not yet handled; a reload less than 2 s ago
          writing,      \* [to, content]: a rewrite the editor has not finished
          changes,      \* of these four kinds, so far
          by,           \* history: what stored last
          saved,        \* history: [setting, value] of the last edit on disk
          unseen,       \* history: a file changed with no watcher, and no load since
          taint         \* history: what went wrong

watcherVars == <<serving, watched, events, recent>>
envVars == <<writing, changes>>
histVars == <<by, saved, unseen, taint>>
configurationVars == <<over, files, config, pool, reload, edit, watcherVars,
                       envVars, histVars>>

-----------------------------------------------------------------------------
\* A slip: the system's file comes first, as it would for a daemon
MutConfigFilePath(f) ==
  IF f["system"].kind # "none" THEN "system"
  ELSE IF f["user"].kind # "none" THEN "user" ELSE "none"

\* config_file_path: the first of the default paths; --config is not asked
ConfigFilePath(f) ==
  IF f["user"].kind # "none" THEN "user"
  ELSE IF f["system"].kind # "none" THEN "system" ELSE "none"

\* The file Config::load reads
LoadFrom(f) ==
  IF over.path /\ f["given"].kind # "none" THEN "given" ELSE ConfigFilePath(f)

\* apply_env_overrides
InEnvironment(c) == [c EXCEPT !["port"] = IF over.env # 0 THEN over.env ELSE @]

\* ... then apply_overrides: the command line wins
Overridden(c) ==
  [InEnvironment(c) EXCEPT !["port"] = IF over.port # 0 THEN over.port ELSE @,
                           !["blk"]  = IF over.blk # 0 THEN over.blk ELSE @]

\* What a load would give now
Effective == Overridden(IF LoadFrom(files) = "none" THEN Default ELSE files[LoadFrom(files)].cfg)

Idle(r) == reload[r].pc = "idle"
Quiet == (\A r \in Reloaders : Idle(r)) /\ edit.pc = "idle"

\* Two of them at work at once
Race == IF Quiet THEN {} ELSE {"race"}

\* An event of file p reaches the watcher if p is what it watches
Notify(p) ==
  /\ events' = IF p = watched THEN events + 1 ELSE events
  /\ unseen' = IF serving = "up" THEN unseen ELSE TRUE

Put(p, content) == files' = [files EXCEPT ![p] = content]

ConfigurationInit ==
  /\ \E start \in Starts : files = start.files /\ over = start.over
  /\ LoadFrom(files) # "none"     \* or Config::load would have saved one
  /\ config = Effective /\ pool = config["blk"]
  /\ reload = [r \in Reloaders |-> [pc |-> "idle", cfg |-> Default]]
  /\ edit = [pc |-> "idle", setting |-> "port", value |-> 0, cfg |-> Default]
  /\ serving = "starting" /\ watched = "none"
  /\ events = 0 /\ recent = FALSE
  /\ writing = [to |-> "none", content |-> Missing]
  /\ changes = 0
  /\ by = "load" /\ saved = [setting |-> "none", value |-> 0]
  /\ unseen = FALSE /\ taint = {}

-----------------------------------------------------------------------------
(***************************************************************************)
(* reload_config, in the watcher's thread or a task                        *)
(***************************************************************************)
Change(kind) == kind \in Changes /\ changes < MaxChanges /\ changes' = changes + 1

Start(r) ==
  /\ Idle(r)
  /\ reload' = [reload EXCEPT ![r].pc = "read"]
  /\ taint' = taint \cup Race

\* Config::load.  When there is no file the defaults are saved as one, with
\* what the environment says; when it cannot be parsed the old configuration
\* stays, but a restart goes on with the defaults, without the overrides.
Read(r) ==
  LET p == LoadFrom(files)
      partial == IF writing.to # "none" \/ edit.pc = "write" THEN {"torn"} ELSE {}
  IN  /\ reload[r].pc = "read"
      /\ IF p = "none"
         THEN /\ Put("user", Good(InEnvironment(Default))) /\ Notify("user")
              /\ reload' = [reload EXCEPT ![r] = [pc |-> "resize", cfg |-> Overridden(Default)]]
              /\ taint' = taint \cup partial
         ELSE /\ UNCHANGED <<files, events>>
              /\ IF files[p].kind = "good"
                 THEN /\ reload' = [reload EXCEPT
                                      ![r] = [pc |-> "resize", cfg |-> Overridden(files[p].cfg)]]
                      /\ taint' = taint \cup partial /\ unseen' = FALSE
                 ELSE /\ reload' = [reload EXCEPT
                                      ![r] = [pc |-> IF r = "restart" THEN "reset" ELSE "idle",
                                              cfg |-> Default]]
                      /\ taint' = IF r = "restart" THEN taint \cup {"fallback"} ELSE taint
                      /\ UNCHANGED unseen
      /\ UNCHANGED <<over, config, pool, edit, serving, watched, recent, envVars, by, saved>>

\* A slip: the pool is left as it is
MutResize(r) ==
  /\ reload[r].pc = "resize"
  /\ reload' = [reload EXCEPT ![r].pc = "store"]
  /\ UNCHANGED <<over, files, config, pool, edit, watcherVars, envVars, histVars>>

\* The buffer pool first
Resize(r) ==
  /\ reload[r].pc = "resize"
  /\ pool' = reload[r].cfg["blk"]
  /\ reload' = [reload EXCEPT ![r].pc = "store"]
  /\ UNCHANGED <<over, files, config, edit, watcherVars, envVars, histVars>>

Store(r) ==
  /\ reload[r].pc = "store"
  /\ config' = reload[r].cfg
  /\ reload' = [reload EXCEPT ![r].pc = IF r = "restart" THEN "clone" ELSE "idle"]
  /\ by' = "load"
  /\ UNCHANGED <<over, files, pool, edit, watcherVars, envVars, saved, unseen, taint>>

\* A restart clones what is stored and stores it once more in
\* reset_for_restart, after it has waited for three locks
Clone ==
  /\ reload["restart"].pc = "clone"
  /\ reload' = [reload EXCEPT !["restart"] = [pc |-> "reset", cfg |-> config]]
  /\ UNCHANGED <<over, files, config, pool, edit, watcherVars, envVars, histVars>>

ResetStore ==
  /\ reload["restart"].pc = "reset"
  /\ config' = reload["restart"].cfg
  /\ reload' = [reload EXCEPT !["restart"].pc = "idle"]
  /\ by' = "restart" /\ serving' = "starting"
  /\ UNCHANGED <<over, files, pool, edit, watched, events, recent, envVars, saved, unseen, taint>>

\* SIGHUP, or reload on the control socket
Hangup ==
  /\ Change("signal") /\ Start("signal")
  /\ UNCHANGED <<over, files, config, pool, edit, watcherVars, writing,
                 by, saved, unseen>>

\* An interface stops the server (or its socket fails), and starts it again;
\* the start fails when the socket cannot be bound
StopServer ==
  /\ Change("restart") /\ serving = "up" /\ serving' = "down"
  /\ UNCHANGED <<over, files, config, pool, reload, edit, watched, events, recent, writing,
                 histVars>>

RestartServer ==
  /\ serving = "down" /\ edit.pc = "idle" /\ Start("restart")
  /\ UNCHANGED <<over, files, config, pool, edit, watcherVars, envVars, by, saved, unseen>>

StartFails ==
  /\ "socket" \in Faults /\ serving = "starting" /\ serving' = "down"
  /\ UNCHANGED <<over, files, config, pool, reload, edit, watched, events, recent, envVars,
                 histVars>>

-----------------------------------------------------------------------------
(***************************************************************************)
(* The watcher (spawn_config_watcher)                                      *)
(***************************************************************************)
\* run_server has bound its socket: what the watcher is to watch is found anew,
\* in a thread of its own
Watch ==
  /\ serving = "starting" /\ serving' = "up"
  /\ watched' = ConfigFilePath(files) /\ events' = 0 /\ recent' = FALSE
  /\ UNCHANGED <<over, files, config, pool, reload, edit, envVars, histVars>>

WatcherGone == watched' = "none" /\ events' = 0 /\ recent' = FALSE

\* It looks at its run's token before it waits for an event
LeaveWatch ==
  /\ serving # "up" /\ watched # "none" /\ Idle("watcher") /\ WatcherGone
  /\ UNCHANGED <<over, files, config, pool, reload, edit, serving, envVars, histVars>>

\* A slip: an event is taken for handled even when nothing was reloaded
MutSeeEvent ==
  /\ events > 0 /\ Idle("watcher")
  /\ events' = 0 /\ recent' = TRUE
  /\ UNCHANGED <<over, files, config, pool, reload, edit, serving, watched, envVars, histVars>>

\* The first event of a burst reloads at once, the others are dropped; after
\* the stop it sees at most the one it was waiting for
SeeEvent ==
  /\ events > 0 /\ Idle("watcher")
  /\ IF recent THEN taint' = taint \cup {"dropped"} /\ UNCHANGED reload
     ELSE Start("watcher")
  /\ IF serving = "up" THEN events' = events - 1 /\ recent' = TRUE /\ UNCHANGED watched
     ELSE WatcherGone
  /\ UNCHANGED <<over, files, config, pool, edit, serving, envVars, by, saved, unseen>>

TwoSecondsPass ==
  /\ recent /\ recent' = FALSE
  /\ UNCHANGED <<over, files, config, pool, reload, edit, serving, watched, events, envVars,
                 histVars>>

-----------------------------------------------------------------------------
(***************************************************************************)
(* An edit in a user interface: clone, change, save, store                 *)
(***************************************************************************)
EditBegin(s, v) ==
  /\ Change("edit") /\ edit.pc = "idle"
  /\ edit' = [pc |-> "save", setting |-> s, value |-> v, cfg |-> [config EXCEPT ![s] = v]]
  /\ taint' = taint \cup Race
  /\ UNCHANGED <<over, files, config, pool, reload, watcherVars, writing, by, saved, unseen>>

\* Config::save always writes the first of the default paths
EditTruncate ==
  /\ edit.pc = "save"
  /\ edit' = [edit EXCEPT !.pc = "write"]
  /\ Put("user", Empty) /\ Notify("user")
  /\ saved' = [setting |-> "none", value |-> 0]
  /\ UNCHANGED <<over, config, pool, reload, serving, watched, recent, envVars, by, taint>>

EditWrite ==
  /\ edit.pc = "write"
  /\ edit' = [edit EXCEPT !.pc = "store"]
  /\ Put("user", Good(edit.cfg)) /\ Notify("user")
  /\ saved' = [setting |-> edit.setting, value |-> edit.value]
  /\ UNCHANGED <<over, config, pool, reload, serving, watched, recent, envVars, by, taint>>

\* The disk is full: the error is not acted on, the file stays as it is
EditFails ==
  /\ "disk" \in Faults /\ edit.pc \in {"save", "write"}
  /\ edit' = [edit EXCEPT !.pc = "store"]
  /\ taint' = taint \cup {"disk"}
  /\ UNCHANGED <<over, files, config, pool, reload, watcherVars, envVars,
                 by, saved, unseen>>

EditStore ==
  /\ edit.pc = "store"
  /\ edit' = [edit EXCEPT !.pc = "idle"]
  /\ config' = edit.cfg /\ by' = "edit"
  /\ UNCHANGED <<over, files, pool, reload, watcherVars, envVars, saved, unseen, taint>>

-----------------------------------------------------------------------------
(***************************************************************************)
(* The operator's editor (external)                                        *)
(***************************************************************************)
\* It saves file p: over the old file (truncate, write), as a new file
\* (remove, create), by renaming one over it, or with a mistake in it
OperatorSaves(p, style, c) ==
  /\ Change("write") /\ writing.to = "none" /\ files[p].kind # "none"
  /\ \/ /\ style = "in_place"
        /\ Put(p, Empty) /\ Notify(p)
        /\ writing' = [to |-> p, content |-> Good(c)]
     \/ /\ style = "recreate"
        /\ Put(p, Missing) /\ UNCHANGED <<events, unseen>>
        /\ writing' = [to |-> p, content |-> Good(c)]
     \/ /\ style \in {"rename", "broken"}
        /\ Put(p, IF style = "rename" THEN Good(c) ELSE Broken) /\ Notify(p)
        /\ UNCHANGED writing
  /\ saved' = [setting |-> "none", value |-> 0]
  /\ UNCHANGED <<over, config, pool, reload, edit, serving, watched, recent, by, taint>>

OperatorDone ==
  /\ writing.to # "none"
  /\ Put(writing.to, writing.content) /\ Notify(writing.to)
  /\ writing' = [to |-> "none", content |-> Missing]
  /\ saved' = [setting |-> "none", value |-> 0]
  /\ UNCHANGED <<over, config, pool, reload, edit, serving, watched, recent, changes, by, taint>>

-----------------------------------------------------------------------------
ReloadStep(r) == Read(r) \/ Resize(r) \/ Store(r)

EditStep == EditTruncate \/ EditWrite \/ EditStore

ConfigurationNext ==
  \/ \E r \in Reloaders : ReloadStep(r)
  \/ Clone \/ ResetStore \/ Hangup
  \/ StopServer \/ RestartServer \/ StartFails
  \/ Watch \/ LeaveWatch \/ SeeEvent \/ TwoSecondsPass
  \/ EditStep \/ EditFails \/ \E s \in Settings, v \in Values : EditBegin(s, v)
  \/ OperatorDone
  \/ \E p \in Places, style \in Styles, v \in Values :
       OperatorSaves(p, style, [s \in Settings |-> v])

ConfigurationSpec == ConfigurationInit /\ [][ConfigurationNext]_configurationVars

\* What has begun goes on, and the watcher gets to its events
GoesOn ==
  \/ \E r \in Reloaders : ReloadStep(r)
  \/ Clone \/ ResetStore \/ SeeEvent \/ EditStep \/ OperatorDone

FairConfigurationSpec == ConfigurationSpec /\ WF_configurationVars(GoesOn)

-----------------------------------------------------------------------------
ConfigurationTypeOK ==
  /\ files \in [Places -> Contents] /\ config \in Configs
  /\ pool \in Nat /\ events \in Nat /\ recent \in BOOLEAN
  /\ \A r \in Reloaders :
       /\ reload[r].pc \in {"idle", "read", "resize", "store", "clone", "reset"}
       /\ reload[r].cfg \in Configs
       /\ reload[r].pc \in {"clone", "reset"} => r = "restart"
  /\ edit.pc \in {"idle", "save", "write", "store"} /\ edit.cfg \in Configs
  /\ serving \in {"starting", "up", "down"} /\ watched \in {"user", "system", "none"}

\* The buffers of the pool are for the block size of the configuration,
\* whatever was written, reloaded or restarted, as long as no two of them
\* overlapped, no restart had to fall back to the defaults, and the last change
\* was no edit: two overlapping reloads may leave the pool smaller than the
\* largest block size that is negotiated.
PoolFits ==
  Quiet /\ by # "edit" /\ taint \cap {"race", "fallback"} = {} => pool = config["blk"]

\* The command line wins over the environment, and both over the file, also
\* after reloads and restarts, unless an edit was the last to store.
OverridesHold ==
  Quiet /\ by # "edit" /\ taint \cap {"race", "fallback"} = {} =>
    /\ over.port # 0 => config["port"] = over.port
    /\ over.port = 0 /\ over.env # 0 => config["port"] = over.env
    /\ over.blk # 0 => config["blk"] = over.blk

\* An edit that was saved is what the next load finds, wherever the
\* configuration came from, unless a file was given with --config (edits are
\* not saved there) or the setting is overridden.
EditIsReloaded ==
  saved.setting # "none" /\ ~(over.path /\ files["given"].kind # "none")
    => LET s == saved.setting
       IN  \/ Effective[s] = saved.value
           \/ Effective[s] # 0 /\ Effective[s] \in {over.port, over.env, over.blk}

\* No setting falls back to its default in a running server, but when a load
\* met a file that was being rewritten, when a save failed half way, or when a
\* restart found a file it could not parse.
NotReset ==
  (\E s \in Settings : config[s] = 0) => taint \cap {"torn", "disk", "fallback"} # {}

\* The running configuration is the file's with the overrides over it, and
\* the buffer pool is the one it asks for.
StoreIsSound == ConfigurationTypeOK /\ PoolFits /\ OverridesHold /\ NotReset

Watching == watched # "none" /\ files[watched].kind = "good"

\* The watcher keeps its promise for single changes: when no event fell into
\* the two seconds after a reload, nothing overlapped, and the watcher was
\* there for every change since the last load, the server runs in the end with
\* what the file it watches says, if that can be parsed and is the file that is
\* loaded.  What changes between the load of a start and its watch() raises no
\* event and waits for the next load.
WatchedIsSeen ==
  <>[](taint = {} /\ ~unseen /\ Watching /\ watched = LoadFrom(files) => config = Effective)

\* README.md: the configuration is reloaded when its file changes, here while
\* the watcher watches it
HotReload ==
  <>[](~unseen /\ Watching => config = Effective)
=============================================================================
