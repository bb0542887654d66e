------------------------------- MODULE Uploads -------------------------------
(***************************************************************************)
(* Several uploads of one path (core/session/mod.rs): every write request  *)
(* that gets through starts a task of its own, also a request a client     *)
(* repeats because the first answer was lost, which the server never sends *)
(* again.  The data is gathered in memory, acknowledged, and only then     *)
(* written.  How blocks and windows are received is the subject of         *)
(* WriteSession; here a transfer is one step.  The receive buffer comes    *)
(* from the pool (core/buffer_pool.rs), whose size follows the largest     *)
(* block size of the configuration, but not in the same step.              *)
(***************************************************************************)
EXTENDS Integers, Sequences, FiniteSets

CONSTANTS Clients,
          MaxTasks,         \* bound: write requests that are accepted
          MaxLosses,        \* bound: requests and answers that are lost
          MaxEarly,         \* bound: repetitions that were not necessary
          AllowOverwrite,   \* the configurations considered: subset of BOOLEAN
          BlkSizes,         \* values max_blksize takes
          FileSizes,        \* sizes of the files that are uploaded
          MaxEdits,         \* bound: changes of the configuration
          Faults            \* subset of {"disk", "edit", "reload"}

ASSUME UploadAssumption ==
  /\ MaxTasks \in Nat /\ MaxLosses \in Nat /\ MaxEarly \in Nat /\ MaxEdits \in Nat
  /\ AllowOverwrite \subseteq BOOLEAN
  /\ BlkSizes \subseteq Nat /\ BlkSizes # {} /\ FileSizes \subseteq Nat

Tasks   == 1 .. MaxTasks
Chunks  == 2                    \* writes a file takes

VARIABLES overwrite,    \* allow_overwrite
          maxBlk,       \* max_blksize of the stored configuration
          poolBuf,      \* block size the pool's buffers are for
          reloadTo,     \* a reload between resizing and storing; 0: none
          edits,        \* changes of the configuration so far
          wanting,      \* requests of each client under way
          answers,      \* tasks whose first OACK or ACK(0) is under way
          task,         \* [pc, client, blk, buf, data] of every task
          clientPhase, peer,
          exists,       \* something lies under the path
          file,         \* the task that wrote each chunk of it
          losses, early,
          taint         \* history: what makes a wrong file possible

configVars == <<overwrite, maxBlk, poolBuf, reloadTo, edits>>
netVars    == <<wanting, answers, losses, early>>
diskVars   == <<exists, file, taint>>
uploadVars == <<configVars, netVars, task, clientPhase, peer, diskVars>>

NoTask == [pc |-> "none", client |-> "none", blk |-> 0, buf |-> 0, data |-> "none"]

UploadInit ==
  /\ overwrite \in AllowOverwrite
  /\ maxBlk \in BlkSizes /\ poolBuf = maxBlk /\ reloadTo = 0 /\ edits = 0
  /\ wanting = [c \in Clients |-> 0] /\ answers = {} /\ losses = 0 /\ early = 0
  /\ task = [t \in Tasks |-> NoTask]
  /\ clientPhase = [c \in Clients |-> "idle"] /\ peer = [c \in Clients |-> 0]
  /\ exists = FALSE /\ file = <<>> /\ taint = {}

-----------------------------------------------------------------------------
(***************************************************************************)
(* The server                                                              *)
(***************************************************************************)
Advance(t, phase) == task' = [task EXCEPT ![t].pc = phase]

\* A slip: the check returns without its error packet
MutRefuse(c) ==
  /\ wanting[c] > 0 /\ ~overwrite /\ exists
  /\ wanting' = [wanting EXCEPT ![c] = @ - 1]
  /\ UNCHANGED <<configVars, answers, losses, early, task, clientPhase, peer, diskVars>>

\* spawn_write_session up to its early check: the client gets an error
Refuse(c) ==
  /\ wanting[c] > 0 /\ ~overwrite /\ exists
  /\ wanting' = [wanting EXCEPT ![c] = @ - 1]
  /\ clientPhase' = [clientPhase EXCEPT ![c] = IF @ = "asking" THEN "refused" ELSE @]
  /\ UNCHANGED <<configVars, answers, losses, early, task, peer, diskVars>>

\* ... the rest of it: the block size is negotiated (the client asks for the
\* largest) and the task is spawned
Accept(c, t) ==
  /\ wanting[c] > 0 /\ (overwrite \/ ~exists)
  /\ task[t].pc = "none" /\ (t > 1 => task[t - 1].pc # "none")
  /\ wanting' = [wanting EXCEPT ![c] = @ - 1]
  /\ task' = [task EXCEPT ![t] = [NoTask EXCEPT !.pc = "spawned", !.client = c, !.blk = maxBlk]]
  /\ UNCHANGED <<configVars, answers, losses, early, clientPhase, peer, diskVars>>

\* run_write_session up to its loop: the only first answer, then acquire
Begin(t) ==
  /\ task[t].pc = "spawned"
  /\ task' = [task EXCEPT ![t].pc = "waiting", ![t].buf = poolBuf]
  /\ answers' = answers \cup {t}
  /\ UNCHANGED <<configVars, wanting, losses, early, clientPhase, peer, diskVars>>

\* The loop, to the last ACK.  A DATA packet the buffer does not hold is cut by
\* recv_from, and then shorter than the block size: the end of the transfer.
\* What was received is taken for the file; the client that has sent its only
\* block is done, and one that has more to send is never answered again.
Receive(t, size) ==
  LET c     == task[t].client
      first == IF size < task[t].blk THEN size ELSE task[t].blk
      fits  == first <= task[t].buf
  IN  /\ task[t].pc = "waiting" /\ clientPhase[c] = "sending" /\ peer[c] = t
      /\ task' = [task EXCEPT ![t].pc = "received", ![t].data = IF fits THEN "whole" ELSE "cut"]
      /\ clientPhase' = [clientPhase EXCEPT
                           ![c] = IF fits \/ size < task[t].blk THEN "done" ELSE "failed"]
      /\ UNCHANGED <<configVars, netVars, peer, diskVars>>

\* No client talks to the task: its retries run out
TimeOut(t) ==
  LET c == task[t].client
  IN  /\ task[t].pc = "waiting" /\ ~(clientPhase[c] = "sending" /\ peer[c] = t)
      /\ t \notin answers
      /\ Advance(t, "failed")
      /\ UNCHANGED <<configVars, netVars, clientPhase, peer, diskVars>>

Writing == {t \in Tasks : task[t].pc \in {"open", "half"}}

\* A slip: exists() was checked when the request came, so open may truncate
MutOpen(t) ==
  /\ task[t].pc = "received"
  /\ Advance(t, "open") /\ exists' = TRUE /\ file' = <<>>
  /\ taint' = IF Writing # {} THEN taint \cup {"overlap"} ELSE taint
  /\ UNCHANGED <<configVars, netVars, clientPhase, peer>>

\* A slip: create without truncate
MutOpenKeep(t) ==
  /\ task[t].pc = "received" /\ (overwrite \/ ~exists)
  /\ Advance(t, "open") /\ exists' = TRUE
  /\ taint' = IF Writing # {} THEN taint \cup {"overlap"} ELSE taint
  /\ UNCHANGED <<configVars, netVars, clientPhase, peer, file>>

\* A slip: create_new whatever allow_overwrite is
MutOpenNew(t) ==
  /\ task[t].pc = "received"
  /\ IF exists THEN Advance(t, "failed") /\ UNCHANGED diskVars
     ELSE Advance(t, "open") /\ exists' = TRUE /\ UNCHANGED <<file, taint>>
  /\ UNCHANGED <<configVars, netVars, clientPhase, peer>>

\* OpenOptions: truncate, or create_new, which fails if the path exists
Open(t) ==
  /\ task[t].pc = "received"
  /\ IF overwrite \/ ~exists
     THEN /\ Advance(t, "open") /\ exists' = TRUE /\ file' = <<>>
          /\ taint' = IF Writing # {} THEN taint \cup {"overlap"} ELSE taint
     ELSE Advance(t, "failed") /\ UNCHANGED diskVars
  /\ UNCHANGED <<configVars, netVars, clientPhase, peer>>

\* The path cannot be opened: nothing is created, and nothing truncated
OpenFails(t) ==
  /\ "disk" \in Faults /\ task[t].pc = "received"
  /\ Advance(t, "failed")
  /\ taint' = taint \cup {"open"}
  /\ UNCHANGED <<configVars, netVars, clientPhase, peer, exists, file>>

\* A slip: the file is opened for appending
MutWrite(t) ==
  /\ task[t].pc \in {"open", "half"}
  /\ Advance(t, IF task[t].pc = "open" THEN "half" ELSE "completed")
  /\ file' = Append(file, t)
  /\ UNCHANGED <<configVars, netVars, clientPhase, peer, exists, taint>>

\* write_all: every task has its own offset in the file
Write(t) ==
  LET at == IF task[t].pc = "open" THEN 1 ELSE 2
  IN  /\ task[t].pc \in {"open", "half"}
      /\ Advance(t, IF at = Chunks THEN "completed" ELSE "half")
      /\ file' = [i \in 1 .. (IF Len(file) < at THEN at ELSE Len(file)) |->
                    CASE i = at             -> t
                      [] i # at /\ i <= Len(file) -> file[i]
                      [] OTHER              -> 0]           \* a hole
      /\ UNCHANGED <<configVars, netVars, clientPhase, peer, exists, taint>>

\* The disk is full: what is written stays, under the path
WriteFails(t) ==
  /\ "disk" \in Faults /\ task[t].pc \in {"open", "half"}
  /\ Advance(t, "failed")
  /\ taint' = taint \cup {"disk"}
  /\ UNCHANGED <<configVars, netVars, clientPhase, peer, exists, file>>

-----------------------------------------------------------------------------
(***************************************************************************)
(* Configuration                                                           *)
(***************************************************************************)
Spawned == {t \in Tasks : task[t].pc = "spawned"}

\* A slip: the pool is left as it is
MutReloadPool(blk) ==
  /\ "reload" \in Faults /\ reloadTo = 0 /\ blk # maxBlk
  /\ edits < MaxEdits /\ edits' = edits + 1
  /\ reloadTo' = blk
  /\ UNCHANGED <<overwrite, maxBlk, poolBuf, netVars, task, clientPhase, peer, diskVars>>

\* reload_config: update_buf_size first ...
ReloadPool(blk) ==
  /\ "reload" \in Faults /\ reloadTo = 0 /\ blk # maxBlk
  /\ edits < MaxEdits /\ edits' = edits + 1
  /\ poolBuf' = blk /\ reloadTo' = blk
  /\ taint' = IF blk < maxBlk THEN taint \cup {"shrunk"} ELSE taint
  /\ UNCHANGED <<overwrite, maxBlk, netVars, task, clientPhase, peer, exists, file>>

\* ... then the configuration is stored
ReloadStore ==
  /\ reloadTo # 0
  /\ maxBlk' = reloadTo /\ reloadTo' = 0
  /\ UNCHANGED <<overwrite, poolBuf, edits, netVars, task, clientPhase, peer, diskVars>>

\* An edit in a user interface stores the configuration only
EditStore(blk) ==
  /\ "edit" \in Faults /\ reloadTo = 0 /\ blk # maxBlk
  /\ edits < MaxEdits /\ edits' = edits + 1
  /\ maxBlk' = blk
  /\ taint' = taint \cup {"edited"}
  /\ UNCHANGED <<overwrite, poolBuf, reloadTo, netVars, task, clientPhase, peer, exists, file>>

-----------------------------------------------------------------------------
(***************************************************************************)
(* The network and the clients (external)                                  *)
(***************************************************************************)
Ask(c) ==
  /\ clientPhase[c] = "idle"
  /\ clientPhase' = [clientPhase EXCEPT ![c] = "asking"]
  /\ wanting' = [wanting EXCEPT ![c] = 1]
  /\ UNCHANGED <<configVars, answers, losses, early, task, peer, diskVars>>

\* Something of the client's is still under way to it or for it
UnderWay(c) ==
  \/ wanting[c] > 0
  \/ \E t \in Tasks : task[t].client = c /\ (task[t].pc = "spawned" \/ t \in answers)

\* A client that hears nothing repeats its request, sometimes too early
Repeat(c) ==
  /\ clientPhase[c] = "asking"
  /\ UnderWay(c) => early < MaxEarly
  /\ early' = IF UnderWay(c) THEN early + 1 ELSE early
  /\ wanting' = [wanting EXCEPT ![c] = @ + 1]
  /\ UNCHANGED <<configVars, answers, losses, task, clientPhase, peer, diskVars>>

\* The client stays with the task whose answer comes first and answers
\* another one's with an error
Answered(t) ==
  LET c == task[t].client
  IN  /\ t \in answers
      /\ answers' = answers \ {t}
      /\ IF clientPhase[c] = "asking"
         THEN /\ clientPhase' = [clientPhase EXCEPT ![c] = "sending"]
              /\ peer' = [peer EXCEPT ![c] = t]
              /\ UNCHANGED task
         ELSE /\ task' = [task EXCEPT ![t].pc = "failed"]
              /\ UNCHANGED <<clientPhase, peer>>
      /\ UNCHANGED <<configVars, wanting, losses, early, diskVars>>

LoseRequest(c) ==
  /\ losses < MaxLosses /\ wanting[c] > 0
  /\ wanting' = [wanting EXCEPT ![c] = @ - 1] /\ losses' = losses + 1
  /\ UNCHANGED <<configVars, answers, early, task, clientPhase, peer, diskVars>>

LoseAnswer(t) ==
  /\ losses < MaxLosses /\ t \in answers
  /\ answers' = answers \ {t} /\ losses' = losses + 1
  /\ UNCHANGED <<configVars, wanting, early, task, clientPhase, peer, diskVars>>

-----------------------------------------------------------------------------
TaskStep(t) ==
  \/ Begin(t) \/ TimeOut(t) \/ Open(t) \/ Write(t)
  \/ \E size \in FileSizes : Receive(t, size)

RequestStep(c) == Refuse(c) \/ \E t \in Tasks : Accept(c, t)

UploadNext ==
  \/ \E t \in Tasks : TaskStep(t) \/ OpenFails(t) \/ WriteFails(t) \/ Answered(t) \/ LoseAnswer(t)
  \/ \E c \in Clients : RequestStep(c) \/ Ask(c) \/ Repeat(c) \/ LoseRequest(c)
  \/ \E blk \in BlkSizes : ReloadPool(blk) \/ EditStore(blk)
  \/ ReloadStore

UploadSpec == UploadInit /\ [][UploadNext]_uploadVars

ServerStep == (\E t \in Tasks : TaskStep(t)) \/ \E c \in Clients : RequestStep(c)

PeerStep == \/ \E t \in Tasks : Answered(t)
            \/ \E c \in Clients : ~UnderWay(c) /\ Repeat(c)

\* The main loop and the tasks go on, datagrams that are not lost arrive, and
\* a client that waits repeats its request.  Nothing here goes on for ever, so
\* fairness of the whole is fairness of every task.
FairUploadSpec ==
  UploadSpec /\ WF_uploadVars(ServerStep) /\ WF_uploadVars(PeerStep)

-----------------------------------------------------------------------------
UploadTypeOK ==
  /\ overwrite \in BOOLEAN /\ maxBlk \in BlkSizes /\ poolBuf \in BlkSizes
  /\ reloadTo \in BlkSizes \cup {0} /\ edits <= MaxEdits
  /\ answers \subseteq Tasks
  /\ \A t \in Tasks :
       /\ task[t].pc \in {"none", "spawned", "waiting", "received", "open", "half",
                          "completed", "failed"}
       /\ task[t].pc # "none" => task[t].client \in Clients
       /\ task[t].data \in {"none", "whole", "cut"}
  /\ \A c \in Clients :
       /\ clientPhase[c] \in {"idle", "asking", "sending", "refused", "done", "failed"}
       /\ peer[c] \in Tasks \cup {0}
  /\ exists \in BOOLEAN /\ Len(file) <= Chunks /\ \A i \in DOMAIN file : file[i] \in Tasks \cup {0}

\* Since the server started no block size was stored without the pool, and none
\* made smaller: the two ways to a buffer that is smaller than a block.
Untouched == taint \cap {"edited", "shrunk"} = {}

\* What lies under the path is one upload, never the pieces of two: with
\* create_new always, which lets one task through, with truncation unless two
\* tasks were writing at once.  When no task is writing all that was received
\* is there, unless a write failed; and what was received is all that was
\* sent, unless a buffer was smaller than a block.
OneUpload ==
  /\ "overlap" \in taint => overwrite
  /\ "overlap" \notin taint =>
       /\ \A i, j \in DOMAIN file : file[i] = file[j]
       /\ Writing = {} /\ exists /\ "disk" \notin taint => Len(file) = Chunks
  /\ Untouched => \A i \in DOMAIN file : file[i] # 0 => task[file[i]].data # "cut"

\* A complete file is not touched by anything but an upload that has sent its
\* last ACK and may overwrite: not by a request that comes late or twice, by a
\* transfer that fails, or by an upload another one has overtaken.
CompleteFileStays ==
  [][Len(file) = Chunks /\ file' # file
       => /\ overwrite
          /\ \E t \in Tasks : task[t].pc \in {"received", "open", "half"} /\ task'[t] # task[t]
    ]_uploadVars

\* The receive buffer of an upload holds a DATA packet of the negotiated size,
\* unless an interface stored another block size without the pool, or a
\* reload made it smaller: a reload that makes it larger cuts no transfer.
BufferHoldsBlock ==
  Untouched =>
    \A t \in Tasks : task[t].pc \notin {"none", "spawned"} => task[t].blk <= task[t].buf

\* A client that got its last ACK finds its file, unless another upload got
\* there first or the disk failed: the ACK is sent before the file is opened.
\* It finds all of it, unless a buffer was smaller than a block.
AckedIsWritten ==
  \A c \in Clients : clientPhase[c] = "done" =>
    /\ task[peer[c]].pc = "failed" =>
         \/ taint \cap {"disk", "open"} # {}
         \/ ~overwrite /\ \E t \in Tasks : t # peer[c] /\ task[t].pc \in {"open", "half", "completed"}
    /\ task[peer[c]].data = "cut" => ~Untouched

\* Lost requests and lost answers, which the server does not repeat, are made
\* up for by the client's repetitions: in the end no client is left asking,
\* as long as the server takes requests.
ClientsGetThrough ==
  <>[](\A c \in Clients : clientPhase[c] = "asking" => \A t \in Tasks : task[t].pc # "none")

\* No task waits for ever: also one whose first answer was lost, or that the
\* client does not talk to, ends.
TasksEnd == <>[](\A t \in Tasks : task[t].pc \in {"none", "completed", "failed"})

\* Nobody is left waiting, on either side.
EveryoneGetsThrough == ClientsGetThrough /\ TasksEnd
=============================================================================
