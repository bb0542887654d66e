---------------------------- MODULE UploadsProofs ----------------------------
(***************************************************************************)
(* However many clients upload one path, in however many tasks: what lies  *)
(* under the path in the end is one upload, a complete file is only        *)
(* replaced where that is allowed, and the last acknowledgement is only    *)
(* broken by a full disk or by an upload that got there first.             *)
(***************************************************************************)
EXTENDS Uploads, SequenceTheorems, TLAPS

Phases   == {"none", "spawned", "waiting", "received", "open", "half", "completed", "failed"}
Sizes    == BlkSizes \cup {0}
Owners   == Tasks \cup {0}
TaskRecs == [pc : Phases, client : Clients \cup {"none"}, blk : Sizes, buf : Sizes,
             data : {"none", "whole", "cut"}]

ConfigType ==
  /\ overwrite \in BOOLEAN /\ maxBlk \in BlkSizes /\ poolBuf \in BlkSizes
  /\ reloadTo \in Sizes /\ edits \in Nat /\ edits <= MaxEdits

TaskType ==
  /\ task \in [Tasks -> TaskRecs]
  /\ \A t \in Tasks : task[t].pc # "none" => task[t].client \in Clients

ClientType ==
  /\ answers \subseteq Tasks
  /\ clientPhase \in [Clients -> {"idle", "asking", "sending", "refused", "done", "failed"}]
  /\ peer \in [Clients -> Owners]

DiskType == exists \in BOOLEAN /\ file \in Seq(Owners) /\ Len(file) \in 0 .. Chunks

Types == ConfigType /\ TaskType /\ ClientType /\ DiskType

-----------------------------------------------------------------------------
\* A task that writes has created the file, and what it has written is all
\* that is there, unless somebody else writes too
OwnPieces ==
  /\ Writing # {} => exists
  /\ ~exists => file = <<>>
  /\ "overlap" \in taint => overwrite
  /\ "overlap" \notin taint =>
       /\ \A t, u \in Writing : t = u
       /\ \A t \in Tasks : /\ task[t].pc = "open" => file = <<>>
                           /\ task[t].pc = "half" => file = <<t>>
       /\ \A i, j \in DOMAIN file : file[i] = file[j]
       /\ Writing = {} /\ exists /\ "disk" \notin taint => Len(file) = Chunks

\* Without an edit or a smaller block size nothing that was negotiated is
\* larger than what is stored, and that not larger than the buffers
BuffersGrow ==
  Untouched =>
    /\ reloadTo = 0 => maxBlk <= poolBuf
    /\ reloadTo # 0 => maxBlk <= reloadTo /\ reloadTo = poolBuf
    /\ \A t \in Tasks : /\ task[t].pc # "none" => task[t].blk <= maxBlk
                        /\ task[t].pc \notin {"none", "spawned"} => task[t].blk <= task[t].buf

\* Data is only cut by a buffer that is smaller than the block
CutsAreSmall == \A t \in Tasks : task[t].data = "cut" => task[t].buf < task[t].blk

\* ... which is a buffer that was acquired
Acquired == \A t \in Tasks : task[t].data = "cut" => task[t].pc \notin {"none", "spawned"}

\* What a client that is done is told of its task's end
AckKept ==
  \A c \in Clients : clientPhase[c] = "done" /\ task[peer[c]].pc = "failed"
    => \/ taint \cap {"disk", "open"} # {}
       \/ ~overwrite /\ \E t \in Tasks : t # peer[c] /\ task[t].pc \in {"open", "half", "completed"}

\* The client and the task it talks to belong together
Partners ==
  /\ \A t \in answers : task[t].pc = "waiting" /\ \A c \in Clients : peer[c] # t
  /\ \A c \in Clients :
       /\ peer[c] # 0 => /\ task[peer[c]].client = c
                         /\ task[peer[c]].pc \notin {"none", "spawned"}
       /\ clientPhase[c] \in {"sending", "done", "failed"} => peer[c] # 0
       /\ clientPhase[c] = "done" => task[peer[c]].pc # "waiting"

\* What exists was written by a task that has not failed, if the disk is sound
Written == {t \in Tasks : task[t].pc \in {"open", "half", "completed"}}

Origin == exists /\ "disk" \notin taint => Written # {}

IInv ==
  /\ Types /\ OwnPieces /\ BuffersGrow /\ CutsAreSmall /\ Acquired
  /\ Partners /\ Origin /\ AckKept

-----------------------------------------------------------------------------
LEMMA Constants ==
  /\ MaxTasks \in Nat /\ Tasks \subseteq Nat /\ 0 \notin Tasks
  /\ BlkSizes \subseteq Nat /\ MaxEdits \in Nat /\ Chunks = 2
  BY UploadAssumption DEF Tasks, Chunks

LEMMA TaskFields ==
  ASSUME Types, NEW t \in Tasks
  PROVE  task[t].pc \in Phases /\ task[t].blk \in Nat /\ task[t].buf \in Nat
<1>1. task[t] \in TaskRecs
  BY DEF Types, TaskType
<1>2. Sizes \subseteq Nat
  BY Constants DEF Sizes
<1> QED BY <1>1, <1>2 DEF TaskRecs

\* A transfer of a file of whatever size
Receives(t) == \E size \in FileSizes : Receive(t, size)

LEMMA TaskSteps ==
  ASSUME NEW t \in Tasks
  PROVE  TaskStep(t) <=> Begin(t) \/ Receives(t) \/ TimeOut(t) \/ Open(t) \/ Write(t)
  BY DEF TaskStep, Receives

LEMMA ReceiveSteps ==
  ASSUME Types, NEW t \in Tasks, Receives(t)
  PROVE  /\ task[t].pc = "waiting" /\ clientPhase[task[t].client] = "sending"
         /\ peer[task[t].client] = t
         /\ UNCHANGED <<configVars, netVars, peer, diskVars>>
         /\ \E data \in {"whole", "cut"}, phase \in {"done", "failed"} :
              /\ task' = [task EXCEPT ![t].pc = "received", ![t].data = data]
              /\ clientPhase' = [clientPhase EXCEPT ![task[t].client] = phase]
              /\ data = "cut" => task[t].buf < task[t].blk
<1>1. PICK size \in FileSizes : Receive(t, size)
  BY DEF Receives
<1> DEFINE first == IF size < task[t].blk THEN size ELSE task[t].blk
           fits  == first <= task[t].buf
           data  == IF fits THEN "whole" ELSE "cut"
           phase == IF fits \/ size < task[t].blk THEN "done" ELSE "failed"
<1>2. ~fits => task[t].buf < task[t].blk
  <2>1. size \in Nat /\ task[t].blk \in Nat /\ task[t].buf \in Nat
    BY UploadAssumption, TaskFields
  <2> QED BY <2>1
<1>3. /\ task' = [task EXCEPT ![t].pc = "received", ![t].data = data]
      /\ clientPhase' = [clientPhase EXCEPT ![task[t].client] = phase]
  BY <1>1 DEF Receive
<1>4. data \in {"whole", "cut"} /\ phase \in {"done", "failed"} /\ (data = "cut" => ~fits)
  OBVIOUS
<1> HIDE DEF first, fits, data, phase
<1> QED BY <1>1, <1>2, <1>3, <1>4 DEF Receive

LEMMA ReceiveMoves ==
  ASSUME Types, NEW t \in Tasks, Receives(t)
  PROVE  \A u \in Tasks : task'[u].pc = IF u = t THEN "received" ELSE task[u].pc
<1>1. PICK data \in {"whole", "cut"}, phase \in {"done", "failed"} :
        /\ task' = [task EXCEPT ![t].pc = "received", ![t].data = data]
        /\ clientPhase' = [clientPhase EXCEPT ![task[t].client] = phase]
        /\ data = "cut" => task[t].buf < task[t].blk
  BY ReceiveSteps
<1> QED BY <1>1 DEF Types, TaskType, TaskRecs

LEMMA InitInv == UploadInit => IInv
<1> SUFFICES ASSUME UploadInit PROVE IInv
  OBVIOUS
<1> USE Constants DEF UploadInit
<1>1. Types
  <2>1. ConfigType
    BY UploadAssumption DEF ConfigType, Sizes
  <2>2. TaskType
    <3>1. NoTask \in TaskRecs
      BY DEF NoTask, TaskRecs, Phases, Sizes
    <3>2. NoTask.pc = "none"
      BY DEF NoTask
    <3> QED BY <3>1, <3>2 DEF TaskType
  <2>3. ClientType
    BY DEF ClientType, Owners
  <2>4. DiskType
    <3>1. <<>> \in Seq(Owners) /\ Len(<<>>) \in 0 .. Chunks
      BY EmptySeq
    <3> QED BY <3>1 DEF DiskType
  <2> QED BY <2>1, <2>2, <2>3, <2>4 DEF Types
<1>2. OwnPieces
  BY DEF OwnPieces, Writing, NoTask
<1>3. BuffersGrow
  BY DEF BuffersGrow, Untouched, NoTask
<1>4. CutsAreSmall /\ Acquired /\ Partners /\ Origin /\ AckKept
  BY DEF CutsAreSmall, Acquired, Partners, Origin, AckKept, NoTask
<1> QED BY <1>1, <1>2, <1>3, <1>4 DEF IInv

\* The two writes of a task
LEMMA WriteSteps ==
  ASSUME Types, NEW t \in Tasks, Write(t)
  PROVE  /\ exists' = exists /\ taint' = taint /\ overwrite' = overwrite
         /\ file' \in Seq(Owners) /\ Len(file') \in 0 .. Chunks
         /\ \/ /\ task[t].pc = "open" /\ Advance(t, "half")
               /\ file = <<>> => file' = <<t>>
            \/ /\ task[t].pc = "half" /\ Advance(t, "completed")
               /\ Len(file') = Chunks
               /\ file = <<t>> => \A i \in DOMAIN file' : file'[i] = t
<1> USE Constants
<1>1. exists' = exists /\ taint' = taint /\ overwrite' = overwrite
  BY DEF Write, configVars
<1>2. PICK len \in 0 .. 2 : Len(file) = len
  BY DEF Types, DiskType
<1>3. ASSUME NEW at \in {1, 2}, at = IF task[t].pc = "open" THEN 1 ELSE 2
      PROVE  /\ file' \in Seq(Owners) /\ Len(file') \in {1, 2}
             /\ at = 1 /\ len = 0 => file' = <<t>>
             /\ at = 2 => Len(file') = 2
             /\ at = 2 /\ file = <<t>> => \A i \in DOMAIN file' : file'[i] = t
  <2> DEFINE n == IF len < at THEN at ELSE len
  <2>1. /\ file' = [i \in 1 .. n |-> file'[i]]
        /\ \A i \in 1 .. n : /\ i = at => file'[i] = t
                             /\ i # at /\ i <= len => file'[i] = file[i]
                             /\ i # at /\ ~(i <= len) => file'[i] = 0
    BY <1>2, <1>3 DEF Write
  <2>2. file \in Seq(Owners)
    BY DEF Types, DiskType
  <2> HIDE DEF n
  <2>3. n = IF len < at THEN at ELSE len
    BY DEF n
  <2>4. n \in {1, 2} /\ (at = 2 => n = 2) /\ (at = 1 /\ len = 0 => n = 1)
    BY <2>3
  <2>5. \A i \in 1 .. n : file'[i] \in Owners
    <3> SUFFICES ASSUME NEW i \in 1 .. n PROVE file'[i] \in Owners
      OBVIOUS
    <3>1. CASE i = at
      BY <2>1, <3>1 DEF Owners
    <3>2. CASE i # at /\ i <= len
      <4>1. i \in 1 .. Len(file)
        BY <1>2, <2>4, <3>2
      <4>2. file[i] \in Owners
        BY <2>2, <4>1, ElementOfSeq
      <4> QED BY <2>1, <3>2, <4>2
    <3>3. CASE i # at /\ ~(i <= len)
      <4>1. file'[i] = 0
        BY <2>1, <3>3
      <4> QED BY <4>1 DEF Owners
    <3> QED BY <3>1, <3>2, <3>3
  <2>6. file' \in [1 .. n -> Owners]
    BY <2>1, <2>5
  <2>7. file' \in Seq(Owners) /\ Len(file') = n /\ DOMAIN file' = 1 .. n
    <3>1. file' \in Seq(Owners)
      BY <2>4, <2>6, SeqDef
    <3> QED BY <2>4, <2>6, <3>1, LenProperties
  <2>8. ASSUME at = 1, len = 0 PROVE file' = <<t>>
    <3>1. n = 1 /\ file'[1] = t
      BY <2>1, <2>4, <2>8
    <3> QED BY <2>7, <3>1
  <2>9. ASSUME at = 2, file = <<t>> PROVE \A i \in DOMAIN file' : file'[i] = t
    <3>1. n = 2 /\ len = 1 /\ file[1] = t
      BY <1>2, <2>4, <2>9
    <3>2. file'[1] = t /\ file'[2] = t
      BY <2>1, <2>9, <3>1
    <3> QED BY <2>7, <3>1, <3>2
  <2> QED BY <2>4, <2>7, <2>8, <2>9
<1>4. CASE task[t].pc = "open"
  <2>1. Advance(t, "half")
    BY <1>4 DEF Write
  <2>2. file = <<>> => len = 0
    BY <1>2, EmptySeq
  <2> QED BY <1>1, <1>3, <1>4, <2>1, <2>2
<1>5. CASE task[t].pc = "half"
  <2>1. Advance(t, "completed")
    BY <1>5 DEF Write
  <2> QED BY <1>1, <1>3, <1>5, <2>1
<1> QED BY <1>4, <1>5 DEF Write

-----------------------------------------------------------------------------
(***************************************************************************)
(* Types                                                                   *)
(***************************************************************************)

LEMMA TypesStep == Types /\ Partners /\ [UploadNext]_uploadVars => Types'
<1> SUFFICES ASSUME Types, Partners, [UploadNext]_uploadVars PROVE Types'
  OBVIOUS
<1> USE Constants DEF configVars, netVars, diskVars
<1>1. ConfigType'
  <2>1. CASE UNCHANGED configVars
    BY <2>1 DEF Types, ConfigType
  <2>2. ASSUME NEW blk \in BlkSizes, ReloadPool(blk) \/ EditStore(blk) PROVE ConfigType'
    BY <2>2 DEF Types, ConfigType, Sizes, ReloadPool, EditStore
  <2>3. CASE ReloadStore
    BY <2>3 DEF Types, ConfigType, Sizes, ReloadStore
  <2>4. ASSUME NEW t \in Tasks, Receives(t) PROVE UNCHANGED configVars
    BY <2>4, ReceiveSteps
  <2> QED
    BY <2>1, <2>2, <2>3, <2>4, TaskSteps
    DEF UploadNext, RequestStep, Begin, TimeOut, Open, Write, OpenFails, WriteFails,
        Refuse, Accept, Ask, Repeat, Answered, LoseRequest, LoseAnswer, uploadVars
<1>2. TaskType'
  <2>0. task \in [Tasks -> TaskRecs] /\ \A t \in Tasks : task[t].pc # "none" => task[t].client \in Clients
    BY DEF Types, TaskType
  <2>1. CASE UNCHANGED task
    BY <2>0, <2>1 DEF TaskType
  <2>2. ASSUME NEW c \in Clients, NEW t \in Tasks, Accept(c, t) PROVE TaskType'
    <3>1. [NoTask EXCEPT !.pc = "spawned", !.client = c, !.blk = maxBlk] \in TaskRecs
      BY DEF NoTask, Types, ConfigType, TaskRecs, Phases, Sizes
    <3>2. [NoTask EXCEPT !.pc = "spawned", !.client = c, !.blk = maxBlk].client = c
      BY DEF NoTask
    <3> QED BY <2>0, <2>2, <3>1, <3>2 DEF Accept, TaskType
  <2>3. ASSUME NEW t \in Tasks, Begin(t) PROVE TaskType'
    <3>1. poolBuf \in Sizes /\ task[t].client \in Clients
      BY <2>0, <2>3 DEF Types, ConfigType, Sizes, Begin
    <3> QED BY ZenonT(40), <2>0, <2>3, <3>1 DEF Begin, TaskType, TaskRecs, Phases
  <2>4. ASSUME NEW t \in Tasks, NEW phase \in Phases, task[t].pc # "none", Advance(t, phase)
        PROVE  TaskType'
    BY <2>0, <2>4 DEF Advance, TaskType, TaskRecs
  <2>5. ASSUME NEW t \in Tasks, Answered(t) PROVE TaskType'
    <3>1. CASE UNCHANGED task
      BY <2>1, <3>1
    <3>2. CASE task' = [task EXCEPT ![t].pc = "failed"]
      <4>1. task[t].pc # "none"
        BY <2>5 DEF Partners, Answered
      <4> QED BY <2>4, <3>2, <4>1 DEF Advance, Phases
    <3> QED BY <2>5, <3>1, <3>2 DEF Answered
  <2>6. ASSUME NEW t \in Tasks, Receives(t) PROVE TaskType'
    <3>1. PICK data \in {"whole", "cut"}, phase \in {"done", "failed"} :
            /\ task' = [task EXCEPT ![t].pc = "received", ![t].data = data]
            /\ clientPhase' = [clientPhase EXCEPT ![task[t].client] = phase]
            /\ data = "cut" => task[t].buf < task[t].blk
      BY <2>6, ReceiveSteps
    <3>2. task[t].client \in Clients
      BY <2>0, <2>6, ReceiveSteps
    <3> QED BY ZenonT(40), <2>0, <3>1, <3>2 DEF TaskType, TaskRecs, Phases
  <2> QED
    BY <2>1, <2>2, <2>3, <2>4, <2>5, <2>6, TaskSteps
    DEF UploadNext, RequestStep, TimeOut, Open, Write, OpenFails, WriteFails, Phases,
        Refuse, Ask, Repeat, LoseRequest, LoseAnswer, ReloadPool, EditStore, ReloadStore,
        uploadVars
<1>3. ClientType'
  <2>1. CASE UNCHANGED <<answers, clientPhase, peer>>
    BY <2>1 DEF Types, ClientType
  <2>2. ASSUME NEW t \in Tasks, Begin(t) \/ Answered(t) \/ LoseAnswer(t) PROVE ClientType'
    <3>1. answers' \subseteq Tasks
      BY <2>2 DEF Types, ClientType, Begin, Answered, LoseAnswer
    <3>2. CASE UNCHANGED <<clientPhase, peer>>
      BY <3>1, <3>2 DEF Types, ClientType
    <3>3. ASSUME NEW c, clientPhase' = [clientPhase EXCEPT ![c] = "sending"],
                 peer' = [peer EXCEPT ![c] = t]
          PROVE  ClientType'
      BY <3>1, <3>3 DEF Types, ClientType, Owners
    <3> QED BY <2>2, <3>2, <3>3 DEF Begin, Answered, LoseAnswer
  <2>3. ASSUME NEW t \in Tasks, Receives(t) PROVE ClientType'
    <3>1. PICK data \in {"whole", "cut"}, phase \in {"done", "failed"} :
            /\ task' = [task EXCEPT ![t].pc = "received", ![t].data = data]
            /\ clientPhase' = [clientPhase EXCEPT ![task[t].client] = phase]
            /\ data = "cut" => task[t].buf < task[t].blk
      BY <2>3, ReceiveSteps
    <3>2. UNCHANGED <<netVars, peer>>
      BY <2>3, ReceiveSteps
    <3> QED BY <3>1, <3>2 DEF Types, ClientType
  <2>4. ASSUME NEW c \in Clients, Refuse(c) \/ Ask(c) PROVE ClientType'
    BY <2>4 DEF Types, ClientType, Refuse, Ask
  <2> QED
    BY <2>1, <2>2, <2>3, <2>4, TaskSteps
    DEF UploadNext, RequestStep, TimeOut, Open, Write, OpenFails, WriteFails, Accept, Repeat,
        LoseRequest, ReloadPool, EditStore, ReloadStore, uploadVars
<1>4. DiskType'
  <2>1. CASE UNCHANGED <<exists, file>>
    BY <2>1 DEF Types, DiskType
  <2>2. ASSUME NEW t \in Tasks, Open(t) PROVE DiskType'
    <3>1. <<>> \in Seq(Owners) /\ Len(<<>>) \in 0 .. Chunks
      BY EmptySeq
    <3> QED BY <2>2, <3>1 DEF Types, DiskType, Open, Advance
  <2>3. ASSUME NEW t \in Tasks, Write(t) PROVE DiskType'
    BY <2>3, WriteSteps DEF Types, DiskType
  <2>4. ASSUME NEW t \in Tasks, Receives(t) PROVE UNCHANGED <<exists, file>>
    BY <2>4, ReceiveSteps
  <2> QED
    BY <2>1, <2>2, <2>3, <2>4, TaskSteps
    DEF UploadNext, RequestStep, Begin, TimeOut, OpenFails, WriteFails, Refuse, Accept,
        Ask, Repeat, Answered, LoseRequest, LoseAnswer, ReloadPool, EditStore, ReloadStore,
        uploadVars
<1> QED BY <1>1, <1>2, <1>3, <1>4 DEF Types

-----------------------------------------------------------------------------
(***************************************************************************)
(* What lies under the path                                                *)
(***************************************************************************)

\* A step of none of the writers
DiskAlone ==
  /\ exists' = exists /\ file' = file /\ overwrite' = overwrite
  /\ \A t \in Tasks : \/ task'[t].pc = task[t].pc
                      \/ {task[t].pc, task'[t].pc} \cap {"open", "half", "completed"} = {}
  /\ \A mark \in {"overlap", "disk"} : mark \in taint' <=> mark \in taint

LEMMA WhoWrites ==
  ASSUME Types, Partners, [UploadNext]_uploadVars
  PROVE  DiskAlone \/ \E t \in Tasks : Open(t) \/ Write(t) \/ WriteFails(t)
<1> USE DEF Types, TaskType, DiskAlone, configVars, netVars, diskVars
<1>1. ASSUME NEW t \in Tasks, Begin(t) \/ TimeOut(t) \/ OpenFails(t) PROVE DiskAlone
  BY <1>1 DEF Begin, TimeOut, OpenFails, Advance
<1>2. ASSUME NEW t \in Tasks, Answered(t) \/ LoseAnswer(t) PROVE DiskAlone
  BY <1>2 DEF Answered, LoseAnswer, Partners
<1>3. ASSUME NEW c \in Clients, NEW t \in Tasks, Accept(c, t) PROVE DiskAlone
  BY <1>3 DEF Accept
<1>4. ASSUME NEW c \in Clients, Refuse(c) \/ Ask(c) \/ Repeat(c) \/ LoseRequest(c) PROVE DiskAlone
  BY <1>4 DEF Refuse, Ask, Repeat, LoseRequest
<1>5. ASSUME NEW blk \in BlkSizes, ReloadPool(blk) \/ EditStore(blk) \/ ReloadStore
      PROVE  DiskAlone
  BY <1>5 DEF ReloadPool, EditStore, ReloadStore
<1>6. ASSUME UNCHANGED uploadVars PROVE DiskAlone
  BY <1>6 DEF uploadVars
<1>7. ASSUME NEW t \in Tasks, Receives(t) PROVE DiskAlone
  <2>1. UNCHANGED <<exists, file, overwrite, taint>>
    BY <1>7, ReceiveSteps
  <2>2. \A u \in Tasks : task'[u].pc = IF u = t THEN "received" ELSE task[u].pc
    BY <1>7, ReceiveMoves
  <2>3. task[t].pc = "waiting"
    BY <1>7, ReceiveSteps
  <2> QED BY <2>1, <2>2, <2>3
<1> HIDE DEF Types, TaskType, DiskAlone
<1> QED
  BY <1>1, <1>2, <1>3, <1>4, <1>5, <1>6, <1>7, TaskSteps, UploadAssumption
  DEF UploadNext, RequestStep

LEMMA PiecesStep ==
  ASSUME Types, Partners, OwnPieces, Origin, [UploadNext]_uploadVars
  PROVE  OwnPieces' /\ Origin'
<1> USE Constants
<1>1. CASE DiskAlone
  <2>1. Writing' = Writing /\ Written' = Written
    BY <1>1 DEF DiskAlone, Writing, Written
  <2> QED BY <1>1, <2>1 DEF DiskAlone, OwnPieces, Origin
<1>2. ASSUME NEW t \in Tasks, Open(t) PROVE OwnPieces' /\ Origin'
  <2>1. CASE ~(overwrite \/ ~exists)
    <3>1. /\ task[t].pc = "received" /\ task' = [task EXCEPT ![t].pc = "failed"]
          /\ UNCHANGED <<exists, file, taint, overwrite>>
      BY <1>2, <2>1 DEF Open, Advance, diskVars, configVars
    <3>2. \A u \in Tasks : \/ task'[u].pc = task[u].pc
                           \/ task[u].pc = "received" /\ task'[u].pc = "failed"
      BY <3>1 DEF Types, TaskType
    <3>3. Writing' = Writing /\ Written' = Written
      BY <3>2 DEF Writing, Written
    <3> QED BY <3>1, <3>2, <3>3 DEF OwnPieces, Origin
  <2>2. CASE overwrite \/ ~exists
    <3>1. /\ exists' = TRUE /\ file' = <<>> /\ overwrite' = overwrite
          /\ taint' = IF Writing # {} THEN taint \cup {"overlap"} ELSE taint
          /\ task' = [task EXCEPT ![t].pc = "open"]
      BY <1>2, <2>2 DEF Open, Advance, configVars
    <3>2. Writing' = Writing \cup {t} /\ t \in Written'
      BY <3>1 DEF Writing, Written, Types, TaskType
    <3>3. "overlap" \in taint' => overwrite'
      BY <2>2, <3>1 DEF OwnPieces
    <3>4. ASSUME "overlap" \notin taint' PROVE Writing = {}
      BY <3>1, <3>4
    <3>5. ASSUME "overlap" \notin taint', NEW u \in Tasks
          PROVE  task'[u].pc = "open" => file' = <<>>
      BY <3>1
    <3>6. ASSUME "overlap" \notin taint', NEW u \in Tasks PROVE task'[u].pc # "half"
      BY <3>1, <3>4, <3>6 DEF Writing, Types, TaskType
    <3>7. DOMAIN file' = {}
      BY <3>1, EmptySeq
    <3> QED BY <3>1, <3>2, <3>3, <3>4, <3>5, <3>6, <3>7 DEF OwnPieces, Origin
  <2> QED BY <2>1, <2>2
<1>3. ASSUME NEW t \in Tasks, Write(t) PROVE OwnPieces' /\ Origin'
  <2>1. /\ exists' = exists /\ taint' = taint /\ overwrite' = overwrite
        /\ t \in Writing /\ exists
    BY <1>3, WriteSteps DEF Writing, OwnPieces
  <2>2. CASE task[t].pc = "open" /\ Advance(t, "half") /\ (file = <<>> => file' = <<t>>)
    <3>1. Writing' = Writing /\ Written' = Written
      BY <2>2 DEF Advance, Writing, Written, Types, TaskType
    <3>2. ASSUME "overlap" \notin taint PROVE file' = <<t>> /\ \A u \in Writing : u = t
      BY <2>1, <2>2, <3>2 DEF OwnPieces
    <3>3. ASSUME "overlap" \notin taint, NEW u \in Tasks
          PROVE  /\ task'[u].pc # "open"
                 /\ task'[u].pc = "half" => u = t
      BY <2>2, <3>1, <3>2, <3>3 DEF Advance, Writing, Types, TaskType
    <3>4. ASSUME "overlap" \notin taint PROVE \A i, j \in DOMAIN file' : file'[i] = file'[j]
      BY <3>2, <3>4
    <3> QED BY <2>1, <3>1, <3>2, <3>3, <3>4 DEF OwnPieces, Origin
  <2>3. CASE /\ task[t].pc = "half" /\ Advance(t, "completed") /\ Len(file') = Chunks
             /\ file = <<t>> => \A i \in DOMAIN file' : file'[i] = t
    <3>1. Writing' = Writing \ {t} /\ Written' = Written
      BY <2>3 DEF Advance, Writing, Written, Types, TaskType
    <3>2. ASSUME "overlap" \notin taint PROVE Writing = {t} /\ \A i \in DOMAIN file' : file'[i] = t
      BY <2>1, <2>3, <3>2 DEF OwnPieces
    <3>3. ASSUME "overlap" \notin taint, NEW u \in Tasks
          PROVE  task'[u].pc \notin {"open", "half"}
      BY <2>3, <3>1, <3>2, <3>3 DEF Writing
    <3> QED BY <2>1, <2>3, <3>1, <3>2, <3>3 DEF OwnPieces, Origin
  <2> QED BY <1>3, <2>2, <2>3, WriteSteps
<1>4. ASSUME NEW t \in Tasks, WriteFails(t) PROVE OwnPieces' /\ Origin'
  <2>1. /\ exists' = exists /\ file' = file /\ overwrite' = overwrite
        /\ taint' = taint \cup {"disk"} /\ task' = [task EXCEPT ![t].pc = "failed"]
    BY <1>4 DEF WriteFails, Advance, configVars
  <2>2. Writing' = Writing \ {t}
    BY <2>1 DEF Writing, Types, TaskType
  <2>3. \A u \in Tasks : task'[u].pc \in {"open", "half"} => task'[u].pc = task[u].pc
    BY <2>1 DEF Types, TaskType
  <2> QED BY <2>1, <2>2, <2>3 DEF OwnPieces, Origin
<1> QED BY <1>1, <1>2, <1>3, <1>4, WhoWrites

-----------------------------------------------------------------------------
(***************************************************************************)
(* Buffers                                                                 *)
(***************************************************************************)

\* A step that leaves the sizes of all tasks and of the configuration alone
SizesAlone ==
  /\ UNCHANGED <<maxBlk, poolBuf, reloadTo>>
  /\ \A t \in Tasks : /\ task'[t].blk = task[t].blk /\ task'[t].buf = task[t].buf
                      /\ (task'[t].pc = "none") <=> (task[t].pc = "none")
                      /\ (task'[t].pc = "spawned") <=> (task[t].pc = "spawned")
  /\ taint \subseteq taint'

LEMMA ReceiveKeepsSizes ==
  ASSUME Types, NEW t \in Tasks, Receives(t)
  PROVE  SizesAlone
<1>1. PICK data \in {"whole", "cut"}, phase \in {"done", "failed"} :
        /\ task' = [task EXCEPT ![t].pc = "received", ![t].data = data]
        /\ clientPhase' = [clientPhase EXCEPT ![task[t].client] = phase]
        /\ data = "cut" => task[t].buf < task[t].blk
  BY ReceiveSteps
<1>2. task[t].pc = "waiting" /\ UNCHANGED <<configVars, diskVars>>
  BY ReceiveSteps
<1> QED BY <1>1, <1>2 DEF SizesAlone, configVars, diskVars, Types, TaskType, TaskRecs

LEMMA BuffersStep ==
  ASSUME Types, Partners, BuffersGrow, [UploadNext]_uploadVars
  PROVE  BuffersGrow'
<1> USE Constants
<1>1. ASSUME SizesAlone PROVE BuffersGrow'
  <2> SUFFICES ASSUME Untouched' PROVE BuffersGrow'
    BY DEF BuffersGrow
  <2>1. Untouched
    BY <1>1 DEF SizesAlone, Untouched
  <2> QED BY <1>1, <2>1 DEF SizesAlone, BuffersGrow
<1>2. ASSUME NEW c \in Clients, NEW t \in Tasks, Accept(c, t) PROVE BuffersGrow'
  <2>1. /\ task'[t].pc = "spawned" /\ task'[t].blk = maxBlk
        /\ \A u \in Tasks : u # t => task'[u] = task[u]
    BY <1>2 DEF Accept, NoTask, Types, TaskType
  <2>2. UNCHANGED <<maxBlk, poolBuf, reloadTo, taint>> /\ maxBlk \in Nat
    BY <1>2 DEF Accept, configVars, diskVars, Types, ConfigType
  <2>3. Untouched' => Untouched
    BY <2>2 DEF Untouched
  <2>4. ASSUME Untouched, NEW u \in Tasks
        PROVE  /\ task'[u].pc # "none" => task'[u].blk <= maxBlk
               /\ task'[u].pc \notin {"none", "spawned"} => task'[u].blk <= task'[u].buf
    <3>1. CASE u = t
      <4>1. maxBlk <= maxBlk
        BY <2>2
      <4> QED BY <2>1, <3>1, <4>1
    <3>2. CASE u # t
      <4>1. task'[u] = task[u]
        BY <2>1, <3>2
      <4> QED BY <2>4, <4>1 DEF BuffersGrow
    <3> QED BY <3>1, <3>2
  <2> QED BY <2>2, <2>3, <2>4 DEF BuffersGrow
<1>3. ASSUME NEW t \in Tasks, Begin(t) PROVE BuffersGrow'
  <2>1. /\ task[t].pc = "spawned"
        /\ task'[t].pc = "waiting" /\ task'[t].buf = poolBuf /\ task'[t].blk = task[t].blk
        /\ \A u \in Tasks : u # t => task'[u] = task[u]
    BY <1>3 DEF Begin, Types, TaskType, TaskRecs
  <2>2. /\ UNCHANGED <<maxBlk, poolBuf, reloadTo, taint>>
        /\ maxBlk \in Nat /\ poolBuf \in Nat /\ reloadTo \in Nat
    BY <1>3 DEF Begin, configVars, diskVars, Types, ConfigType, Sizes
  <2>3. Untouched => maxBlk <= poolBuf
    BY <2>2 DEF BuffersGrow
  <2>4. task[t].blk \in Nat
    BY TaskFields
  <2>5. Untouched' => Untouched
    BY <2>2 DEF Untouched
  <2>6. ASSUME Untouched, NEW u \in Tasks
        PROVE  /\ task'[u].pc # "none" => task'[u].blk <= maxBlk
               /\ task'[u].pc \notin {"none", "spawned"} => task'[u].blk <= task'[u].buf
    <3>1. CASE u = t
      <4>1. task[t].blk <= maxBlk
        BY <2>1, <2>6 DEF BuffersGrow
      <4> QED BY <2>1, <2>2, <2>3, <2>4, <2>6, <3>1, <4>1
    <3>2. CASE u # t
      BY <2>1, <2>6, <3>2 DEF BuffersGrow
    <3> QED BY <3>1, <3>2
  <2> QED BY <2>2, <2>5, <2>6 DEF BuffersGrow
<1>4. ASSUME NEW t \in Tasks,
             TimeOut(t) \/ Open(t) \/ OpenFails(t) \/ WriteFails(t)
      PROVE  SizesAlone
  BY <1>4
  DEF TimeOut, Open, OpenFails, WriteFails, Advance, SizesAlone, configVars, diskVars,
      Types, TaskType, TaskRecs
<1>5. ASSUME NEW t \in Tasks, Write(t) PROVE SizesAlone
  <2>1. UNCHANGED <<maxBlk, poolBuf, reloadTo, taint>>
    BY <1>5 DEF Write, configVars
  <2>2. \E phase \in {"half", "completed"} : Advance(t, phase)
    BY <1>5, WriteSteps
  <2> QED BY <1>5, <2>1, <2>2 DEF Write, Advance, SizesAlone, Types, TaskType, TaskRecs
<1>6. ASSUME NEW t \in Tasks, Answered(t) PROVE SizesAlone
  <2>1. task[t].pc = "waiting"
    BY <1>6 DEF Answered, Partners
  <2> QED BY <1>6, <2>1
        DEF Answered, SizesAlone, configVars, diskVars, Types, TaskType, TaskRecs
<1>7. ASSUME UNCHANGED <<maxBlk, poolBuf, reloadTo, task, taint>> PROVE SizesAlone
  BY <1>7 DEF SizesAlone
<1>8. ASSUME NEW blk \in BlkSizes, ReloadPool(blk) PROVE BuffersGrow'
  <2> SUFFICES ASSUME Untouched' PROVE BuffersGrow'
    BY DEF BuffersGrow
  <2>1. /\ Untouched /\ maxBlk <= blk /\ reloadTo = 0 /\ poolBuf' = blk /\ reloadTo' = blk
        /\ UNCHANGED <<maxBlk, task>> /\ blk \in Nat /\ maxBlk \in Nat /\ blk # maxBlk
    BY <1>8 DEF ReloadPool, Untouched, Types, ConfigType
  <2> QED BY <2>1 DEF BuffersGrow
<1>9. CASE ReloadStore
  <2> SUFFICES ASSUME Untouched' PROVE BuffersGrow'
    BY DEF BuffersGrow
  <2>1. /\ Untouched /\ reloadTo # 0 /\ maxBlk' = reloadTo /\ reloadTo' = 0 /\ poolBuf' = poolBuf
        /\ UNCHANGED task /\ maxBlk \in Nat /\ reloadTo \in Nat /\ maxBlk <= reloadTo
        /\ reloadTo = poolBuf
    BY <1>9 DEF ReloadStore, Untouched, Types, ConfigType, Sizes, diskVars, BuffersGrow
  <2>2. ASSUME NEW t \in Tasks, task[t].pc # "none" PROVE task[t].blk <= reloadTo
    <3>1. task[t].blk \in Nat /\ task[t].blk <= maxBlk
      BY <2>1, <2>2, TaskFields DEF BuffersGrow
    <3> QED BY <2>1, <3>1
  <2>3. /\ reloadTo' = 0 /\ maxBlk' <= poolBuf'
        /\ \A t \in Tasks : /\ task'[t].pc # "none" => task'[t].blk <= maxBlk'
                            /\ task'[t].pc \notin {"none", "spawned"} => task'[t].blk <= task'[t].buf
    BY <2>1, <2>2 DEF BuffersGrow
  <2> QED BY <2>3 DEF BuffersGrow
<1>10. ASSUME NEW blk \in BlkSizes, EditStore(blk) PROVE BuffersGrow'
  BY <1>10 DEF EditStore, BuffersGrow, Untouched
<1>11. ASSUME NEW t \in Tasks, Receives(t) PROVE SizesAlone
  BY <1>11, ReceiveKeepsSizes
<1> QED
  BY <1>1, <1>2, <1>3, <1>4, <1>5, <1>6, <1>7, <1>8, <1>9, <1>10, <1>11, TaskSteps
  DEF UploadNext, RequestStep, Refuse, Ask, Repeat, LoseRequest, LoseAnswer,
      configVars, diskVars, uploadVars

-----------------------------------------------------------------------------
(***************************************************************************)
(* The two ends of an upload                                               *)
(***************************************************************************)

LEMMA PartnersStep ==
  ASSUME Types, Partners, [UploadNext]_uploadVars
  PROVE  Partners'
<1> USE Constants DEF Types, TaskType, TaskRecs, ClientType, Owners, Partners
<1>1. ASSUME NEW t \in Tasks, Begin(t) PROVE Partners'
  BY <1>1 DEF Begin
<1>2. ASSUME NEW t \in Tasks, Receives(t) PROVE Partners'
  <2>1. PICK data \in {"whole", "cut"}, phase \in {"done", "failed"} :
          /\ task' = [task EXCEPT ![t].pc = "received", ![t].data = data]
          /\ clientPhase' = [clientPhase EXCEPT ![task[t].client] = phase]
          /\ data = "cut" => task[t].buf < task[t].blk
    BY <1>2, ReceiveSteps
  <2>2. /\ task[t].pc = "waiting" /\ UNCHANGED <<netVars, peer>>
        /\ clientPhase[task[t].client] = "sending" /\ peer[task[t].client] = t
    BY <1>2, ReceiveSteps
  <2>3. \A u \in Tasks : /\ task'[u].client = task[u].client
                         /\ task'[u].pc = IF u = t THEN "received" ELSE task[u].pc
    BY <2>1
  <2>4. \A c \in Clients : clientPhase'[c] = IF c = task[t].client THEN phase ELSE clientPhase[c]
    BY <2>1
  <2>5. answers' = answers /\ peer' = peer
    BY <2>2 DEF netVars
  <2>6. \A u \in answers : u # t
    BY <2>2
  <2> QED BY <2>1, <2>2, <2>3, <2>4, <2>5, <2>6
<1>3. ASSUME NEW t \in Tasks, TimeOut(t) PROVE Partners'
  BY <1>3 DEF TimeOut, Advance, netVars
<1>4. ASSUME NEW t \in Tasks, NEW phase \in {"open", "half", "completed", "failed"},
             task[t].pc \in {"received", "open", "half"}, Advance(t, phase),
             UNCHANGED <<answers, clientPhase, peer>>
      PROVE  Partners'
  <2>1. \A u \in Tasks : /\ task'[u].client = task[u].client
                         /\ u # t => task'[u].pc = task[u].pc
                         /\ task'[t].pc = phase
    BY <1>4 DEF Advance
  <2>2. \A u \in Tasks : task[u].pc = "waiting" => task'[u].pc = "waiting"
    BY <1>4, <2>1
  <2>3. \A u \in Tasks : task[u].pc \notin {"none", "spawned"} => task'[u].pc \notin {"none", "spawned"}
    BY <1>4, <2>1
  <2>4. \A u \in Tasks : task[u].pc # "waiting" => task'[u].pc # "waiting"
    BY <1>4, <2>1
  <2>5. UNCHANGED <<answers, clientPhase, peer>>
    BY <1>4
  <2>6. \A u \in answers' : task'[u].pc = "waiting" /\ \A c \in Clients : peer'[c] # u
    BY <2>2, <2>5
  <2>7. ASSUME NEW c \in Clients
        PROVE  /\ peer'[c] # 0 => /\ task'[peer'[c]].client = c
                                  /\ task'[peer'[c]].pc \notin {"none", "spawned"}
               /\ clientPhase'[c] \in {"sending", "done", "failed"} => peer'[c] # 0
               /\ clientPhase'[c] = "done" => task'[peer'[c]].pc # "waiting"
    <3>1. peer[c] \in Tasks \cup {0} /\ peer'[c] = peer[c] /\ clientPhase'[c] = clientPhase[c]
      BY <2>5
    <3>2. CASE peer[c] = 0
      BY <2>5, <3>1, <3>2
    <3>3. CASE peer[c] \in Tasks
      BY <2>1, <2>3, <2>4, <3>1, <3>3
    <3> QED BY <3>1, <3>2, <3>3
  <2> QED BY <2>6, <2>7
<1>5. ASSUME NEW t \in Tasks, Answered(t) PROVE Partners'
  BY <1>5 DEF Answered
<1>6. ASSUME NEW t \in Tasks, LoseAnswer(t) PROVE Partners'
  BY <1>6 DEF LoseAnswer
<1>7. ASSUME NEW c \in Clients, NEW t \in Tasks, Accept(c, t) PROVE Partners'
  BY <1>7 DEF Accept
<1>8. ASSUME NEW c \in Clients, Refuse(c) \/ Ask(c) PROVE Partners'
  <2>1. /\ UNCHANGED <<task, answers, peer>>
        /\ \A d \in Clients : \/ clientPhase'[d] = clientPhase[d]
                              \/ clientPhase'[d] \in {"asking", "refused"}
    BY <1>8 DEF Refuse, Ask
  <2> QED BY <2>1
<1>9. ASSUME UNCHANGED <<task, answers, clientPhase, peer>> PROVE Partners'
  BY <1>9
<1> HIDE DEF Partners
<1>10. ASSUME NEW t \in Tasks, Open(t) \/ Write(t) \/ OpenFails(t) \/ WriteFails(t) PROVE Partners'
  <2>1. /\ task[t].pc \in {"received", "open", "half"}
        /\ UNCHANGED <<answers, clientPhase, peer>>
        /\ \E phase \in {"open", "half", "completed", "failed"} : Advance(t, phase)
    BY <1>10 DEF Open, Write, OpenFails, WriteFails, netVars
  <2> QED BY <1>4, <2>1
<1> QED
  BY <1>1, <1>2, <1>3, <1>5, <1>6, <1>7, <1>8, <1>9, <1>10, TaskSteps
  DEF UploadNext, RequestStep, Repeat, LoseRequest, ReloadPool, ReloadStore,
      EditStore, netVars, uploadVars

\* What a step does to a client that is done: nothing, but to its task
LEMMA DoneStays ==
  ASSUME Types, Partners, [UploadNext]_uploadVars, NEW c \in Clients
  PROVE  /\ clientPhase[c] = "done" => clientPhase'[c] = "done" /\ peer'[c] = peer[c]
         /\ clientPhase[c] # "done" /\ clientPhase'[c] = "done"
              => peer'[c] \in Tasks /\ task'[peer'[c]].pc = "received"
<1> USE Constants DEF Types, ClientType
<1>1. ASSUME NEW t \in Tasks, Receives(t)
      PROVE  /\ clientPhase[c] = "done" => clientPhase'[c] = "done" /\ peer'[c] = peer[c]
             /\ clientPhase[c] # "done" /\ clientPhase'[c] = "done"
                  => peer'[c] \in Tasks /\ task'[peer'[c]].pc = "received"
  <2>1. PICK data \in {"whole", "cut"}, phase \in {"done", "failed"} :
          /\ task' = [task EXCEPT ![t].pc = "received", ![t].data = data]
          /\ clientPhase' = [clientPhase EXCEPT ![task[t].client] = phase]
          /\ data = "cut" => task[t].buf < task[t].blk
    BY <1>1, ReceiveSteps
  <2>2. /\ peer' = peer /\ clientPhase[task[t].client] = "sending" /\ peer[task[t].client] = t
    BY <1>1, ReceiveSteps
  <2>3. task'[t].pc = "received"
    BY <2>1 DEF TaskType, TaskRecs
  <2> QED BY <2>1, <2>2, <2>3
<1>2. ASSUME NEW d \in Clients, Refuse(d) \/ Ask(d)
      PROVE  /\ peer' = peer
             /\ \A e \in Clients : clientPhase'[e] = "done" <=> clientPhase[e] = "done"
  BY <1>2 DEF Refuse, Ask
<1>3. ASSUME NEW t \in Tasks, Answered(t)
      PROVE  /\ clientPhase[c] = "done" => clientPhase'[c] = "done" /\ peer'[c] = peer[c]
             /\ clientPhase'[c] = "done" => clientPhase[c] = "done"
  BY <1>3 DEF Answered
<1> QED
  BY <1>1, <1>2, <1>3, TaskSteps
  DEF UploadNext, RequestStep, Begin, TimeOut, Open, Write, OpenFails, WriteFails, Accept, Repeat,
      LoseRequest, LoseAnswer, ReloadPool, ReloadStore, EditStore, uploadVars

\* Without a full disk a task that writes or has written goes on
LEMMA WrittenStays ==
  ASSUME Types, Partners, [UploadNext]_uploadVars, "disk" \notin taint'
  PROVE  \A t \in Written : t \in Written'
<1> USE DEF Types, TaskType, Written
<1>1. CASE DiskAlone
  BY <1>1 DEF DiskAlone
<1>2. ASSUME NEW t \in Tasks, Open(t) PROVE \A u \in Written : u \in Written'
  BY <1>2 DEF Open, Advance
<1>3. ASSUME NEW t \in Tasks, Write(t) PROVE \A u \in Written : u \in Written'
  <2>1. \E phase \in {"half", "completed"} : Advance(t, phase)
    BY <1>3, WriteSteps
  <2> QED BY <2>1 DEF Advance
<1>4. ASSUME NEW t \in Tasks, WriteFails(t) PROVE FALSE
  BY <1>4 DEF WriteFails
<1> QED BY <1>1, <1>2, <1>3, <1>4, WhoWrites

\* A task fails after its last acknowledgement only for one of two reasons
LEMMA WhyFailed ==
  ASSUME Types, Partners, OwnPieces, Origin, [UploadNext]_uploadVars,
         NEW t \in Tasks, task[t].pc \notin {"none", "spawned", "waiting", "failed"},
         task'[t].pc = "failed", taint' \cap {"disk", "open"} = {}
  PROVE  ~overwrite /\ \E u \in Written : u # t
<1> USE Constants DEF Types, TaskType
<1>1. Open(t)
  <2>0. ASSUME NEW u \in Tasks, Receives(u) PROVE FALSE
    <3>1. \A v \in Tasks : task'[v].pc = IF v = u THEN "received" ELSE task[v].pc
      BY <2>0, ReceiveMoves
    <3> QED BY <3>1
  <2>1. ASSUME NEW u \in Tasks, Begin(u) \/ TimeOut(u) \/ Answered(u) PROVE FALSE
    BY <2>1 DEF Begin, TimeOut, Answered, Advance, Partners
  <2>2. ASSUME NEW u \in Tasks, OpenFails(u) \/ WriteFails(u) PROVE FALSE
    BY <2>2 DEF OpenFails, WriteFails
  <2>3. ASSUME NEW u \in Tasks, Write(u) PROVE FALSE
    <3>1. \E phase \in {"half", "completed"} : Advance(u, phase)
      BY <2>3, WriteSteps
    <3> QED BY <3>1 DEF Advance
  <2>4. ASSUME NEW u \in Tasks, Open(u), u # t PROVE FALSE
    BY <2>4 DEF Open, Advance
  <2>5. ASSUME NEW c \in Clients, NEW u \in Tasks, Accept(c, u) PROVE FALSE
    BY <2>5 DEF Accept
  <2>6. ASSUME UNCHANGED task PROVE FALSE
    BY <2>6
  <2>7. \/ \E u \in Tasks : TaskStep(u) \/ OpenFails(u) \/ WriteFails(u) \/ Answered(u)
        \/ \E c \in Clients, u \in Tasks : Accept(c, u)
        \/ UNCHANGED task
    BY DEF UploadNext, RequestStep, Refuse, Ask, Repeat, LoseRequest, LoseAnswer,
           ReloadPool, ReloadStore, EditStore, uploadVars
  <2> HIDE DEF Types, TaskType
  <2> QED BY <2>0, <2>1, <2>2, <2>3, <2>4, <2>5, <2>6, <2>7, TaskSteps
<1>2. task[t].pc = "received" /\ ~overwrite /\ exists /\ taint' = taint
  <2>1. task \in [Tasks -> TaskRecs] /\ task[t].pc = "received"
    BY <1>1 DEF Open
  <2>2. CASE overwrite \/ ~exists
    BY <1>1, <2>1, <2>2 DEF Open, Advance, TaskRecs
  <2> QED BY <1>1, <2>1, <2>2 DEF Open, diskVars
<1>3. PICK u \in Written : TRUE
  BY <1>2 DEF Origin
<1>4. u # t
  BY <1>2, <1>3 DEF Written
<1> QED BY <1>2, <1>3, <1>4

LEMMA AckedStep ==
  ASSUME Types, Partners, OwnPieces, Origin, AckKept, [UploadNext]_uploadVars
  PROVE  AckKept'
<1> SUFFICES ASSUME NEW c \in Clients, clientPhase'[c] = "done",
                    task'[peer'[c]].pc = "failed", taint' \cap {"disk", "open"} = {}
             PROVE  /\ ~overwrite'
                    /\ \E t \in Tasks : t # peer'[c] /\ task'[t].pc \in {"open", "half", "completed"}
  BY DEF AckKept
<1>1. clientPhase[c] = "done" /\ peer'[c] = peer[c] /\ peer[c] \in Tasks
  BY DoneStays DEF Types, ClientType, Owners, Partners
<1>2. taint \subseteq taint' /\ overwrite' = overwrite
  <2>1. ASSUME NEW t \in Tasks, Receives(t) PROVE taint' = taint /\ overwrite' = overwrite
    BY <2>1, ReceiveSteps DEF diskVars, configVars
  <2> QED
    BY ZenonT(40), <2>1, TaskSteps
    DEF UploadNext, RequestStep, Begin, TimeOut, Open, Write, OpenFails, WriteFails, Answered,
        LoseAnswer, Refuse, Accept, Ask, Repeat, LoseRequest, ReloadPool, ReloadStore, EditStore,
        diskVars, configVars, uploadVars
<1>3. overwrite' = overwrite /\ taint \cap {"disk", "open"} = {}
  BY <1>2
<1>4. ~overwrite /\ \E t \in Written : t # peer[c]
  <2>1. CASE task[peer[c]].pc = "failed"
    BY <1>1, <1>3, <2>1 DEF AckKept, Written
  <2>2. CASE task[peer[c]].pc # "failed"
    <3>1. task[peer[c]].pc \notin {"none", "spawned", "waiting", "failed"}
      BY <1>1, <2>2, Constants DEF Partners
    <3> QED BY <1>1, <3>1, WhyFailed
  <2> QED BY <2>1, <2>2
<1>5. \A t \in Written : t \in Written'
  BY <1>2, WrittenStays
<1> QED BY <1>1, <1>3, <1>4, <1>5 DEF Written

-----------------------------------------------------------------------------
(***************************************************************************)
(* Data that was cut                                                       *)
(***************************************************************************)

\* A step that receives nothing
DataAlone ==
  \A t \in Tasks : /\ task'[t].data = "cut" => task[t].data = "cut"
                   /\ task[t].data = "cut" /\ task[t].pc \notin {"none", "spawned"} =>
                        /\ task'[t].buf = task[t].buf /\ task'[t].blk = task[t].blk
                        /\ task'[t].pc \notin {"none", "spawned"}

LEMMA CutsStep ==
  ASSUME Types, Partners, CutsAreSmall, Acquired, [UploadNext]_uploadVars
  PROVE  CutsAreSmall' /\ Acquired'
<1>1. ASSUME DataAlone PROVE CutsAreSmall' /\ Acquired'
  BY <1>1 DEF DataAlone, CutsAreSmall, Acquired
<1>2. ASSUME NEW t \in Tasks, Receives(t) PROVE CutsAreSmall' /\ Acquired'
  <2>1. PICK data \in {"whole", "cut"}, phase \in {"done", "failed"} :
          /\ task' = [task EXCEPT ![t].pc = "received", ![t].data = data]
          /\ clientPhase' = [clientPhase EXCEPT ![task[t].client] = phase]
          /\ data = "cut" => task[t].buf < task[t].blk
    BY <1>2, ReceiveSteps
  <2>2. /\ \A u \in Tasks : u # t => task'[u] = task[u]
        /\ task'[t].pc = "received" /\ task'[t].data = data
        /\ task'[t].buf = task[t].buf /\ task'[t].blk = task[t].blk
    BY <2>1 DEF Types, TaskType, TaskRecs
  <2> QED BY <2>1, <2>2 DEF CutsAreSmall, Acquired
<1> USE DEF Types, TaskType, DataAlone
<1>3. ASSUME NEW t \in Tasks, NEW phase \in Phases \ {"none", "spawned"}, Advance(t, phase)
      PROVE  DataAlone
  BY <1>3 DEF Advance, TaskRecs
<1>4. ASSUME NEW t \in Tasks, Begin(t) PROVE DataAlone
  BY <1>4 DEF Begin, TaskRecs
<1>5. ASSUME NEW c \in Clients, NEW t \in Tasks, Accept(c, t) PROVE DataAlone
  BY <1>5 DEF Accept, NoTask
<1>6. ASSUME NEW t \in Tasks, Answered(t) PROVE DataAlone
  BY <1>6 DEF Answered, TaskRecs
<1>7. ASSUME UNCHANGED task PROVE DataAlone
  BY <1>7
<1>8. ASSUME NEW t \in Tasks, TimeOut(t) \/ Open(t) \/ Write(t) \/ OpenFails(t) \/ WriteFails(t)
      PROVE  \E phase \in Phases \ {"none", "spawned"} : Advance(t, phase)
  <2>1. \E phase \in {"open", "half", "completed", "failed"} : Advance(t, phase)
    BY <1>8 DEF TimeOut, Open, Write, OpenFails, WriteFails
  <2> QED BY <2>1 DEF Phases
<1> HIDE DEF Types, TaskType, DataAlone
<1> QED
  BY <1>1, <1>2, <1>3, <1>4, <1>5, <1>6, <1>7, <1>8, TaskSteps
  DEF UploadNext, RequestStep, Refuse, Ask, Repeat, LoseRequest, LoseAnswer, ReloadPool,
      ReloadStore, EditStore, uploadVars

\* Without an edit or a smaller block size no data is cut
LEMMA NothingCut ==
  ASSUME IInv, Untouched, NEW t \in Tasks
  PROVE  task[t].data # "cut"
<1> SUFFICES ASSUME task[t].data = "cut" PROVE FALSE
  OBVIOUS
<1>1. task[t].buf < task[t].blk /\ task[t].blk <= task[t].buf
  BY DEF IInv, CutsAreSmall, Acquired, BuffersGrow
<1>2. task[t].buf \in Nat /\ task[t].blk \in Nat
  BY TaskFields DEF IInv
<1> QED BY <1>1, <1>2

-----------------------------------------------------------------------------
(***************************************************************************)
(* Theorems                                                                *)
(***************************************************************************)

\* Everything the theorems below rest on holds from the first request on.
THEOREM Invariance == UploadSpec => []IInv
<1>1. IInv /\ [UploadNext]_uploadVars => IInv'
  BY TypesStep, PiecesStep, BuffersStep, CutsStep, PartnersStep, AckedStep DEF IInv
<1> QED BY InitInv, <1>1, PTL DEF UploadSpec

\* Type correctness for any number of clients, tasks, losses and edits.
THEOREM TypeCorrect == UploadSpec => []UploadTypeOK
<1>1. IInv => UploadTypeOK
  <2> SUFFICES ASSUME Types PROVE UploadTypeOK
    BY DEF IInv
  <2>1. Len(file) <= Chunks
    <3>1. PICK len \in 0 .. Chunks : Len(file) = len
      BY DEF Types, DiskType
    <3>2. len <= Chunks
      BY Constants
    <3> QED BY <3>1, <3>2
  <2>2. \A i \in DOMAIN file : file[i] \in Tasks \cup {0}
    BY LenProperties, ElementOfSeq DEF Types, DiskType, Owners
  <2>3. \A t \in Tasks : task[t].pc \in Phases
    BY TaskFields
  <2>4. \A t \in Tasks : task[t].data \in {"none", "whole", "cut"}
    BY DEF Types, TaskType, TaskRecs
  <2> QED BY <2>1, <2>2, <2>3, <2>4
        DEF Types, ConfigType, TaskType, ClientType, DiskType, Sizes, Owners, Phases, UploadTypeOK
<1> QED BY <1>1, Invariance, PTL

\* What lies under the path is one upload, never the pieces of two, and all
\* that was sent, unless a buffer was smaller than a block.
THEOREM OnlyOneUpload == UploadSpec => []OneUpload
<1>1. IInv => OneUpload
  <2> SUFFICES ASSUME IInv PROVE OneUpload
    OBVIOUS
  <2>1. ASSUME Untouched, NEW i \in DOMAIN file, file[i] # 0 PROVE task[file[i]].data # "cut"
    <3>1. file[i] \in Tasks
      BY <2>1, LenProperties, ElementOfSeq DEF IInv, Types, DiskType, Owners
    <3> QED BY <2>1, <3>1, NothingCut
  <2> QED BY <2>1 DEF IInv, OwnPieces, OneUpload
<1> QED BY <1>1, Invariance, PTL

\* A complete file is touched by nothing but a complete upload that may
\* overwrite it.
THEOREM CompleteFilesAreSafe == UploadSpec => CompleteFileStays
<1> DEFINE Safe ==
      Len(file) = Chunks /\ file' # file
        => /\ overwrite
           /\ \E t \in Tasks : task[t].pc \in {"received", "open", "half"} /\ task'[t] # task[t]
<1>1. IInv /\ [UploadNext]_uploadVars => [Safe]_uploadVars
  <2> SUFFICES ASSUME Types, Partners, OwnPieces, [UploadNext]_uploadVars,
                      Len(file) = Chunks, file' # file
               PROVE  /\ overwrite
                      /\ \E t \in Tasks : task[t].pc \in {"received", "open", "half"} /\ task'[t] # task[t]
    BY DEF IInv
  <2>0. file # <<>> /\ \A t \in Tasks : file # <<t>>
    BY Constants, EmptySeq
  <2>1. PICK t \in Tasks : Open(t) \/ Write(t)
    BY WhoWrites DEF DiskAlone, WriteFails
  <2>2. CASE Open(t)
    <3>1. overwrite
      BY <2>0, <2>1, <2>2 DEF Open, OwnPieces, diskVars
    <3>2. task[t].pc = "received" /\ task'[t].pc # "received"
      BY <2>2 DEF Open, Advance, Types, TaskType, TaskRecs
    <3> QED BY <3>1, <3>2
  <2>3. CASE Write(t)
    <3>1. task[t].pc \in {"open", "half"}
      BY <2>3 DEF Write
    <3>2. overwrite
      BY <2>0, <3>1 DEF OwnPieces
    <3>3. task'[t].pc # task[t].pc
      <4>1. task \in [Tasks -> TaskRecs]
        BY DEF Types, TaskType
      <4>2. \/ task[t].pc = "open" /\ task' = [task EXCEPT ![t].pc = "half"]
            \/ task[t].pc = "half" /\ task' = [task EXCEPT ![t].pc = "completed"]
        BY <2>3, WriteSteps DEF Advance
      <4>3. \/ task[t].pc = "open" /\ task'[t].pc = "half"
            \/ task[t].pc = "half" /\ task'[t].pc = "completed"
        BY <4>1, <4>2 DEF TaskRecs
      <4> QED BY <4>3
    <3> QED BY <3>1, <3>2, <3>3
  <2> QED BY <2>1, <2>2, <2>3
<1> QED BY <1>1, Invariance, PTL DEF UploadSpec, CompleteFileStays

\* A receive buffer holds the block size that was negotiated, as long as the
\* block size has only been made larger, by reloads.
THEOREM BuffersHold == UploadSpec => []BufferHoldsBlock
<1>1. IInv => BufferHoldsBlock
  BY DEF IInv, BuffersGrow, Untouched, BufferHoldsBlock
<1> QED BY <1>1, Invariance, PTL

\* The last acknowledgement is kept, unless the disk fails, another upload got
\* there first, or a buffer was smaller than a block.
THEOREM AcksAreKept == UploadSpec => []AckedIsWritten
<1>1. IInv => AckedIsWritten
  <2> SUFFICES ASSUME IInv, NEW c \in Clients, clientPhase[c] = "done", Untouched
               PROVE  task[peer[c]].data # "cut"
    BY DEF IInv, AckKept, AckedIsWritten
  <2>1. peer[c] \in Tasks
    BY DEF IInv, Partners, Types, ClientType, Owners
  <2> QED BY <2>1, NothingCut
<1> QED BY <1>1, Invariance, PTL
=============================================================================
