-------------------------- MODULE SessionTableProofs --------------------------
(***************************************************************************)
(* The session table keeps every session in one place and within the       *)
(* limits, for every set of sessions and clients, all limits and every     *)
(* number of restarts.                                                     *)
(***************************************************************************)
EXTENDS SessionTable, FiniteSetTheorems, SequenceTheorems, TLAPS

Records == [id : Sessions, status : Outcomes]

-----------------------------------------------------------------------------
(***************************************************************************)
(* Type correctness                                                        *)
(***************************************************************************)

\* Push appends one record and keeps the youngest MaxHistory of the sequence:
\* shift is the number of records that are dropped.
LEMMA PushFacts ==
  ASSUME TypeOK, NEW s \in Sessions, NEW o \in Outcomes, Push(s, o)
  PROVE  /\ history' \in Seq(Records)
         /\ Len(history') <= MaxHistory
         /\ \E shift \in Nat :
              /\ Len(history') = Len(history) + 1 - shift
              /\ \A i \in 1 .. Len(history') :
                   history'[i] = IF i + shift = Len(history) + 1
                                   THEN [id |-> s, status |-> o] ELSE history[i + shift]
<1> DEFINE rec == [id |-> s, status |-> o]
           all == Append(history, rec)
           excess == Len(all) - MaxHistory
<1>1. /\ history \in Seq(Records) /\ rec \in Records /\ MaxHistory \in Nat \ {0}
      /\ Len(history) \in Nat /\ Len(history) <= MaxHistory
  BY TableAssumption, LenProperties DEF TypeOK, TableType, Records
<1>2. /\ all \in Seq(Records) /\ Len(all) = Len(history) + 1
      /\ \A i \in 1 .. Len(history) : all[i] = history[i]
      /\ all[Len(history) + 1] = rec
  BY <1>1, AppendProperties
<1>3. CASE excess > 0
  <2>1. history' = SubSeq(all, excess + 1, Len(all))
    BY <1>3 DEF Push
  <2>2. excess = 1 /\ Len(all) \in Nat /\ Len(history) = MaxHistory
    BY <1>1, <1>2, <1>3
  <2>3. \A i \in excess + 1 .. Len(all) : all[i] \in Records
    BY <1>2, <2>2, ElementOfSeq
  <2> HIDE DEF all, rec, excess
  <2>4. /\ history' \in Seq(Records) /\ Len(history') = Len(all) - 1
        /\ \A i \in 1 .. Len(all) - 1 : history'[i] = all[i + 1]
    BY <2>1, <2>2, <2>3, <1>1, <1>2, SubSeqProperties
  <2>5. \A i \in 1 .. Len(history') :
          history'[i] = IF i + 1 = Len(history) + 1 THEN rec ELSE history[i + 1]
    BY <2>4, <1>1, <1>2
  <2> QED BY <2>2, <2>4, <2>5, <1>1, <1>2 DEF rec
<1>4. CASE ~(excess > 0)
  <2>1. history' = all
    BY <1>4 DEF Push
  <2> HIDE DEF all, rec
  <2>2. \A i \in 1 .. Len(history') :
          history'[i] = IF i + 0 = Len(history) + 1 THEN rec ELSE history[i + 0]
    BY <2>1, <1>1, <1>2
  <2>3. Len(history') = Len(history) + 1 - 0 /\ Len(history') <= MaxHistory
    BY <2>1, <1>1, <1>2, <1>4 DEF excess
  <2> QED BY <2>1, <2>2, <2>3, <1>2 DEF rec
<1> QED BY <1>3, <1>4

LEMMA TypeInit == Init => TypeOK
<1> SUFFICES ASSUME Init PROVE TypeOK
  OBVIOUS
<1>1. <<>> \in Seq(Records) /\ Len(<<>>) = 0
  BY EmptySeq
<1> QED BY <1>1, TableAssumption
   DEF Init, TypeOK, MainType, TableType, TaskType, CleanerType, Records, Idle, Runs

\* A run that is being prepared is one of the runs.
RestartType == Restarting => run < MaxRuns

LEMMA MainTypeStep == TypeOK /\ RestartType /\ [Next]_vars => MainType' /\ RestartType'
<1> SUFFICES ASSUME TypeOK, RestartType, [Next]_vars PROVE MainType' /\ RestartType'
  OBVIOUS
<1>1. MainType
  BY DEF TypeOK
<1>2. run \in Nat /\ run >= 1 /\ run <= MaxRuns /\ MaxRuns \in Nat
  BY <1>1, TableAssumption DEF MainType, Runs
<1> USE DEF MainType, RestartType, Restarting
<1>3. CASE RecvRequest
  BY <1>1, <1>3 DEF RecvRequest
<1>4. CASE CheckPerIp \/ CheckGlobal
  BY <1>1, <1>4 DEF CheckPerIp, CheckGlobal
<1>5. CASE CountSession
  BY <1>1, <1>5 DEF CountSession
<1>6. CASE Register
  BY <1>1, <1>6 DEF Register
<1>7. CASE SeeShutdown
  BY <1>1, <1>7 DEF SeeShutdown
<1>8. CASE Stopped
  BY <1>1, <1>8 DEF Stopped
<1>9. CASE ResetCounters
  BY <1>1, <1>9 DEF ResetCounters
<1>10. CASE ClearTable
  BY <1>1, <1>10 DEF ClearTable
<1>11. CASE ClearHistory
  BY <1>1, <1>2, <1>11 DEF ClearHistory, Runs
<1>12. CASE CancelShutdown
  BY <1>1, <1>2, <1>12 DEF CancelShutdown
<1>13. CASE UNCHANGED mainVars
  BY <1>1, <1>13 DEF mainVars
<1>14. ASSUME NEW s \in Sessions, Task(s) \/ GoStale(s) PROVE UNCHANGED mainVars
  BY <1>14 DEF Task, Progress, Return, TaskRemove, TaskPush, TaskCount, GoStale
<1>15. ASSUME NEW r \in Runs, Clean(r) PROVE UNCHANGED mainVars
  BY <1>15 DEF Clean, CleanerStops, Collect, CleanRemove, CleanPush, CleanCount
<1>16. UNCHANGED vars => UNCHANGED mainVars
  BY DEF vars
<1> QED
  BY <1>3, <1>4, <1>5, <1>6, <1>7, <1>8, <1>9, <1>10, <1>11, <1>12, <1>13, <1>14, <1>15, <1>16
     DEF Next, Main

LEMMA TaskTypeStep == TypeOK /\ MainType' /\ [Next]_vars => TaskType'
<1> SUFFICES ASSUME TypeOK, MainType', [Next]_vars PROVE TaskType'
  OBVIOUS
<1>1. TaskType /\ MainType
  BY DEF TypeOK
<1>2. run \in Nat /\ run' \in Nat
  BY <1>1, TableAssumption DEF MainType, Runs
<1>3. CASE UNCHANGED <<taskVars, run>>
  BY <1>1, <1>3 DEF TaskType, taskVars
<1>4. CASE Register
  BY <1>1, <1>2, <1>4 DEF Register, TaskType, MainType
<1>5. CASE ClearHistory
  BY <1>1, <1>2, <1>5 DEF ClearHistory, TaskType, taskVars
<1>6. ASSUME NEW s \in Sessions, Return(s) PROVE TaskType'
  BY <1>1, <1>6 DEF Return, TaskType, mainVars
<1>7. ASSUME NEW s \in Sessions, TaskRemove(s) \/ TaskPush(s) \/ TaskCount(s)
      PROVE  TaskType'
  <2>1. task[s] \in [pc : {"remove", "push", "count", "ended"}, outcome : Outcomes]
    BY <1>1, <1>7 DEF TaskRemove, TaskPush, TaskCount, TaskType
  <2>2. \E pc \in {"push", "count", "ended"} : TaskAt(s, pc)
    BY <1>7 DEF TaskRemove, Remove, TaskPush, TaskCount, AfterComplete
  <2>3. runOf' = runOf /\ run' = run
    BY <1>7 DEF TaskRemove, TaskPush, TaskCount, mainVars
  <2> QED BY <1>1, <2>1, <2>2, <2>3 DEF TaskType, TaskAt
<1>8. ASSUME NEW s \in Sessions, Progress(s) \/ GoStale(s)
      PROVE  UNCHANGED <<taskVars, run>>
  BY <1>8 DEF Progress, GoStale, mainVars
<1>9. ASSUME NEW r \in Runs, Clean(r) PROVE UNCHANGED <<taskVars, run>>
  BY <1>9 DEF Clean, CleanerStops, Collect, CleanRemove, CleanPush, CleanCount, mainVars
<1>10. \/ RecvRequest \/ CheckPerIp \/ CheckGlobal \/ CountSession \/ SeeShutdown
       \/ Stopped \/ ResetCounters \/ ClearTable \/ CancelShutdown \/ UNCHANGED vars
       => UNCHANGED <<taskVars, run>>
  BY DEF RecvRequest, CheckPerIp, CheckGlobal, CountSession, SeeShutdown, Stopped,
         ResetCounters, ClearTable, CancelShutdown, vars, mainVars
<1> QED BY <1>3, <1>4, <1>5, <1>6, <1>7, <1>8, <1>9, <1>10 DEF Next, Main, Task

LEMMA CleanerTypeStep == TypeOK /\ [Next]_vars => CleanerType'
<1> SUFFICES ASSUME TypeOK, [Next]_vars PROVE CleanerType'
  OBVIOUS
<1>1. CleanerType /\ TableType
  BY DEF TypeOK
<1>2. CASE UNCHANGED cleaner
  BY <1>1, <1>2 DEF CleanerType
<1>3. ASSUME NEW r \in Runs, CleanerStops(r) PROVE CleanerType'
  BY <1>1, <1>3 DEF CleanerStops, CleanerAt, CleanerType
<1>4. ASSUME NEW r \in Runs, NEW ids \in SUBSET Sessions, CleanNext(r, ids)
      PROVE  CleanerType'
  BY <1>1, <1>4 DEF CleanNext, CleanerAt, CleanerType
<1>5. ASSUME NEW r \in Runs, Collect(r) PROVE CleanerType'
  BY <1>1, <1>4, <1>5 DEF Collect, TableType
<1>6. ASSUME NEW r \in Runs, CleanRemove(r) PROVE CleanerType'
  <2>1. cleaner[r].ids \in SUBSET Sessions
    BY <1>1, <1>6 DEF CleanRemove, CleanerType, Idle, Off
  <2>2. PICK s \in cleaner[r].ids, pc \in {"push", "count"} :
          CleanerAt(r, [pc |-> pc, id |-> s, ids |-> cleaner[r].ids \ {s}])
    BY <1>6 DEF CleanRemove, Remove
  <2> QED BY <1>1, <2>1, <2>2 DEF CleanerAt, CleanerType
<1>7. ASSUME NEW r \in Runs, cleaner[r].pc \in {"push", "count"}
      PROVE  cleaner[r] \in [pc : {"push", "count"}, id : Sessions, ids : SUBSET Sessions]
  BY <1>1, <1>7 DEF CleanerType, Idle, Off
<1>8. ASSUME NEW r \in Runs, CleanPush(r) PROVE CleanerType'
  BY <1>1, <1>7, <1>8 DEF CleanPush, CleanerAt, CleanerType
<1>9. ASSUME NEW r \in Runs, CleanCount(r) PROVE CleanerType'
  BY <1>1, <1>4, <1>7, <1>9 DEF CleanCount
<1>10. \/ Main \/ CancelShutdown \/ (\E s \in Sessions : Task(s) \/ GoStale(s))
       \/ UNCHANGED vars
       => UNCHANGED cleaner
  BY DEF Main, RecvRequest, CheckPerIp, CheckGlobal, CountSession, Register, SeeShutdown,
         Stopped, ResetCounters, ClearTable, ClearHistory, CancelShutdown, Task, Progress,
         Return, TaskRemove, TaskPush, TaskCount, GoStale, vars
<1> QED BY <1>2, <1>3, <1>5, <1>6, <1>8, <1>9, <1>10 DEF Next, Clean

\* Sessions may leave the table; those that stay keep their client.
Shrinks ==
  /\ DOMAIN active' \subseteq DOMAIN active
  /\ active' \in [DOMAIN active' -> [client : Clients, stale : BOOLEAN]]
  /\ \A t \in DOMAIN active' : active'[t].client = active[t].client

\* Only a registration puts a session into the table.
LEMMA TableShrinks == TypeOK /\ [Next]_vars => Register \/ Shrinks
<1> SUFFICES ASSUME TypeOK, [Next]_vars, ~Register PROVE Shrinks
  OBVIOUS
<1>1. TableType
  BY DEF TypeOK
<1>2. CASE UNCHANGED active
  BY <1>1, <1>2 DEF TableType, Shrinks
<1>3. CASE ClearTable
  BY <1>1, <1>3 DEF ClearTable, TableType, Shrinks
<1>4. ASSUME NEW s \in Sessions, Progress(s) \/ GoStale(s) PROVE Shrinks
  <2>1. \A t \in DOMAIN active : active[t] \in [client : Clients, stale : BOOLEAN]
    BY <1>1 DEF TableType
  <2>2. CASE Progress(s)
    BY <2>1, <2>2 DEF Progress, Update, Shrinks
  <2>3. CASE GoStale(s)
    <3>1. /\ DOMAIN active' = DOMAIN active
          /\ active'[s] = [active[s] EXCEPT !.stale = TRUE]
          /\ \A t \in DOMAIN active \ {s} : active'[t] = active[t]
          /\ s \in DOMAIN active
      BY <1>1, <2>3 DEF GoStale, TableType
    <3>2. active'[s] \in [client : Clients, stale : BOOLEAN] /\ active'[s].client = active[s].client
      BY <2>1, <3>1
    <3>3. active' = [t \in DOMAIN active' |-> active'[t]]
      BY <2>3 DEF GoStale
    <3> QED BY ZenonT(40), <2>1, <3>1, <3>2, <3>3 DEF Shrinks
  <2> QED BY <1>4, <2>2, <2>3
<1>5. ASSUME NEW s, active' = [t \in DOMAIN active \ {s} |-> active[t]] PROVE Shrinks
  BY <1>1, <1>5 DEF TableType, Shrinks
<1>6. ASSUME NEW s \in Sessions, TaskRemove(s) PROVE Shrinks
  BY <1>5, <1>6 DEF TaskRemove, Remove
<1>7. ASSUME NEW r \in Runs, CleanRemove(r) PROVE Shrinks
  BY <1>5, <1>7 DEF CleanRemove, Remove
<1>8. ASSUME NEW s \in Sessions, Return(s) \/ TaskPush(s) \/ TaskCount(s)
      PROVE  UNCHANGED active
  BY <1>8 DEF Return, TaskPush, TaskCount, stateVars
<1>9. ASSUME NEW r \in Runs, CleanerStops(r) \/ Collect(r) \/ CleanPush(r) \/ CleanCount(r)
      PROVE  UNCHANGED active
  BY <1>9 DEF CleanerStops, Collect, CleanPush, CleanCount, stateVars
<1>10. \/ RecvRequest \/ CheckPerIp \/ CheckGlobal \/ CountSession \/ SeeShutdown \/ Stopped
       \/ ResetCounters \/ ClearHistory \/ CancelShutdown \/ UNCHANGED vars
       => UNCHANGED active
  BY DEF RecvRequest, CheckPerIp, CheckGlobal, CountSession, SeeShutdown, Stopped,
         ResetCounters, ClearHistory, CancelShutdown, vars, stateVars
<1> QED
  BY <1>2, <1>3, <1>4, <1>6, <1>7, <1>8, <1>9, <1>10 DEF Next, Main, Task, Clean

\* The history and the ids accounted for change by a push or a restart only.
LEMMA HistorySteps ==
  [Next]_vars =>
    \/ UNCHANGED <<history, accounted>>
    \/ ClearHistory
    \/ \E s \in Sessions : TaskPush(s)
    \/ \E r \in Runs : CleanPush(r)
<1>1. ASSUME NEW s \in Sessions, Task(s) \/ GoStale(s), ~TaskPush(s)
      PROVE  UNCHANGED <<history, accounted>>
  BY <1>1 DEF Task, Progress, Return, TaskRemove, TaskCount, GoStale, stateVars
<1>2. ASSUME NEW r \in Runs, Clean(r), ~CleanPush(r)
      PROVE  UNCHANGED <<history, accounted>>
  BY <1>2 DEF Clean, CleanerStops, Collect, CleanRemove, CleanCount, stateVars
<1>3. (Main /\ ~ClearHistory) \/ CancelShutdown \/ UNCHANGED vars
      => UNCHANGED <<history, accounted>>
  BY DEF Main, RecvRequest, CheckPerIp, CheckGlobal, CountSession, Register, SeeShutdown,
         Stopped, ResetCounters, ClearTable, CancelShutdown, vars, stateVars
<1> QED BY <1>1, <1>2, <1>3 DEF Next, Main

LEMMA TableTypeStep == TypeOK /\ [Next]_vars => TableType'
<1> SUFFICES ASSUME TypeOK, [Next]_vars PROVE TableType'
  OBVIOUS
<1>1. TableType /\ MainType /\ TaskType /\ CleanerType
  BY DEF TypeOK
<1>2. /\ DOMAIN active' \subseteq Sessions
      /\ active' \in [DOMAIN active' -> [client : Clients, stale : BOOLEAN]]
  <2>1. CASE Register
    BY <1>1, <2>1 DEF Register, TableType, MainType
  <2>2. CASE Shrinks
    BY <1>1, <2>2 DEF Shrinks, TableType
  <2> QED BY <2>1, <2>2, TableShrinks
<1>3. /\ history' \in Seq(Records) /\ Len(history') <= MaxHistory
      /\ accounted' \subseteq Sessions
  <2>1. CASE UNCHANGED <<history, accounted>>
    BY <1>1, <2>1 DEF TableType, Records
  <2>2. CASE ClearHistory
    <3>1. <<>> \in Seq(Records) /\ Len(<<>>) = 0
      BY EmptySeq
    <3> QED BY <2>2, <3>1, TableAssumption DEF ClearHistory
  <2>3. ASSUME NEW s \in Sessions, NEW o \in Outcomes, Push(s, o)
        PROVE  /\ history' \in Seq(Records) /\ Len(history') <= MaxHistory
               /\ accounted' \subseteq Sessions
    BY <1>1, <2>3, PushFacts DEF TableType, Push
  <2>4. ASSUME NEW s \in Sessions, TaskPush(s)
        PROVE  task[s].outcome \in Outcomes /\ Push(s, task[s].outcome)
    BY <1>1, <2>4 DEF TaskPush, TaskType
  <2>5. ASSUME NEW r \in Runs, CleanPush(r)
        PROVE  cleaner[r].id \in Sessions /\ Push(cleaner[r].id, "Failed")
    BY <1>1, <2>5 DEF CleanPush, CleanerType, Idle, Off
  <2>6. "Failed" \in Outcomes
    BY DEF Outcomes
  <2> QED BY <2>1, <2>2, <2>3, <2>4, <2>5, <2>6, HistorySteps
<1>4. totalSessions' \in Nat /\ totalErrors' \in Nat
  <2>1. totalSessions \in Nat /\ totalErrors \in Nat
    BY <1>1 DEF TableType
  <2>2. totalSessions' \in {totalSessions, totalSessions + 1, 0}
    BY DEF Next, Main, RecvRequest, CheckPerIp, CheckGlobal, CountSession, Register,
           SeeShutdown, Stopped, ResetCounters, ClearTable, ClearHistory, CancelShutdown,
           Task, Progress, Return, TaskRemove, TaskPush, TaskCount, GoStale,
           Clean, CleanerStops, Collect, CleanRemove, CleanPush, CleanCount, vars, stateVars
  <2>3. totalErrors' \in {totalErrors, totalErrors + 1, 0}
    BY DEF Next, Main, RecvRequest, CheckPerIp, CheckGlobal, CountSession, Register,
           SeeShutdown, Stopped, ResetCounters, ClearTable, ClearHistory, CancelShutdown,
           Task, Progress, Return, TaskRemove, TaskPush, TaskCount, GoStale,
           Clean, CleanerStops, Collect, CleanRemove, CleanPush, CleanCount, vars, stateVars
  <2> QED BY <2>1, <2>2, <2>3
<1> QED BY <1>2, <1>3, <1>4 DEF TableType, Records

LEMMA TypeStep == TypeOK /\ RestartType /\ [Next]_vars => TypeOK' /\ RestartType'
BY MainTypeStep, TableTypeStep, TaskTypeStep, CleanerTypeStep DEF TypeOK

\* Type correctness: the history holds at most MaxHistory records, and every actor
\* stands where the code can be.
THEOREM TypeCorrect == Spec => []TypeOK
<1>1. Init => TypeOK /\ RestartType
  BY TypeInit DEF Init, RestartType, Restarting
<1> QED BY <1>1, TypeStep, PTL DEF Spec

-----------------------------------------------------------------------------
(***************************************************************************)
(* The limits                                                              *)
(***************************************************************************)

\* What was read from the table still holds when the session is inserted: until
\* then the table only shrinks.
LimitsInv ==
  /\ LimitsHold
  /\ main.pc \in {"global", "admitted", "counted"} =>
       Cardinality(SessionsOf(main.client)) < PerIpMax
  /\ main.pc \in {"admitted", "counted"} => Cardinality(DOMAIN active) < MaxSessions

LEMMA TableFinite ==
  ASSUME TypeOK
  PROVE  /\ IsFiniteSet(DOMAIN active) /\ Cardinality(DOMAIN active) \in Nat
         /\ \A c \in Clients :
              IsFiniteSet(SessionsOf(c)) /\ Cardinality(SessionsOf(c)) \in Nat
<1>1. IsFiniteSet(DOMAIN active)
  BY TableAssumption, FS_Subset DEF TypeOK, TableType
<1>2. \A c \in Clients : SessionsOf(c) \in SUBSET DOMAIN active
  BY DEF SessionsOf
<1> QED BY <1>1, <1>2, FS_Subset, FS_CardinalityType

\* One element more, or some less
LEMMA CountsBelow ==
  ASSUME NEW S, IsFiniteSet(S), NEW n \in Nat
  PROVE  /\ Cardinality(S) < n => \A x : Cardinality(S \cup {x}) <= n
         /\ Cardinality(S) <= n => \A T \in SUBSET S : Cardinality(T) <= n
<1>1. Cardinality(S) \in Nat
  BY FS_CardinalityType
<1>2. ASSUME Cardinality(S) < n, NEW x PROVE Cardinality(S \cup {x}) <= n
  <2>1. Cardinality(S \cup {x}) = IF x \in S THEN Cardinality(S) ELSE Cardinality(S) + 1
    BY FS_AddElement
  <2> QED BY <1>1, <1>2, <2>1
<1>3. ASSUME Cardinality(S) <= n, NEW T \in SUBSET S PROVE Cardinality(T) <= n
  <2>1. Cardinality(T) <= Cardinality(S) /\ Cardinality(T) \in Nat
    BY FS_Subset, FS_CardinalityType
  <2> QED BY <1>1, <1>3, <2>1
<1> QED BY <1>2, <1>3

\* A table that shrinks counts no more, in all and for every client.
LEMMA ShrinksCounts ==
  ASSUME TypeOK, TypeOK', Shrinks
  PROVE  /\ Cardinality(DOMAIN active') \in 0 .. Cardinality(DOMAIN active)
         /\ \A c \in Clients :
              Cardinality(SessionsOf(c)') \in 0 .. Cardinality(SessionsOf(c))
<1>1. DOMAIN active' \in SUBSET DOMAIN active
  BY DEF Shrinks
<1>2. \A c \in Clients : SessionsOf(c)' \in SUBSET SessionsOf(c)
  BY DEF Shrinks, SessionsOf
<1>3. ASSUME NEW S, IsFiniteSet(S), NEW T \in SUBSET S
      PROVE  Cardinality(T) \in 0 .. Cardinality(S)
  BY <1>3, FS_Subset, FS_CardinalityType
<1> QED BY <1>1, <1>2, <1>3, TableFinite

LEMMA LimitsInit == Init => LimitsInv
<1> SUFFICES ASSUME Init PROVE LimitsInv
  OBVIOUS
<1>1. DOMAIN active = {} /\ \A c \in Clients : SessionsOf(c) = {}
  BY DEF Init, SessionsOf
<1>2. Cardinality({}) = 0
  BY FS_EmptySet
<1> QED BY SMTT(30), <1>1, <1>2, TableAssumption DEF Init, LimitsInv, LimitsHold

LEMMA LimitsStep == TypeOK /\ TypeOK' /\ LimitsInv /\ [Next]_vars => LimitsInv'
<1> SUFFICES ASSUME TypeOK, TypeOK', LimitsInv, [Next]_vars PROVE LimitsInv'
  OBVIOUS
<1>1. MaxSessions \in Nat /\ PerIpMax \in Nat
  BY TableAssumption
<1>2. CASE Register
  <2> DEFINE id == main.id  client == main.client
  <2>1. /\ id \in Sessions /\ client \in Clients
        /\ Cardinality(SessionsOf(client)) < PerIpMax
        /\ Cardinality(DOMAIN active) < MaxSessions
        /\ main' = [pc |-> "recv"]
    BY <1>2 DEF Register, LimitsInv, TypeOK, MainType
  <2>2. DOMAIN active' = DOMAIN active \cup {id}
    BY <1>2 DEF Register
  <2>3. Cardinality(DOMAIN active') <= MaxSessions
    BY <1>1, <2>1, <2>2, TableFinite, CountsBelow
  <2>4. ASSUME NEW c \in Clients PROVE Cardinality(SessionsOf(c)') <= PerIpMax
    <3>1. CASE c = client
      <4>1. SessionsOf(c)' = SessionsOf(c) \cup {id}
        BY <1>2, <2>2, <3>1 DEF Register, SessionsOf
      <4> QED BY <1>1, <2>1, <3>1, <4>1, TableFinite, CountsBelow
    <3>2. CASE c # client
      <4>1. SessionsOf(c)' \in SUBSET SessionsOf(c)
        BY <1>2, <2>2, <3>2 DEF Register, SessionsOf
      <4> QED BY <1>1, <4>1, TableFinite, CountsBelow DEF LimitsInv, LimitsHold
    <3> QED BY <3>1, <3>2
  <2> QED BY <2>1, <2>3, <2>4 DEF LimitsInv, LimitsHold
<1>3. CASE Shrinks
  <2>1. /\ Cardinality(DOMAIN active') \in 0 .. Cardinality(DOMAIN active)
        /\ \A c \in Clients :
             Cardinality(SessionsOf(c)') \in 0 .. Cardinality(SessionsOf(c))
    BY <1>3, ShrinksCounts
  <2>2. /\ Cardinality(DOMAIN active) \in Nat
        /\ \A c \in Clients : Cardinality(SessionsOf(c)) \in Nat
    BY TableFinite
  <2>3. LimitsHold'
    BY <1>1, <2>1, <2>2 DEF LimitsInv, LimitsHold
  <2>4. ASSUME main'.pc \in {"global", "admitted", "counted"}
        PROVE  /\ main'.client \in Clients
               /\ Cardinality(SessionsOf(main'.client)) < PerIpMax
               /\ main'.pc \in {"admitted", "counted"} =>
                    Cardinality(DOMAIN active) < MaxSessions
    <3>1. CASE UNCHANGED main
      BY <2>4, <3>1 DEF LimitsInv, TypeOK, MainType
    <3>2. ASSUME main.pc \in {"per_ip", "global", "admitted"}, NEW pc,
                 main' = [main EXCEPT !.pc = pc]
          PROVE  main'.pc = pc /\ main'.client = main.client /\ main.client \in Clients
      BY <3>2 DEF TypeOK, MainType
    <3>3. CASE CheckPerIp
      BY <2>4, <3>2, <3>3 DEF CheckPerIp, Room
    <3>4. CASE CheckGlobal
      BY <2>4, <3>2, <3>4 DEF CheckGlobal, Room, LimitsInv
    <3>5. CASE CountSession
      BY <2>4, <3>2, <3>5 DEF CountSession, LimitsInv
    <3>6. CASE RecvRequest
      BY <2>4, <3>6 DEF RecvRequest
    <3>7. SeeShutdown \/ Stopped \/ ResetCounters \/ ClearTable \/ ClearHistory \/ Register
          => main'.pc \in {"stopping", "stopped", "clear", "cleared", "recv"}
      BY DEF SeeShutdown, Stopped, ResetCounters, ClearTable, ClearHistory, Register
    <3>8. ~Main => UNCHANGED main
      BY DEF Next, CancelShutdown, Task, Progress, Return, TaskRemove, TaskPush, TaskCount,
             GoStale, Clean, CleanerStops, Collect, CleanRemove, CleanPush, CleanCount,
             vars, mainVars
    <3> QED BY <2>4, <3>1, <3>3, <3>4, <3>6, <3>7, <3>8, <3>5 DEF Main
  <2> QED BY <1>1, <2>1, <2>2, <2>3, <2>4 DEF LimitsInv
<1> QED BY <1>2, <1>3, TableShrinks

\* The sessions in the table never exceed max_sessions, nor those of one client
\* per_ip_max_sessions, whatever ends or is cleaned up while a request is admitted.
THEOREM LimitsAreKept == Spec => []LimitsHold
<1>1. Init => TypeOK /\ RestartType /\ LimitsInv
  BY TypeInit, LimitsInit DEF Init, RestartType, Restarting
<1>2. TypeOK /\ RestartType /\ LimitsInv /\ [Next]_vars
      => (TypeOK /\ RestartType /\ LimitsInv)'
  BY TypeStep, LimitsStep
<1>3. LimitsInv => LimitsHold
  BY DEF LimitsInv
<1> QED BY <1>1, <1>2, <1>3, PTL DEF Spec

-----------------------------------------------------------------------------
(***************************************************************************)
(* One place for each session                                              *)
(***************************************************************************)

\* Who is about to push the record of s: the clean-up of a run, or, as 0, its task.
Pushers(s) ==
  {r \in Runs : cleaner[r].pc = "push" /\ cleaner[r].id = s}
    \cup {n \in {0} : task[s].pc = "push"}

\* A session is in at most one place and, once registered in this run, in one;
\* one that is not registered yet is nowhere.
PlaceInv ==
  /\ main.pc \in {"per_ip", "global", "admitted", "counted"} => task[main.id].pc = "none"
  /\ \A s \in Sessions :
       /\ task[s].pc = "none" =>
            runOf[s] = 0 /\ s \notin DOMAIN active /\ s \notin accounted /\ Pushers(s) = {}
       /\ \A a, b \in Pushers(s) : a = b
       /\ s \in DOMAIN active => Pushers(s) = {}
       /\ s \in accounted => s \notin DOMAIN active /\ Pushers(s) = {}
       /\ ~Restarting /\ runOf[s] = run =>
            s \in DOMAIN active \/ s \in accounted \/ Pushers(s) # {}

LEMMA TransitIsPushers ==
  ASSUME NEW s \in Sessions
  PROVE  InTransit(s) <=> Pushers(s) # {}
BY DEF InTransit, Pushers

SamePushers == \A t \in Sessions : Pushers(t)' = Pushers(t)

SamePlaces == DOMAIN active' = DOMAIN active /\ UNCHANGED accounted

\* Only a removal that finds the session adds a pusher, and only a push removes one.
LEMMA PushersSteps ==
  ASSUME TypeOK, PlaceInv, [Next]_vars
  PROVE  \/ SamePushers /\ (SamePlaces \/ Register \/ ClearTable \/ ClearHistory)
         \/ \E s \in Sessions, n \in Runs \cup {0} :
              /\ \A t \in Sessions \ {s} : Pushers(t)' = Pushers(t)
              /\ \/ /\ s \in DOMAIN active /\ Pushers(s)' = Pushers(s) \cup {n}
                    /\ active' = [t \in DOMAIN active \ {s} |-> active[t]]
                    /\ UNCHANGED accounted
                 \/ /\ n \in Pushers(s) /\ Pushers(s)' = Pushers(s) \ {n}
                    /\ accounted' = accounted \cup {s}
                    /\ UNCHANGED active
<1>1. TaskType /\ CleanerType /\ MainType
  BY DEF TypeOK
<1>2. \A r \in Runs : r # 0
  BY DEF Runs
<1>3. ASSUME NEW s \in Sessions, TaskRemove(s), s \in DOMAIN active
      PROVE  /\ \A t \in Sessions \ {s} : Pushers(t)' = Pushers(t)
             /\ Pushers(s)' = Pushers(s) \cup {0}
             /\ active' = [t \in DOMAIN active \ {s} |-> active[t]]
             /\ UNCHANGED accounted
  <2>1. task' = [task EXCEPT ![s].pc = "push"] /\ UNCHANGED cleaner
    BY <1>3 DEF TaskRemove, Remove, TaskAt
  <2>2. task'[s].pc = "push" /\ \A t \in Sessions \ {s} : task'[t] = task[t]
    BY <1>1, <1>3, <2>1 DEF TaskType, TaskRemove
  <2> QED BY <1>3, <2>1, <2>2 DEF Pushers, TaskRemove, Remove
<1>4. ASSUME NEW s \in Sessions, TaskPush(s)
      PROVE  /\ \A t \in Sessions \ {s} : Pushers(t)' = Pushers(t)
             /\ 0 \in Pushers(s) /\ Pushers(s)' = Pushers(s) \ {0}
             /\ accounted' = accounted \cup {s}
             /\ UNCHANGED active
  <2>1. /\ task' = [task EXCEPT ![s].pc = AfterComplete(s)] /\ UNCHANGED cleaner
        /\ AfterComplete(s) \in {"count", "ended"}
    BY <1>4 DEF TaskPush, TaskAt, AfterComplete
  <2>2. task'[s].pc # "push" /\ \A t \in Sessions \ {s} : task'[t] = task[t]
    BY <1>1, <1>4, <2>1 DEF TaskType, TaskPush
  <2> QED BY <1>2, <1>4, <2>1, <2>2 DEF Pushers, TaskPush, Push
<1>5. ASSUME NEW r \in Runs, CleanRemove(r), UNCHANGED task,
             NEW s \in cleaner[r].ids, s \in DOMAIN active,
             cleaner' = [cleaner EXCEPT ![r] =
                           [pc |-> "push", id |-> s, ids |-> cleaner[r].ids \ {s}]]
      PROVE  /\ s \in Sessions
             /\ \A t \in Sessions \ {s} : Pushers(t)' = Pushers(t)
             /\ Pushers(s)' = Pushers(s) \cup {r}
  <2>1. cleaner[r].pc = "remove" /\ s \in Sessions
    BY <1>1, <1>5 DEF CleanRemove, CleanerType, Idle, Off
  <2>2. /\ cleaner'[r].pc = "push" /\ cleaner'[r].id = s
        /\ \A q \in Runs \ {r} : cleaner'[q] = cleaner[q]
    BY <1>1, <1>5 DEF CleanerType
  <2> QED BY <1>5, <2>1, <2>2 DEF Pushers
<1>6. ASSUME NEW r \in Runs, CleanPush(r)
      PROVE  \E s \in Sessions :
               /\ \A t \in Sessions \ {s} : Pushers(t)' = Pushers(t)
               /\ r \in Pushers(s) /\ Pushers(s)' = Pushers(s) \ {r}
               /\ accounted' = accounted \cup {s}
               /\ UNCHANGED active
  <2>1. /\ cleaner[r].pc = "push"
        /\ cleaner[r] \in [pc : {"push", "count"}, id : Sessions, ids : SUBSET Sessions]
    BY <1>1, <1>6 DEF CleanPush, CleanerType, Idle, Off
  <2>2. /\ cleaner'[r].pc = "count" /\ \A q \in Runs \ {r} : cleaner'[q] = cleaner[q]
        /\ UNCHANGED task
    BY <1>1, <1>6, <2>1 DEF CleanerType, CleanPush, CleanerAt, taskVars
  <2>3. PICK s \in Sessions : s = cleaner[r].id
    BY <2>1
  <2>4. /\ \A t \in Sessions \ {s} : Pushers(t)' = Pushers(t)
        /\ r \in Pushers(s) /\ Pushers(s)' = Pushers(s) \ {r}
    BY <1>2, <2>1, <2>2, <2>3 DEF Pushers
  <2>5. accounted' = accounted \cup {s} /\ UNCHANGED active
    BY <1>6, <2>3 DEF CleanPush, Push
  <2> QED BY <2>3, <2>4, <2>5
<1>7. ASSUME NEW r \in Runs, UNCHANGED task,
             cleaner[r].pc # "push", cleaner'[r].pc # "push",
             \A q \in Runs \ {r} : cleaner'[q] = cleaner[q]
      PROVE  \A t \in Sessions : Pushers(t)' = Pushers(t)
  BY <1>7 DEF Pushers
<1>8. ASSUME NEW s \in Sessions, UNCHANGED cleaner,
             task[s].pc # "push", task'[s].pc # "push",
             \A t \in Sessions \ {s} : task'[t] = task[t]
      PROVE  \A t \in Sessions : Pushers(t)' = Pushers(t)
  BY <1>8 DEF Pushers
<1>9. ASSUME NEW s \in Sessions, Task(s) \/ GoStale(s), ~TaskPush(s),
             ~(TaskRemove(s) /\ s \in DOMAIN active)
      PROVE  SamePushers /\ SamePlaces
  <2>1. CASE Progress(s) \/ GoStale(s)
    BY <2>1 DEF Progress, Update, GoStale, taskVars, Pushers, SamePushers, SamePlaces
  <2>2. CASE Return(s)
    BY <1>1, <1>8, <2>2 DEF Return, TaskType, stateVars, SamePushers, SamePlaces
  <2>3. CASE TaskRemove(s)
    <3>1. \E pc \in {"count", "ended"} : TaskAt(s, pc)
      BY <1>9, <2>3 DEF TaskRemove, Remove, AfterComplete
    <3>2. SamePushers
      BY <1>1, <1>8, <2>3, <3>1 DEF TaskRemove, TaskType, TaskAt, SamePushers
    <3>3. SamePlaces
      BY <1>9, <2>3 DEF TaskRemove, Remove, SamePlaces
    <3> QED BY <3>2, <3>3
  <2>4. CASE TaskCount(s)
    BY <1>1, <1>8, <2>4 DEF TaskCount, TaskType, TaskAt, SamePushers, SamePlaces
  <2> QED BY <1>9, <2>1, <2>2, <2>3, <2>4 DEF Task
<1>10. ASSUME NEW r \in Runs, CleanerStops(r) \/ Collect(r) \/ CleanCount(r)
       PROVE  SamePushers /\ SamePlaces
  <2>1. UNCHANGED task /\ cleaner[r].pc \in {"idle", "count"}
    BY <1>10 DEF CleanerStops, Collect, CleanCount, taskVars, Idle
  <2>2. \E at \in {Idle, Off} \cup {[pc |-> "remove", ids |-> ids] : ids \in SUBSET Sessions} :
          cleaner' = [cleaner EXCEPT ![r] = at]
    <3>1. ASSUME NEW ids \in SUBSET Sessions, CleanNext(r, ids)
          PROVE  \E at \in {Idle} \cup {[pc |-> "remove", ids |-> i] : i \in SUBSET Sessions} :
                   cleaner' = [cleaner EXCEPT ![r] = at]
      BY <3>1 DEF CleanNext, CleanerAt
    <3>2. CASE CleanerStops(r)
      BY <3>2 DEF CleanerStops, CleanerAt
    <3>3. CASE Collect(r)
      <4>1. {s \in DOMAIN active : active[s].stale} \in SUBSET Sessions
        BY DEF TypeOK, TableType
      <4> QED BY <3>1, <3>3, <4>1 DEF Collect
    <3>4. CASE CleanCount(r)
      <4>1. cleaner[r].ids \in SUBSET Sessions
        BY <1>1, <3>4 DEF CleanCount, CleanerType, Idle, Off
      <4> QED BY <3>1, <3>4, <4>1 DEF CleanCount
    <3> QED BY <1>10, <3>2, <3>3, <3>4
  <2>3. cleaner'[r].pc # "push" /\ \A q \in Runs \ {r} : cleaner'[q] = cleaner[q]
    BY <1>1, <2>2 DEF CleanerType, Idle, Off
  <2>4. SamePlaces
    BY <1>10 DEF CleanerStops, Collect, CleanCount, stateVars, SamePlaces
  <2> QED BY <1>7, <2>1, <2>3, <2>4 DEF SamePushers
<1>11. ASSUME NEW r \in Runs, CleanRemove(r)
       PROVE  \/ SamePushers /\ SamePlaces
              \/ \E s \in Sessions :
                   /\ \A t \in Sessions \ {s} : Pushers(t)' = Pushers(t)
                   /\ s \in DOMAIN active /\ Pushers(s)' = Pushers(s) \cup {r}
                   /\ active' = [t \in DOMAIN active \ {s} |-> active[t]]
                   /\ UNCHANGED accounted
  <2>1. PICK s \in cleaner[r].ids :
          /\ active' = [t \in DOMAIN active \ {s} |-> active[t]]
          /\ cleaner' = [cleaner EXCEPT ![r] =
               [pc |-> IF s \in DOMAIN active THEN "push" ELSE "count",
                id |-> s, ids |-> cleaner[r].ids \ {s}]]
    BY <1>11 DEF CleanRemove, Remove, CleanerAt
  <2>2. UNCHANGED <<task, accounted>> /\ cleaner[r].pc = "remove"
    BY <1>11 DEF CleanRemove, taskVars
  <2>3. CASE s \in DOMAIN active
    BY <1>5, <1>11, <2>1, <2>2, <2>3
  <2>4. CASE s \notin DOMAIN active
    <3>1. cleaner'[r].pc = "count" /\ \A q \in Runs \ {r} : cleaner'[q] = cleaner[q]
      BY <1>1, <2>1, <2>4 DEF CleanerType
    <3>2. SamePlaces
      BY <2>1, <2>2, <2>4 DEF SamePlaces
    <3> QED BY <1>7, <2>2, <3>1, <3>2 DEF SamePushers
  <2> QED BY <2>3, <2>4
<1>12. Register => SamePushers
  BY <1>1, <1>8 DEF Register, TaskType, MainType, PlaceInv, SamePushers
<1>13. UNCHANGED <<task, cleaner>> => SamePushers
  BY DEF Pushers, SamePushers
<1>14. (Main /\ ~Register) \/ CancelShutdown \/ UNCHANGED vars => UNCHANGED <<task, cleaner>>
  BY DEF Main, RecvRequest, CheckPerIp, CheckGlobal, CountSession, SeeShutdown, Stopped,
         ResetCounters, ClearTable, ClearHistory, CancelShutdown, vars, taskVars
<1>15. \/ Main /\ ~Register /\ ~ClearTable /\ ~ClearHistory
       \/ CancelShutdown \/ UNCHANGED vars
       => SamePlaces
  BY DEF Main, RecvRequest, CheckPerIp, CheckGlobal, CountSession, SeeShutdown, Stopped,
         ResetCounters, CancelShutdown, vars, stateVars, SamePlaces
<1>16. CASE \E s \in Sessions : Task(s) \/ GoStale(s)
  BY <1>3, <1>4, <1>9, <1>16
<1>17. CASE \E r \in Runs : Clean(r)
  <2>1. PICK r \in Runs : Clean(r)
    BY <1>17
  <2>2. CASE CleanPush(r)
    BY <1>6, <2>2
  <2>3. CASE CleanRemove(r)
    BY <1>11, <2>3
  <2> QED BY <1>10, <2>1, <2>2, <2>3 DEF Clean
<1> QED BY <1>12, <1>13, <1>14, <1>15, <1>16, <1>17 DEF Next, Main

\* Runs change by a restart, sessions start by a registration.
Frame ==
  /\ run' = run /\ runOf' = runOf
  /\ ~Restarting' => ~Restarting
  /\ \A s \in Sessions : task'[s].pc = "none" => task[s].pc = "none"

LEMMA FrameSteps == TypeOK /\ [Next]_vars => Register \/ ClearHistory \/ Frame
<1> SUFFICES ASSUME TypeOK, [Next]_vars, ~Register, ~ClearHistory PROVE Frame
  OBVIOUS
<1>1. TaskType
  BY DEF TypeOK
<1>2. run' = run /\ runOf' = runOf
  <2>1. (Main /\ ~Register /\ ~ClearHistory) \/ CancelShutdown \/ UNCHANGED vars
        => UNCHANGED <<run, runOf>>
    BY DEF Main, RecvRequest, CheckPerIp, CheckGlobal, CountSession, SeeShutdown, Stopped,
           ResetCounters, ClearTable, CancelShutdown, vars, mainVars, taskVars
  <2>2. ASSUME NEW s \in Sessions, Task(s) \/ GoStale(s) PROVE UNCHANGED <<run, runOf>>
    BY <2>2 DEF Task, Progress, Return, TaskRemove, TaskPush, TaskCount, GoStale,
                mainVars, taskVars
  <2>3. ASSUME NEW r \in Runs, Clean(r) PROVE UNCHANGED <<run, runOf>>
    BY <2>3 DEF Clean, CleanerStops, Collect, CleanRemove, CleanPush, CleanCount,
                mainVars, taskVars
  <2> QED BY <2>1, <2>2, <2>3 DEF Next, Main
<1>3. ~Restarting' => ~Restarting
  <2>1. RecvRequest \/ CheckPerIp \/ CheckGlobal \/ CountSession \/ SeeShutdown \/ Stopped
        => ~Restarting
    BY DEF RecvRequest, CheckPerIp, CheckGlobal, CountSession, SeeShutdown, Stopped, Restarting
  <2>2. ResetCounters \/ ClearTable => Restarting'
    BY DEF ResetCounters, ClearTable, Restarting
  <2>3. ~Main => UNCHANGED main
    BY DEF Next, CancelShutdown, Task, Progress, Return, TaskRemove, TaskPush, TaskCount,
           GoStale, Clean, CleanerStops, Collect, CleanRemove, CleanPush, CleanCount,
           vars, mainVars
  <2> QED BY <2>1, <2>2, <2>3 DEF Main, Restarting
<1>4. \A s \in Sessions : task'[s].pc = "none" => task[s].pc = "none"
  <2>1. UNCHANGED task \/ \E s \in Sessions : Task(s)
    BY DEF Next, Main, RecvRequest, CheckPerIp, CheckGlobal, CountSession, SeeShutdown,
           Stopped, ResetCounters, ClearTable, CancelShutdown, GoStale, Clean,
           CleanerStops, Collect, CleanRemove, CleanPush, CleanCount, vars, taskVars
  <2>2. ASSUME NEW s \in Sessions, Task(s)
        PROVE  /\ task'[s].pc = "none" => task[s].pc = "none"
               /\ \A t \in Sessions \ {s} : task'[t] = task[t]
    <3>1. CASE Progress(s)
      BY <3>1 DEF Progress, taskVars
    <3>2. CASE Return(s)
      BY <1>1, <3>2 DEF Return, TaskType
    <3>3. ASSUME NEW pc, pc # "none", TaskAt(s, pc), task[s].pc \in {"remove", "push", "count"}
          PROVE  /\ task'[s].pc = "none" => task[s].pc = "none"
                 /\ \A t \in Sessions \ {s} : task'[t] = task[t]
      BY <1>1, <3>3 DEF TaskAt, TaskType
    <3>4. CASE TaskRemove(s) \/ TaskPush(s) \/ TaskCount(s)
      BY <3>3, <3>4 DEF TaskRemove, Remove, TaskPush, TaskCount, AfterComplete
    <3> QED BY <2>2, <3>1, <3>2, <3>4 DEF Task
  <2> QED BY <2>1, <2>2
<1> QED BY <1>2, <1>3, <1>4 DEF Frame

LEMMA PlaceInit == Init => PlaceInv
<1> SUFFICES ASSUME Init PROVE PlaceInv
  OBVIOUS
<1>1. \A s \in Sessions : Pushers(s) = {}
  BY DEF Init, Pushers, Idle
<1> QED BY <1>1 DEF Init, PlaceInv

\* A request that is being admitted belongs to a session that has no task yet.
LEMMA AdmittedStep ==
  ASSUME TypeOK, PlaceInv, [Next]_vars,
         main'.pc \in {"per_ip", "global", "admitted", "counted"}
  PROVE  task'[main'.id].pc = "none"
<1>1. MainType /\ TaskType
  BY DEF TypeOK
<1>2. CASE RecvRequest
  BY <1>2 DEF RecvRequest, taskVars
<1>3. CASE CheckPerIp \/ CheckGlobal \/ CountSession
  <2>1. /\ main.pc \in {"per_ip", "global", "admitted"} /\ UNCHANGED task
        /\ \E pc \in {"global", "admitted", "counted"} : main' = [main EXCEPT !.pc = pc]
    BY <1>3 DEF CheckPerIp, CheckGlobal, CountSession, taskVars
  <2>2. main'.id = main.id
    BY <1>1, <2>1 DEF MainType
  <2> QED BY <2>1, <2>2 DEF PlaceInv
<1>4. CASE UNCHANGED main
  <2>1. main.id \in Sessions /\ task[main.id].pc = "none"
    BY <1>1, <1>4 DEF MainType, PlaceInv
  <2>2. ASSUME NEW s \in Sessions, Task(s)
        PROVE  s # main.id /\ \A t \in Sessions \ {s} : task'[t] = task[t]
    BY <1>1, <2>1, <2>2 DEF Task, Progress, Return, TaskRemove, Remove, TaskPush, TaskCount,
                            TaskAt, TaskType, taskVars
  <2>3. UNCHANGED task \/ \E s \in Sessions : Task(s)
    <3>1. ~Register
      BY <1>4 DEF Register
    <3> QED
      BY <3>1 DEF Next, Main, RecvRequest, CheckPerIp, CheckGlobal, CountSession,
             SeeShutdown, Stopped, ResetCounters, ClearTable, ClearHistory, CancelShutdown,
             GoStale, Clean, CleanerStops, Collect, CleanRemove, CleanPush, CleanCount,
             vars, taskVars
  <2> QED BY <1>4, <2>1, <2>2, <2>3
<1>5. SeeShutdown \/ Stopped \/ ResetCounters \/ ClearTable \/ ClearHistory \/ Register
      => main'.pc \in {"stopping", "stopped", "clear", "cleared", "recv"}
  BY DEF SeeShutdown, Stopped, ResetCounters, ClearTable, ClearHistory, Register
<1>6. ~Main => UNCHANGED main
  BY DEF Next, CancelShutdown, Task, Progress, Return, TaskRemove, TaskPush, TaskCount,
         GoStale, Clean, CleanerStops, Collect, CleanRemove, CleanPush, CleanCount,
         vars, mainVars
<1> QED BY <1>2, <1>3, <1>4, <1>5, <1>6 DEF Main

LEMMA PlaceStep == TypeOK /\ PlaceInv /\ [Next]_vars => PlaceInv'
<1> SUFFICES ASSUME TypeOK, PlaceInv, [Next]_vars PROVE PlaceInv'
  OBVIOUS
<1>1. TaskType /\ MainType /\ TableType
  BY DEF TypeOK
<1>2. main'.pc \in {"per_ip", "global", "admitted", "counted"} => task'[main'.id].pc = "none"
  BY AdmittedStep
<1>3. CASE SamePushers /\ Register
  <2>1. /\ main.id \in Sessions /\ task[main.id].pc = "none" /\ task'[main.id].pc = "running"
        /\ \A t \in Sessions \ {main.id} : task'[t] = task[t] /\ runOf'[t] = runOf[t]
        /\ DOMAIN active' = DOMAIN active \cup {main.id}
        /\ UNCHANGED <<accounted, run>> /\ ~Restarting
    BY <1>1, <1>3 DEF Register, MainType, TaskType, PlaceInv, Restarting
  <2> QED BY <1>2, <1>3, <2>1 DEF PlaceInv, SamePushers
<1>4. CASE SamePushers /\ ClearTable
  <2>1. UNCHANGED <<task, runOf, accounted>> /\ DOMAIN active' = {} /\ Restarting'
    BY <1>4 DEF ClearTable, Restarting, taskVars
  <2> QED BY <1>2, <1>4, <2>1 DEF PlaceInv, SamePushers
<1>5. CASE SamePushers /\ ClearHistory
  <2>1. /\ UNCHANGED <<task, runOf, active>> /\ accounted' = {}
        /\ \A s \in Sessions : runOf[s] # run'
    BY <1>1, <1>5, TableAssumption DEF ClearHistory, TaskType, MainType, Runs, taskVars
  <2> QED BY <1>2, <1>5, <2>1 DEF PlaceInv, SamePushers
<1>6. CASE SamePushers /\ SamePlaces /\ ~Register /\ ~ClearHistory
  BY <1>2, <1>6, FrameSteps DEF PlaceInv, SamePushers, SamePlaces, Frame
<1>7. ASSUME NEW s \in Sessions, NEW n \in Runs \cup {0},
             \A t \in Sessions \ {s} : Pushers(t)' = Pushers(t),
             \/ /\ s \in DOMAIN active /\ Pushers(s)' = Pushers(s) \cup {n}
                /\ active' = [t \in DOMAIN active \ {s} |-> active[t]]
                /\ UNCHANGED accounted
             \/ /\ n \in Pushers(s) /\ Pushers(s)' = Pushers(s) \ {n}
                /\ accounted' = accounted \cup {s}
                /\ UNCHANGED active
      PROVE  PlaceInv'
  <2>1. ~Register /\ ~ClearHistory
    <3>1. Register => main.id \in DOMAIN active' /\ main.id \notin DOMAIN active
      BY <1>1 DEF Register, PlaceInv, MainType
    <3>2. ClearHistory => UNCHANGED active /\ accounted' = {}
      BY DEF ClearHistory
    <3> QED BY <1>7, <3>1, <3>2
  <2>2. Frame
    BY <2>1, FrameSteps
  <2>3. CASE s \in DOMAIN active /\ Pushers(s)' = Pushers(s) \cup {n}
             /\ active' = [t \in DOMAIN active \ {s} |-> active[t]] /\ UNCHANGED accounted
    <3>1. DOMAIN active' = DOMAIN active \ {s} /\ Pushers(s)' = {n} /\ s \notin accounted
      BY <2>3 DEF PlaceInv
    <3> QED BY <1>2, <1>7, <2>2, <2>3, <3>1 DEF PlaceInv, Frame
  <2>4. CASE n \in Pushers(s) /\ Pushers(s)' = Pushers(s) \ {n}
             /\ accounted' = accounted \cup {s} /\ UNCHANGED active
    <3>1. Pushers(s)' = {} /\ s \notin DOMAIN active /\ task[s].pc # "none"
      BY <2>4 DEF PlaceInv
    <3> QED BY <1>2, <1>7, <2>2, <2>4, <3>1 DEF PlaceInv, Frame
  <2> QED BY <1>7, <2>3, <2>4
<1> QED BY <1>3, <1>4, <1>5, <1>6, <1>7, PushersSteps

-----------------------------------------------------------------------------
(***************************************************************************)
(* The number of sessions                                                  *)
(***************************************************************************)

OfThisRun == {s \in Sessions : runOf[s] = run}
Pending == IF main.pc = "counted" THEN 1 ELSE 0

\* What total_sessions is, during a restart too
CountInv ==
  IF Restarting THEN totalSessions = 0
                ELSE totalSessions = Cardinality(OfThisRun) + Pending

LEMMA CountInit == Init => CountInv
<1> SUFFICES ASSUME Init PROVE CountInv
  OBVIOUS
<1>1. OfThisRun = {}
  BY DEF Init, OfThisRun
<1>2. Cardinality({}) = 0
  BY FS_EmptySet
<1> QED BY <1>1, <1>2 DEF Init, CountInv, Pending, Restarting

LEMMA CountStep == TypeOK /\ PlaceInv /\ CountInv /\ [Next]_vars => CountInv'
<1> SUFFICES ASSUME TypeOK, PlaceInv, CountInv, [Next]_vars PROVE CountInv'
  OBVIOUS
<1>1. TaskType /\ MainType
  BY DEF TypeOK
<1>2. IsFiniteSet(OfThisRun) /\ Cardinality(OfThisRun) \in Nat
  BY TableAssumption, FS_Subset, FS_CardinalityType DEF OfThisRun
<1>3. CASE Register
  <2>1. /\ main.id \in Sessions /\ main.id \notin OfThisRun
        /\ OfThisRun' = OfThisRun \cup {main.id}
    BY <1>1, <1>3, TableAssumption DEF Register, MainType, TaskType, PlaceInv, OfThisRun, Runs
  <2>2. Cardinality(OfThisRun') = Cardinality(OfThisRun) + 1
    BY <1>2, <2>1, FS_AddElement
  <2>3. /\ ~Restarting /\ ~Restarting' /\ Pending = 1 /\ Pending' = 0
        /\ totalSessions' = totalSessions
    BY <1>3 DEF Register, Restarting, Pending
  <2> QED BY <1>2, <2>2, <2>3 DEF CountInv
<1>4. CASE CountSession
  <2>1. OfThisRun' = OfThisRun /\ ~Restarting
    BY <1>4 DEF CountSession, OfThisRun, Restarting, taskVars
  <2>2. Pending = 0 /\ totalSessions = Cardinality(OfThisRun)
    BY <1>2, <1>4, <2>1 DEF CountSession, Pending, CountInv
  <2>3. \/ main'.pc = "recv" /\ totalSessions' = totalSessions
        \/ main'.pc = "counted" /\ totalSessions' = totalSessions + 1
    BY <1>1, <1>4 DEF CountSession, MainType
  <2> QED BY <1>2, <2>1, <2>2, <2>3 DEF CountInv, Pending, Restarting
<1>5. CASE ResetCounters \/ ClearTable
  BY <1>5 DEF ResetCounters, ClearTable, CountInv, Restarting
<1>6. CASE ClearHistory
  <2>1. OfThisRun' = {}
    BY <1>1, <1>6, TableAssumption DEF ClearHistory, OfThisRun, TaskType, MainType, Runs, taskVars
  <2>2. Cardinality({}) = 0
    BY FS_EmptySet
  <2>3. totalSessions' = 0 /\ ~Restarting' /\ Pending' = 0
    BY <1>6 DEF ClearHistory, CountInv, Restarting, Pending
  <2> QED BY <2>1, <2>2, <2>3 DEF CountInv
<1>7. CASE RecvRequest \/ CheckPerIp \/ CheckGlobal \/ SeeShutdown \/ Stopped
  <2>1. UNCHANGED <<totalSessions, runOf, run>> /\ ~Restarting /\ Pending = 0
    BY <1>7 DEF RecvRequest, CheckPerIp, CheckGlobal, SeeShutdown, Stopped, Restarting,
                Pending, stateVars, taskVars
  <2>2. main'.pc \in {"recv", "per_ip", "global", "admitted", "stopping", "stopped"}
    BY <1>1, <1>7 DEF RecvRequest, CheckPerIp, CheckGlobal, SeeShutdown, Stopped, MainType
  <2> QED BY <2>1, <2>2 DEF CountInv, OfThisRun, Restarting, Pending
<1>8. ~Main => UNCHANGED <<main, totalSessions, runOf, run>>
  BY DEF Next, CancelShutdown, Task, Progress, Return, TaskRemove, TaskPush, TaskCount,
         GoStale, Clean, CleanerStops, Collect, CleanRemove, CleanPush, CleanCount,
         vars, mainVars, stateVars, taskVars
<1> QED
  BY <1>3, <1>4, <1>5, <1>6, <1>7, <1>8 DEF Main, CountInv, OfThisRun, Restarting, Pending

LEMMA PlacesFollow == TypeOK /\ PlaceInv /\ CountInv => OnePlaceEach
<1> SUFFICES ASSUME TypeOK, PlaceInv, CountInv, ~Restarting PROVE OnePlaceEach
  BY DEF OnePlaceEach
<1>1. \A s \in Sessions :
        /\ runOf[s] = run => s \in DOMAIN active \/ InTransit(s) \/ s \in accounted
        /\ ~(s \in DOMAIN active /\ InTransit(s))
        /\ s \in accounted => s \notin DOMAIN active /\ ~InTransit(s)
  BY TransitIsPushers DEF PlaceInv
<1>2. totalSessions = Cardinality({s \in Sessions : runOf[s] = run})
                       + (IF main.pc = "counted" THEN 1 ELSE 0)
  BY DEF CountInv, OfThisRun, Pending
<1> QED BY <1>1, <1>2 DEF OnePlaceEach

-----------------------------------------------------------------------------
(***************************************************************************)
(* The transfer history                                                    *)
(***************************************************************************)

HistoryInv ==
  /\ \A i \in 1 .. Len(history) : history[i].id \in accounted
  /\ RecordedOnce
  /\ CompletedIsTrue

\* A task that came to its end does not change its mind.
LEMMA OutcomeStays ==
  ASSUME TypeOK, PlaceInv, [Next]_vars, NEW s \in Sessions,
         task[s].pc \in {"push", "count", "ended"}
  PROVE  task'[s].pc \in {"push", "count", "ended"} /\ task'[s].outcome = task[s].outcome
<1>1. TaskType /\ MainType
  BY DEF TypeOK
<1>2. CASE UNCHANGED task
  BY <1>2
<1>3. CASE Register
  BY <1>1, <1>3 DEF Register, PlaceInv, MainType, TaskType
<1>4. ASSUME NEW t \in Sessions, Task(t) PROVE
        task'[s].pc \in {"push", "count", "ended"} /\ task'[s].outcome = task[s].outcome
  <2>1. CASE Progress(t)
    BY <2>1 DEF Progress, taskVars
  <2>2. CASE Return(t)
    BY <1>1, <2>2 DEF Return, TaskType
  <2>3. CASE TaskRemove(t)
    BY <1>1, <2>3 DEF TaskRemove, Remove, TaskAt, TaskType
  <2>4. CASE TaskPush(t) \/ TaskCount(t)
    <3>1. \E pc \in {"count", "ended"} : task' = [task EXCEPT ![t].pc = pc]
      BY <2>4 DEF TaskPush, TaskCount, TaskAt, AfterComplete
    <3> QED BY <1>1, <3>1 DEF TaskType
  <2> QED BY <1>4, <2>1, <2>2, <2>3, <2>4 DEF Task
<1>5. Register \/ UNCHANGED task \/ \E t \in Sessions : Task(t)
  BY DEF Next, Main, RecvRequest, CheckPerIp, CheckGlobal, CountSession, SeeShutdown,
         Stopped, ResetCounters, ClearTable, ClearHistory, CancelShutdown, GoStale, Clean,
         CleanerStops, Collect, CleanRemove, CleanPush, CleanCount, vars, taskVars
<1> QED BY <1>2, <1>3, <1>4, <1>5

LEMMA ShiftedIndex ==
  ASSUME NEW n \in Nat, NEW shift \in Nat, NEW i \in 1 .. n + 1 - shift
  PROVE  i + shift = n + 1 \/ i + shift \in 1 .. n
OBVIOUS

LEMMA HistoryStep == TypeOK /\ TypeOK' /\ PlaceInv /\ HistoryInv /\ [Next]_vars => HistoryInv'
<1> SUFFICES ASSUME TypeOK, TypeOK', PlaceInv, HistoryInv, [Next]_vars PROVE HistoryInv'
  OBVIOUS
<1>1. TaskType /\ CleanerType
  BY DEF TypeOK
<1>2. /\ Len(history) \in Nat
      /\ \A i \in 1 .. Len(history) : history[i].id \in Sessions /\ history[i].id \in accounted
  <2>1. history \in Seq(Records) /\ accounted \subseteq Sessions
    BY DEF TypeOK, TableType, Records
  <2> QED BY <2>1, LenProperties DEF HistoryInv
<1>3. CASE UNCHANGED <<history, accounted>>
  <2>1. RecordedOnce' /\ \A i \in 1 .. Len(history') : history'[i].id \in accounted'
    BY <1>3 DEF HistoryInv, RecordedOnce
  <2>2. CompletedIsTrue'
    BY <1>2, <1>3, OutcomeStays DEF HistoryInv, CompletedIsTrue
  <2> QED BY <2>1, <2>2 DEF HistoryInv
<1>4. CASE ClearHistory
  <2>1. 1 .. Len(history') = {}
    BY <1>4, EmptySeq DEF ClearHistory
  <2> QED BY <2>1 DEF HistoryInv, RecordedOnce, CompletedIsTrue
<1>5. ASSUME NEW s \in Sessions, NEW o \in Outcomes, Push(s, o), Pushers(s) # {},
             o = "Completed" => task'[s].pc \in {"count", "ended"} /\ task'[s].outcome = o
      PROVE  HistoryInv'
  <2>1. PICK shift \in Nat :
          /\ Len(history') = Len(history) + 1 - shift
          /\ \A i \in 1 .. Len(history') :
               history'[i] = IF i + shift = Len(history) + 1
                               THEN [id |-> s, status |-> o] ELSE history[i + shift]
    BY <1>5, PushFacts
  <2>2. s \notin accounted /\ accounted' = accounted \cup {s}
    BY <1>5 DEF PlaceInv, Push
  <2>3. \A i \in 1 .. Len(history') :
          \/ i + shift = Len(history) + 1 /\ history'[i] = [id |-> s, status |-> o]
          \/ i + shift \in 1 .. Len(history) /\ history'[i] = history[i + shift]
    <3> SUFFICES ASSUME NEW i \in 1 .. Len(history')
                 PROVE  \/ /\ i + shift = Len(history) + 1
                           /\ history'[i] = [id |-> s, status |-> o]
                        \/ /\ i + shift \in 1 .. Len(history)
                           /\ history'[i] = history[i + shift]
      OBVIOUS
    <3>1. i + shift = Len(history) + 1 \/ i + shift \in 1 .. Len(history)
      BY <1>2, <2>1, ShiftedIndex
    <3>2. i + shift \in 1 .. Len(history) => i + shift # Len(history) + 1
      BY <1>2
    <3> QED BY <2>1, <3>1, <3>2
  <2>4. \A i \in 1 .. Len(history') : history'[i].id \in accounted'
    BY <1>2, <2>2, <2>3
  <2>5. RecordedOnce'
    <3> SUFFICES ASSUME NEW i \in 1 .. Len(history'), NEW j \in 1 .. Len(history'),
                        history'[i].id = history'[j].id
                 PROVE  i = j
      BY DEF RecordedOnce
    <3>1. \/ i + shift = Len(history) + 1 /\ history'[i].id = s
          \/ /\ i + shift \in 1 .. Len(history) /\ history'[i].id = history[i + shift].id
             /\ history'[i].id # s
      BY <1>2, <2>2, <2>3
    <3>2. \/ j + shift = Len(history) + 1 /\ history'[j].id = s
          \/ /\ j + shift \in 1 .. Len(history) /\ history'[j].id = history[j + shift].id
             /\ history'[j].id # s
      BY <1>2, <2>2, <2>3
    <3>3. i + shift = j + shift
      BY <3>1, <3>2 DEF HistoryInv, RecordedOnce
    <3>4. Len(history') \in Nat
      BY LenProperties DEF TypeOK, TableType
    <3> QED BY <2>1, <3>3, <3>4
  <2>6. CompletedIsTrue'
    <3> SUFFICES ASSUME NEW i \in 1 .. Len(history'), history'[i].status = "Completed"
                 PROVE  /\ task'[history'[i].id].pc \in {"push", "count", "ended"}
                        /\ task'[history'[i].id].outcome = "Completed"
      BY DEF CompletedIsTrue
    <3>1. CASE history'[i] = [id |-> s, status |-> o]
      BY <1>5, <3>1
    <3>2. CASE i + shift \in 1 .. Len(history) /\ history'[i] = history[i + shift]
      BY <1>2, <3>2, OutcomeStays DEF HistoryInv, CompletedIsTrue
    <3> QED BY <2>3, <3>1, <3>2
  <2> QED BY <2>4, <2>5, <2>6 DEF HistoryInv
<1>6. ASSUME NEW s \in Sessions, TaskPush(s) PROVE HistoryInv'
  <2>1. Push(s, task[s].outcome) /\ task[s].outcome \in Outcomes
    BY <1>1, <1>6 DEF TaskPush, TaskType
  <2>2. Pushers(s) # {}
    BY <1>6 DEF TaskPush, Pushers
  <2>3. task'[s].pc \in {"count", "ended"} /\ task'[s].outcome = task[s].outcome
    <3>1. \E pc \in {"count", "ended"} : task' = [task EXCEPT ![s].pc = pc]
      BY <1>6 DEF TaskPush, TaskAt, AfterComplete
    <3> QED BY <1>1, <1>6, <3>1 DEF TaskType, TaskPush
  <2> QED BY <1>5, <2>1, <2>2, <2>3
<1>7. ASSUME NEW r \in Runs, CleanPush(r) PROVE HistoryInv'
  <2>1. PICK s \in Sessions : s = cleaner[r].id
    BY <1>1, <1>7 DEF CleanPush, CleanerType, Idle, Off
  <2>2. Push(s, "Failed") /\ Pushers(s) # {}
    BY <1>7, <2>1 DEF CleanPush, Pushers
  <2>3. "Failed" \in Outcomes /\ "Failed" # "Completed"
    BY DEF Outcomes
  <2> QED BY <1>5, <2>2, <2>3
<1> QED BY <1>3, <1>4, <1>6, <1>7, HistorySteps

-----------------------------------------------------------------------------
(***************************************************************************)
(* The failures                                                            *)
(***************************************************************************)

FailedAt == {i \in 1 .. Len(history) : history[i].status = "Failed"}
CountingTasks == {s \in Sessions : task[s].pc = "count"}
CountingCleaners == {r \in Runs : cleaner[r].pc = "count"}

\* The sets that are counted are finite.
CountedType ==
  /\ IsFiniteSet(FailedAt) /\ Cardinality(FailedAt) \in Nat
  /\ IsFiniteSet(CountingTasks) /\ Cardinality(CountingTasks) \in Nat
  /\ IsFiniteSet(CountingCleaners) /\ Cardinality(CountingCleaners) \in Nat
  /\ totalErrors \in Nat /\ Len(history) \in Nat

LEMMA CountedSets == TypeOK => CountedType
<1> SUFFICES ASSUME TypeOK PROVE CountedType
  OBVIOUS
<1>1. Len(history) \in Nat /\ totalErrors \in Nat
  BY LenProperties DEF TypeOK, TableType
<1>2. IsFiniteSet(1 .. Len(history)) /\ IsFiniteSet(Runs) /\ IsFiniteSet(Sessions)
  BY <1>1, TableAssumption, FS_Interval DEF Runs
<1>3. /\ FailedAt \subseteq 1 .. Len(history)
      /\ CountingTasks \subseteq Sessions /\ CountingCleaners \subseteq Runs
  BY DEF FailedAt, CountingTasks, CountingCleaners
<1> HIDE DEF FailedAt, CountingTasks, CountingCleaners
<1>4. IsFiniteSet(FailedAt) /\ IsFiniteSet(CountingTasks) /\ IsFiniteSet(CountingCleaners)
  BY <1>2, <1>3, FS_Subset
<1> QED BY <1>1, <1>4, FS_CardinalityType DEF CountedType

LEMMA CountedNext == TypeOK' => CountedType'
BY CountedSets, PTL

\* A record adds at most one failure to the history, even where it drops another.
LEMMA PushAddsOne ==
  ASSUME TypeOK, TypeOK', NEW s \in Sessions, NEW o \in Outcomes, Push(s, o)
  PROVE  Cardinality(FailedAt') <= Cardinality(FailedAt) + (IF o = "Failed" THEN 1 ELSE 0)
<1>1. PICK shift \in Nat :
        /\ Len(history') = Len(history) + 1 - shift
        /\ \A i \in 1 .. Len(history') :
             history'[i] = IF i + shift = Len(history) + 1
                             THEN [id |-> s, status |-> o] ELSE history[i + shift]
  BY PushFacts
<1>2. /\ Len(history) \in Nat /\ Len(history') \in Nat
      /\ IsFiniteSet(FailedAt) /\ Cardinality(FailedAt) \in Nat
      /\ IsFiniteSet(FailedAt') /\ Cardinality(FailedAt') \in Nat
  BY CountedSets, CountedNext DEF CountedType
<1> DEFINE kept == {i \in FailedAt' : i + shift # Len(history) + 1}
           f == [i \in kept |-> i + shift]
           last == Len(history) + 1 - shift
<1>3. /\ \A i \in FailedAt' : i \in 1 .. Len(history') /\ history'[i].status = "Failed"
      /\ \A i \in 1 .. Len(history) : history[i].status = "Failed" => i \in FailedAt
  BY DEF FailedAt
<1>4. \A i \in kept : i \in Int /\ i + shift \in FailedAt
  <2> SUFFICES ASSUME NEW i \in kept PROVE i \in Int /\ i + shift \in FailedAt
    OBVIOUS
  <2>1. i \in 1 .. Len(history') /\ history'[i].status = "Failed" /\ i + shift # Len(history) + 1
    BY <1>3
  <2>2. i + shift \in 1 .. Len(history) /\ history'[i] = history[i + shift]
    BY <1>1, <1>2, <2>1, ShiftedIndex
  <2> QED BY <1>3, <2>1, <2>2
<1>5. f \in Injection(kept, FailedAt)
  <2>1. f \in [kept -> FailedAt]
    BY <1>4
  <2>2. ASSUME NEW a \in kept, NEW b \in kept, f[a] = f[b] PROVE a = b
    BY <1>4, <2>2
  <2> HIDE DEF f, kept
  <2> QED BY <2>1, <2>2 DEF Injection, IsInjective
<1> HIDE DEF f
<1>6. IsFiniteSet(kept) /\ Cardinality(kept) <= Cardinality(FailedAt) /\ Cardinality(kept) \in Nat
  <2> HIDE DEF kept
  <2> QED BY <1>2, <1>5, FS_Injection, FS_CardinalityType
<1>7. ASSUME NEW i \in FailedAt' PROVE i + shift = Len(history) + 1 <=> i = last
  <2>1. i \in Int
    BY <1>2, <1>3
  <2> QED BY <1>2, <2>1
<1>8. CASE last \in FailedAt'
  <2>1. o = "Failed"
    <3>1. last \in 1 .. Len(history') /\ history'[last].status = "Failed"
      BY <1>3, <1>8
    <3>2. last + shift = Len(history) + 1
      BY <1>2
    <3> QED BY <1>1, <3>1, <3>2
  <2>2. FailedAt' = kept \cup {last} /\ last \notin kept
    BY <1>8, <1>7
  <2> HIDE DEF kept, last
  <2>3. Cardinality(FailedAt') = Cardinality(kept) + 1
    BY <1>6, <2>2, FS_AddElement
  <2> QED BY <1>2, <1>6, <2>1, <2>3
<1>9. CASE last \notin FailedAt'
  <2>1. FailedAt' = kept
    BY <1>9, <1>7
  <2> HIDE DEF kept
  <2> QED BY <1>2, <1>6, <2>1
<1> QED BY <1>8, <1>9

\* One actor begins to count a failure, or is done with it.
LEMMA CountingGrows ==
  ASSUME NEW S, NEW T, IsFiniteSet(S), NEW x
  PROVE  /\ T = S => Cardinality(T) = Cardinality(S)
         /\ T = S \cup {x} /\ x \notin S => Cardinality(T) = Cardinality(S) + 1
         /\ T = S \ {x} /\ x \in S => Cardinality(T) = Cardinality(S) - 1
BY FS_AddElement, FS_RemoveElement

LEMMA FailureStep == TypeOK /\ TypeOK' /\ PlaceInv /\ NoFailureUncounted /\ [Next]_vars
                     => NoFailureUncounted'
<1> SUFFICES ASSUME TypeOK, TypeOK', PlaceInv, NoFailureUncounted, [Next]_vars, ~Restarting'
             PROVE  Cardinality(FailedAt') <= totalErrors' + Cardinality(CountingTasks')
                                                + Cardinality(CountingCleaners')
  BY DEF NoFailureUncounted, FailedAt, CountingTasks, CountingCleaners
<1>1. TaskType /\ CleanerType /\ MainType /\ TaskType' /\ CleanerType'
  BY DEF TypeOK
<1>2. /\ IsFiniteSet(FailedAt) /\ Cardinality(FailedAt) \in Nat
      /\ IsFiniteSet(CountingTasks) /\ Cardinality(CountingTasks) \in Nat
      /\ IsFiniteSet(CountingCleaners) /\ Cardinality(CountingCleaners) \in Nat
      /\ totalErrors \in Nat
  BY CountedSets DEF CountedType
<1>3. CASE ClearHistory
  <2>1. FailedAt' = {}
    BY <1>3, EmptySeq DEF ClearHistory, FailedAt
  <2>2. Cardinality(FailedAt') = 0
    BY <2>1, FS_EmptySet
  <2>3. UNCHANGED <<totalErrors, task, cleaner>>
    BY <1>3 DEF ClearHistory, taskVars
  <2>4. CountingTasks' = CountingTasks /\ CountingCleaners' = CountingCleaners
    BY <2>3 DEF CountingTasks, CountingCleaners
  <2> QED BY <1>2, <2>2, <2>3, <2>4
<1>4. CASE ~ClearHistory
  <2> DEFINE Bound == Cardinality(FailedAt) <= totalErrors + Cardinality(CountingTasks)
                                                 + Cardinality(CountingCleaners)
  <2>1. ~Restarting
    <3>1. Restarting => \/ ClearTable \/ main' = main
      BY <1>4 DEF Restarting, Next, Main, RecvRequest, CheckPerIp, CheckGlobal, CountSession,
           Register, SeeShutdown, Stopped, ResetCounters, CancelShutdown, Task, Progress,
           Return, TaskRemove, TaskPush, TaskCount, GoStale, Clean, CleanerStops, Collect,
           CleanRemove, CleanPush, CleanCount, vars, mainVars
    <3> QED BY <3>1 DEF Restarting, ClearTable
  <2>2. Bound
    BY <2>1 DEF NoFailureUncounted, FailedAt, CountingTasks, CountingCleaners
  <2>3. ASSUME UNCHANGED <<history, totalErrors, cleaner>>, CountingTasks' = CountingTasks
        PROVE  Cardinality(FailedAt') <= totalErrors' + Cardinality(CountingTasks')
                                                + Cardinality(CountingCleaners')
    BY <2>2, <2>3 DEF FailedAt, CountingCleaners
  <2>4. CASE UNCHANGED <<history, totalErrors, cleaner, task>>
    BY <2>3, <2>4 DEF CountingTasks
  <2>5. CASE Register
    <3>1. UNCHANGED <<history, totalErrors, cleaner>>
      BY <2>5 DEF Register
    <3>2. main.id \in Sessions /\ task[main.id].pc = "none"
      BY <1>1, <2>5, TableAssumption DEF Register, MainType, TaskType, PlaceInv
    <3>3. task' = [task EXCEPT ![main.id] = [pc |-> "running"]]
      BY <2>5 DEF Register
    <3>4. CountingTasks' = CountingTasks
      BY <1>1, <3>2, <3>3 DEF CountingTasks, TaskType
    <3> QED BY <2>3, <3>1, <3>4
  <2>6. ASSUME NEW s \in Sessions, Return(s)
        PROVE  Cardinality(FailedAt') <= totalErrors' + Cardinality(CountingTasks')
                                                + Cardinality(CountingCleaners')
    <3>1. UNCHANGED <<history, totalErrors, cleaner>>
      BY <2>6 DEF Return, stateVars
    <3>2. CountingTasks' = CountingTasks
      BY <1>1, <2>6 DEF CountingTasks, TaskType, Return
    <3> QED BY <2>3, <3>1, <3>2
  <2>7. ASSUME NEW s \in Sessions, NEW pc \in {"push", "count", "ended"}, TaskAt(s, pc)
        PROVE  /\ task[s].pc # "count" /\ pc # "count" => CountingTasks' = CountingTasks
               /\ task[s].pc # "count" /\ pc = "count"
                  => CountingTasks' = CountingTasks \cup {s} /\ s \notin CountingTasks
               /\ task[s].pc = "count" /\ pc # "count"
                  => CountingTasks' = CountingTasks \ {s} /\ s \in CountingTasks
    <3>1. /\ \A t \in Sessions \ {s} : task'[t].pc = task[t].pc
          /\ task'[s].pc = pc
      BY <1>1, <2>7 DEF TaskAt, TaskType
    <3> QED BY <3>1 DEF CountingTasks
  <2>8. ASSUME NEW s \in Sessions, TaskRemove(s)
        PROVE  Cardinality(FailedAt') <= totalErrors' + Cardinality(CountingTasks')
                                                + Cardinality(CountingCleaners')
    <3>1. UNCHANGED <<history, totalErrors, cleaner>> /\ task[s].pc = "remove"
      BY <2>8 DEF TaskRemove
    <3>2. PICK pc \in {"push", "count", "ended"} : TaskAt(s, pc)
      BY <2>8 DEF TaskRemove, Remove, AfterComplete
    <3>3. \/ CountingTasks' = CountingTasks
          \/ CountingTasks' = CountingTasks \cup {s} /\ s \notin CountingTasks
      BY <2>7, <3>1, <3>2
    <3>4. /\ Cardinality(CountingTasks') = Cardinality(CountingTasks)
             \/ Cardinality(CountingTasks') = Cardinality(CountingTasks) + 1
          /\ FailedAt' = FailedAt /\ CountingCleaners' = CountingCleaners
      BY <1>2, <3>1, <3>3, CountingGrows DEF FailedAt, CountingCleaners
    <3> QED BY <1>2, <2>2, <3>1, <3>4
  <2>9. ASSUME NEW s \in Sessions, TaskPush(s)
        PROVE  Cardinality(FailedAt') <= totalErrors' + Cardinality(CountingTasks')
                                                + Cardinality(CountingCleaners')
    <3>1. /\ task[s].pc = "push" /\ task[s].outcome \in Outcomes /\ Push(s, task[s].outcome)
          /\ TaskAt(s, AfterComplete(s)) /\ UNCHANGED <<totalErrors, cleaner>>
      BY <1>1, <2>9 DEF TaskPush, TaskType
    <3>2. /\ task[s].outcome = "Failed"
             => CountingTasks' = CountingTasks \cup {s} /\ s \notin CountingTasks
          /\ task[s].outcome # "Failed" => CountingTasks' = CountingTasks
      BY <2>7, <3>1 DEF AfterComplete
    <3>3. Cardinality(FailedAt')
            <= Cardinality(FailedAt) + (IF task[s].outcome = "Failed" THEN 1 ELSE 0)
      BY <3>1, PushAddsOne
    <3>4. /\ task[s].outcome = "Failed"
             => Cardinality(CountingTasks') = Cardinality(CountingTasks) + 1
          /\ task[s].outcome # "Failed"
             => Cardinality(CountingTasks') = Cardinality(CountingTasks)
          /\ CountingCleaners' = CountingCleaners
      BY <1>2, <3>1, <3>2, CountingGrows DEF CountingCleaners
    <3>5. Cardinality(FailedAt') \in Nat
      BY CountedNext DEF CountedType
    <3> QED BY <1>2, <2>2, <3>1, <3>3, <3>4, <3>5
  <2>10. ASSUME NEW s \in Sessions, TaskCount(s)
        PROVE  Cardinality(FailedAt') <= totalErrors' + Cardinality(CountingTasks')
                                                + Cardinality(CountingCleaners')
    <3>1. /\ task[s].pc = "count" /\ TaskAt(s, "ended") /\ totalErrors' = totalErrors + 1
          /\ UNCHANGED <<history, cleaner>>
      BY <2>10 DEF TaskCount
    <3>2. CountingTasks' = CountingTasks \ {s} /\ s \in CountingTasks
      BY <2>7, <3>1
    <3>3. /\ Cardinality(CountingTasks') = Cardinality(CountingTasks) - 1
          /\ FailedAt' = FailedAt /\ CountingCleaners' = CountingCleaners
      BY <1>2, <3>1, <3>2, CountingGrows DEF FailedAt, CountingCleaners
    <3> QED BY <1>2, <2>2, <3>1, <3>3
  <2>11. ASSUME NEW r \in Runs, NEW where, CleanerAt(r, where)
        PROVE  /\ cleaner[r].pc # "count" /\ where.pc # "count"
                  => CountingCleaners' = CountingCleaners
               /\ cleaner[r].pc # "count" /\ where.pc = "count"
                  => CountingCleaners' = CountingCleaners \cup {r} /\ r \notin CountingCleaners
               /\ cleaner[r].pc = "count" /\ where.pc # "count"
                  => CountingCleaners' = CountingCleaners \ {r} /\ r \in CountingCleaners
    <3>1. /\ \A q \in Runs \ {r} : cleaner'[q].pc = cleaner[q].pc
          /\ cleaner'[r].pc = where.pc
      BY <1>1, <2>11 DEF CleanerAt, CleanerType
    <3> QED BY <3>1 DEF CountingCleaners
  <2>12. ASSUME NEW r \in Runs, CleanerStops(r) \/ Collect(r) \/ CleanRemove(r)
         PROVE  Cardinality(FailedAt') <= totalErrors' + Cardinality(CountingTasks')
                                                + Cardinality(CountingCleaners')
    <3>1. UNCHANGED <<history, totalErrors, task>> /\ cleaner[r].pc # "count"
      BY <2>12 DEF CleanerStops, Collect, CleanRemove, Idle, stateVars, taskVars
    <3>2. PICK where : CleanerAt(r, where)
      BY <2>12 DEF CleanerStops, Collect, CleanNext, CleanRemove, Remove
    <3>3. \/ CountingCleaners' = CountingCleaners
          \/ CountingCleaners' = CountingCleaners \cup {r} /\ r \notin CountingCleaners
      BY <2>11, <3>1, <3>2
    <3>4. /\ Cardinality(CountingCleaners') = Cardinality(CountingCleaners)
             \/ Cardinality(CountingCleaners') = Cardinality(CountingCleaners) + 1
          /\ FailedAt' = FailedAt /\ CountingTasks' = CountingTasks
      BY <1>2, <3>1, <3>3, CountingGrows DEF FailedAt, CountingTasks
    <3> QED BY <1>2, <2>2, <3>1, <3>4
  <2>13. ASSUME NEW r \in Runs, CleanPush(r)
         PROVE  Cardinality(FailedAt') <= totalErrors' + Cardinality(CountingTasks')
                                                + Cardinality(CountingCleaners')
    <3> DEFINE where == [cleaner[r] EXCEPT !.pc = "count"]
    <3>1. /\ cleaner[r].pc = "push" /\ Push(cleaner[r].id, "Failed") /\ CleanerAt(r, where)
          /\ UNCHANGED <<totalErrors, task>>
      BY <2>13 DEF CleanPush, taskVars
    <3>2. cleaner[r].id \in Sessions /\ where.pc = "count"
      BY <1>1, <3>1 DEF CleanerType, Idle, Off
    <3>3. Cardinality(FailedAt') <= Cardinality(FailedAt) + 1
      <4>1. "Failed" \in Outcomes
        BY DEF Outcomes
      <4> QED BY <3>1, <3>2, <4>1, PushAddsOne
    <3> HIDE DEF where
    <3>4. CountingCleaners' = CountingCleaners \cup {r} /\ r \notin CountingCleaners
      BY <2>11, <3>1, <3>2
    <3>5. /\ Cardinality(CountingCleaners') = Cardinality(CountingCleaners) + 1
          /\ CountingTasks' = CountingTasks
      BY <1>2, <3>1, <3>4, CountingGrows DEF CountingTasks
    <3>6. Cardinality(FailedAt') \in Nat
      BY CountedNext DEF CountedType
    <3> QED BY <1>2, <2>2, <3>1, <3>3, <3>5, <3>6
  <2>14. ASSUME NEW r \in Runs, CleanCount(r)
         PROVE  Cardinality(FailedAt') <= totalErrors' + Cardinality(CountingTasks')
                                                + Cardinality(CountingCleaners')
    <3>1. /\ cleaner[r].pc = "count" /\ totalErrors' = totalErrors + 1
          /\ UNCHANGED <<history, task>>
      BY <2>14 DEF CleanCount, taskVars
    <3>2. PICK where : CleanerAt(r, where) /\ where.pc # "count"
      BY <2>14 DEF CleanCount, CleanNext, Idle
    <3>3. CountingCleaners' = CountingCleaners \ {r} /\ r \in CountingCleaners
      BY <2>11, <3>1, <3>2
    <3>4. /\ Cardinality(CountingCleaners') = Cardinality(CountingCleaners) - 1
          /\ FailedAt' = FailedAt /\ CountingTasks' = CountingTasks
      BY <1>2, <3>1, <3>3, CountingGrows DEF FailedAt, CountingTasks
    <3> QED BY <1>2, <2>2, <3>1, <3>4
  <2>15. CASE ResetCounters
    BY <2>15 DEF ResetCounters, Restarting
  <2>16. \/ RecvRequest \/ CheckPerIp \/ CheckGlobal \/ CountSession \/ SeeShutdown
         \/ Stopped \/ ClearTable \/ CancelShutdown \/ UNCHANGED vars
         => UNCHANGED <<history, totalErrors, cleaner, task>>
    BY DEF RecvRequest, CheckPerIp, CheckGlobal, CountSession, SeeShutdown,
           Stopped, ClearTable, CancelShutdown, vars, stateVars, taskVars
  <2>17. ASSUME NEW s \in Sessions, Progress(s) \/ GoStale(s)
         PROVE  UNCHANGED <<history, totalErrors, cleaner, task>>
    BY <2>17 DEF Progress, GoStale, taskVars
  <2> QED
    BY <1>4, <2>4, <2>5, <2>6, <2>8, <2>9, <2>10, <2>12, <2>13, <2>14, <2>15, <2>16, <2>17
       DEF Next, Main, Task, Clean
<1> QED BY <1>3, <1>4

-----------------------------------------------------------------------------
IInv ==
  TypeOK /\ RestartType /\ PlaceInv /\ CountInv /\ HistoryInv /\ NoFailureUncounted

LEMMA Invariant == Spec => []IInv
<1>1. Init => IInv
  <2>1. Init => HistoryInv
    <3> SUFFICES ASSUME Init PROVE HistoryInv
      OBVIOUS
    <3>1. 1 .. Len(history) = {}
      BY EmptySeq DEF Init
    <3> QED BY <3>1 DEF HistoryInv, RecordedOnce, CompletedIsTrue
  <2>2. Init => RestartType
    BY DEF Init, RestartType, Restarting
  <2>3. Init => NoFailureUncounted
    <3> SUFFICES ASSUME Init PROVE NoFailureUncounted
      OBVIOUS
    <3>1. FailedAt = {} /\ totalErrors = 0
      BY EmptySeq DEF Init, FailedAt
    <3>2. Cardinality(FailedAt) = 0
      BY <3>1, FS_EmptySet
    <3> QED BY <3>1, <3>2, TypeInit, CountedSets
         DEF CountedType, NoFailureUncounted, FailedAt, CountingTasks, CountingCleaners
  <2> QED BY <2>1, <2>2, <2>3, TypeInit, PlaceInit, CountInit DEF IInv
<1>2. IInv /\ [Next]_vars => IInv'
  BY TypeStep, PlaceStep, CountStep, HistoryStep, FailureStep DEF IInv
<1> QED BY <1>1, <1>2, PTL DEF Spec

\* Between registration and record a session is in exactly one place, and
\* total_sessions counts them all, whatever its task, the clean-up and a restart
\* overtake.
THEOREM NoneLostOrDoubled == Spec => []OnePlaceEach
<1>1. IInv => OnePlaceEach
  BY PlacesFollow DEF IInv
<1> QED BY <1>1, Invariant, PTL

\* complete_session, called twice for a session, records it once.
THEOREM OneRecordEach == Spec => []RecordedOnce
<1>1. IInv => RecordedOnce
  BY DEF IInv, HistoryInv
<1> QED BY <1>1, Invariant, PTL

\* Whoever completes a session, its record says Completed only if its task did.
THEOREM SuccessIsTrue == Spec => []CompletedIsTrue
<1>1. IInv => CompletedIsTrue
  BY DEF IInv, HistoryInv
<1> QED BY <1>1, Invariant, PTL

\* What the history says of a session is said once and is true.
THEOREM HistoryIsTrue == Spec => []RecordsAreTrue
<1>1. RecordedOnce /\ CompletedIsTrue => RecordsAreTrue
  BY DEF RecordsAreTrue
<1> QED BY <1>1, OneRecordEach, SuccessIsTrue, PTL

\* total_errors, which no lock protects, misses no failure that the history shows,
\* except those a task or the clean-up has recorded and is about to count.
THEOREM FailuresAreCounted == Spec => []NoFailureUncounted
<1>1. IInv => NoFailureUncounted
  BY DEF IInv
<1> QED BY <1>1, Invariant, PTL
=============================================================================
