----------------------------- MODULE TransferLog -----------------------------
(***************************************************************************)
(* The transfer history and its file (core/state.rs).  complete_session    *)
(* appends a JSON line under the lock of the session table and pushes the  *)
(* record to the history after releasing it; a start loads the last lines. *)
(* A record is [id, dir, status, retx].  The process may end between the   *)
(* text of a line and its newline: the next line is then glued to it.      *)
(***************************************************************************)
EXTENDS Integers, Sequences, SequencesExt

CONSTANTS Records,      \* the transfers of a behaviour
          MaxHistory    \* records kept in memory, lines a start reads

ASSUME TransferAssumption ==
  /\ MaxHistory \in Nat
  /\ \A r \in Records :
       /\ r = [id |-> r.id, dir |-> r.dir, status |-> r.status, retx |-> r.retx]
       /\ r.dir \in {"Read", "Write"} /\ r.status \in {"Completed", "Failed", "Cancelled"}

VARIABLES lines,        \* the file: each line is the sequence of objects on it
          open,         \* the last line has no newline yet
          glued,        \* the records on a line with another one
          due,          \* written, not yet in the history
          history, running

transferVars == <<lines, open, glued, due, history, running>>

Mark(status) == CASE status = "Completed" -> "OK" [] status = "Failed" -> "FAIL"
                  [] status = "Cancelled" -> "CANCEL" [] OTHER -> "?"

\* The JSON object of a record
Json(r) == [file |-> r.id, dir |-> IF r.dir = "Read" THEN "DL" ELSE "UL",
            status |-> Mark(r.status), retx |-> r.retx]

StatusOf(mark) == CASE mark = "OK" -> "Completed" [] mark = "CANCEL" -> "Cancelled"
                    [] OTHER -> "Failed"

Record(json) == [id |-> json.file, dir |-> IF json.dir = "UL" THEN "Write" ELSE "Read",
                 status |-> StatusOf(json.status), retx |-> json.retx]

-----------------------------------------------------------------------------
TransferInit ==
  /\ lines = <<>> /\ open = FALSE /\ glued = {} /\ due = {} /\ history = <<>>
  /\ running = TRUE

Written == UNION {{Record(lines[i][j]) : j \in DOMAIN lines[i]} : i \in DOMAIN lines}

\* complete_session up to drop(sessions): one session at a time.  torn: the
\* process ends before the newline.
WriteLine(r, torn) ==
  /\ running /\ r \in Records /\ \A w \in Written : w.id # r.id
  /\ lines' = IF open THEN Append(Front(lines), Append(Last(lines), Json(r)))
                      ELSE Append(lines, <<Json(r)>>)
  /\ glued' = IF open THEN glued \cup {r.id, Last(Last(lines)).file} ELSE glued
  /\ open' = torn
  /\ due' = due \cup {r}
  /\ running' = ~torn
  /\ UNCHANGED history

\* The rest of complete_session: the records of sessions that end together
\* arrive in any order
PushRecord(r) ==
  /\ running /\ r \in due
  /\ history' = LET h == Append(history, r)
                IN  SubSeq(h, IF Len(h) > MaxHistory THEN Len(h) - MaxHistory + 1 ELSE 1, Len(h))
  /\ due' = due \ {r}
  /\ UNCHANGED <<lines, open, glued, running>>

\* load_transfer_history goes through the last lines, newest first; what parses
\* of the last k, put back in order
Back(k) == lines[Len(lines) - k + 1]
Restored[k \in Nat] ==
  IF k = 0 THEN <<>>
  ELSE IF Len(Back(k)) = 1 THEN <<Record(Back(k)[1])>> \o Restored[k - 1]
  ELSE Restored[k - 1]

LoadHistory == Restored[IF Len(lines) < MaxHistory THEN Len(lines) ELSE MaxHistory]

\* The process ends, at any point, and a new one starts
RestartProgram ==
  /\ lines # <<>>
  /\ history' = LoadHistory /\ due' = {} /\ running' = TRUE
  /\ UNCHANGED <<lines, open, glued>>

TransferNext ==
  \/ \E r \in Records, torn \in BOOLEAN : WriteLine(r, torn)
  \/ \E r \in due : PushRecord(r)
  \/ RestartProgram

-----------------------------------------------------------------------------
\* A record of the history is one that was completed, with its direction,
\* status and retransmissions, and never twice, whichever process wrote it.
HistoryIsTrue ==
  /\ \A i \in DOMAIN history : history[i] \in Records /\ history[i] \in Written
  /\ \A i, j \in DOMAIN history : history[i].id = history[j].id => i = j

\* What a start would show now: the transfers of the last MaxHistory lines, in
\* the order in which they were written, and none but them.  Only those are
\* missing whose line was glued to another one by a process that ended in the
\* middle of it.
OnlyGluedAreLost ==
  LET names(i, p) == \E a \in DOMAIN lines[p] : LoadHistory[i].id = lines[p][a].file
  IN  /\ \A p \in DOMAIN lines : \A a \in DOMAIN lines[p] :
           (\E i \in DOMAIN LoadHistory : LoadHistory[i].id = lines[p][a].file)
             <=> p > Len(lines) - MaxHistory /\ lines[p][a].file \notin glued
      /\ \A i, j \in DOMAIN LoadHistory : \A p, q \in DOMAIN lines :
           i < j /\ names(i, p) /\ names(j, q) => p < q
=============================================================================
