---------------------------- MODULE BlockTransfer ----------------------------
(***************************************************************************)
(* What a TFTP transfer promises, whichever side sends: the receiver holds *)
(* a growing prefix of the blocks, the sender only counts a block as       *)
(* acknowledged once the receiver holds it, and it reports success only    *)
(* when all of them are.  ReadSession and WriteSession implement this.     *)
(***************************************************************************)
EXTENDS Integers

CONSTANT Total          \* number of blocks of the file, the short one included

VARIABLES delivered,    \* the receiver holds blocks 1..delivered
          confirmed,    \* the sender knows of blocks 1..confirmed
          result        \* what the sender reports

vars == <<delivered, confirmed, result>>

Init == delivered = 0 /\ confirmed = 0 /\ result = "active"

\* The receiver takes the next blocks, in order; it may do so after the
\* sender has given up.
Deliver ==
  /\ delivered' \in (delivered + 1) .. Total
  /\ UNCHANGED <<confirmed, result>>

\* An acknowledgement of blocks the receiver holds reaches the sender.
Confirm ==
  /\ result = "active"
  /\ confirmed' \in (confirmed + 1) .. delivered
  /\ result' = IF confirmed' = Total THEN "success" ELSE "active"
  /\ UNCHANGED delivered

GiveUp ==
  /\ result = "active"
  /\ result' = "failure"
  /\ UNCHANGED <<delivered, confirmed>>

Next == Deliver \/ Confirm \/ GiveUp

Spec == Init /\ [][Next]_vars
=============================================================================
