----------------------------- MODULE ReceiveTimer -----------------------------
(***************************************************************************)
(* How long a session waits for its peer: the loop around the timer of     *)
(* run_read_session and run_write_session, without what the packets say.   *)
(* Every packet starts the timer of the current attempt again; only a      *)
(* finished window starts the attempts again.                              *)
(***************************************************************************)
EXTENDS Integers, Negotiation

CONSTANTS BaseTimeout,      \* the negotiated timeout
          LongestTimeout,   \* max_timeout
          TimerRetries,     \* max_retries
          TimerWindows,     \* windows of the transfer
          MaxChatter        \* bound: packets that finish no window

\* The negotiated timeout is at most the longest one.
ASSUME TimerAssumption ==
  /\ {BaseTimeout, LongestTimeout, TimerRetries, MaxChatter} \subseteq Nat
  /\ TimerWindows \in Nat \ {0} /\ BaseTimeout <= LongestTimeout

VARIABLES waiting,      \* "yes", "done", "expired"
          attempt,      \* retries
          left,         \* until the timer of this attempt expires
          finished,     \* windows
          chatter,      \* packets that finished none
          silence,      \* history: since the last packet
          lived         \* history: since the session began

timerVars == <<waiting, attempt, left, finished, chatter, silence, lived>>

Wait(a) == Backoff(BaseTimeout, a, TRUE, LongestTimeout)

TimerInit ==
  /\ waiting = "yes" /\ attempt = 0 /\ left = Wait(0)
  /\ finished = 0 /\ chatter = 0 /\ silence = 0 /\ lived = 0

Tick ==
  /\ waiting = "yes" /\ left > 0
  /\ left' = left - 1 /\ silence' = silence + 1 /\ lived' = lived + 1
  /\ UNCHANGED <<waiting, attempt, finished, chatter>>

\* A repeated ACK, a block that is not the last one missing, rubbish, or a
\* packet of somebody else
OtherPacket ==
  /\ waiting = "yes" /\ chatter < MaxChatter
  /\ chatter' = chatter + 1 /\ silence' = 0
  /\ left' = Wait(attempt)
  /\ UNCHANGED <<waiting, attempt, finished, lived>>

\* The packet that takes the transfer to the next window
NextWindow ==
  /\ waiting = "yes"
  /\ finished' = finished + 1 /\ silence' = 0
  /\ attempt' = 0 /\ left' = Wait(0)
  /\ waiting' = IF finished' = TimerWindows THEN "done" ELSE "yes"
  /\ UNCHANGED <<chatter, lived>>

\* A packet that has come by now is taken first
Expire ==
  /\ waiting = "yes" /\ left = 0
  /\ attempt' = attempt + 1
  /\ IF attempt' > TimerRetries THEN waiting' = "expired" /\ UNCHANGED left
                                ELSE left' = Wait(attempt') /\ UNCHANGED waiting
  /\ UNCHANGED <<finished, chatter, silence, lived>>

TimerNext == Tick \/ OtherPacket \/ NextWindow \/ Expire

-----------------------------------------------------------------------------
\* The attempts up to a together, and all attempts of a window
Waited[a \in Nat] == IF a = 0 THEN Wait(0) ELSE Waited[a - 1] + Wait(a)
Patience == Waited[TimerRetries]

\* A session waits for a silent peer as long as all attempts of a window last,
\* and no longer.
SilenceIsBounded == silence <= Patience

\* Only packets of the peer prolong a session: beyond its patience for every
\* window each of them buys one wait, of max_timeout at most.
OnlyPacketsProlong ==
  lived <= (finished + 1) * Patience + chatter * LongestTimeout

\* No session is given up but after a whole last wait without any packet,
\* although the packets of a talking peer do not take its attempts back.
NobodyIsDroppedTalking ==
  waiting = "expired" => attempt = TimerRetries + 1 /\ silence >= Wait(TimerRetries)

TimerIsKept == SilenceIsBounded /\ OnlyPacketsProlong /\ NobodyIsDroppedTalking
=============================================================================
