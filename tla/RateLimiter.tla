---------------------------- MODULE RateLimiter ----------------------------
(***************************************************************************)
(* The per-address rate limiter of core/state.rs: an entry counts the      *)
(* requests of a window that starts with one of them.  An entry is         *)
(* [count, start], or Absent when the map has none for the address.  The   *)
(* main loop asks it for every RRQ and WRQ; a task clears old entries.     *)
(* One address; the others have entries of their own.                      *)
(***************************************************************************)
EXTENDS Integers, Sequences, FiniteSets

CONSTANTS Limits,       \* values of per_ip_rate_limit
          Windows,      \* values of rate_limit_window_seconds
          MaxAsked,     \* bound: requests
          MaxClock      \* bound: time

ASSUME RateAssumption == Limits \subseteq Nat /\ Windows \subseteq Nat \ {0}

VARIABLES limit, window,    \* the configuration
          clock,
          entry,            \* what the map has for the address
          bare,             \* what it would have without the clean-up task
          answers           \* history: when a request came, whether it was
                            \* allowed, which entry it left, and whether it
                            \* would have been allowed without the clean-up

rateVars == <<limit, window, clock, entry, bare, answers>>

Absent == [count |-> 0, start |-> -1]

RateInit ==
  /\ limit \in Limits /\ window \in Windows
  /\ clock = 0 /\ entry = Absent /\ bare = Absent /\ answers = <<>>

-----------------------------------------------------------------------------
\* or_insert
Found(e) == IF e = Absent THEN [count |-> 0, start |-> clock] ELSE e

\* A slip: the edge of the window still belongs to it
MutExpired(e) == clock - e.start > window

Expired(e) == clock - e.start >= window

\* check_rate_limit: the entry it leaves and its answer
Request(old) ==
  LET e == Found(old)
  IN  CASE Expired(e) -> [entry |-> [count |-> 1, start |-> clock], allowed |-> TRUE]
        [] ~Expired(e) /\ e.count < limit ->
             [entry |-> [e EXCEPT !.count = @ + 1], allowed |-> TRUE]
        [] OTHER -> [entry |-> e, allowed |-> FALSE]

\* A request, under the write lock of the map
Ask ==
  /\ Len(answers) < MaxAsked
  /\ entry' = Request(entry).entry /\ bare' = Request(bare).entry
  /\ answers' = Append(answers, [at |-> clock, allowed |-> Request(entry).allowed,
                                 entry |-> entry', unclean |-> Request(bare).allowed])
  /\ UNCHANGED <<limit, window, clock>>

\* cleanup_stale_rate_limits
Cleanup ==
  /\ entry # Absent /\ clock - entry.start >= 2 * window
  /\ entry' = Absent
  /\ UNCHANGED <<limit, window, clock, bare, answers>>

Elapse ==
  /\ clock < MaxClock
  /\ clock' = clock + 1
  /\ UNCHANGED <<limit, window, entry, bare, answers>>

RateNext == Ask \/ Cleanup \/ Elapse

-----------------------------------------------------------------------------
\* Requests that came in the window's length from time t on
AskedFrom(t)  == {i \in DOMAIN answers : answers[i].at \in t .. t + window - 1}
PassedFrom(t) == {i \in AskedFrom(t) : answers[i].allowed}

\* What one window lets through.  A limit of zero is no ban: the request that
\* finds an expired entry passes whatever the limit.
Allowance == IF limit = 0 THEN 1 ELSE limit

\* However the requests fall around the edges of the windows, no interval of
\* the window's length lets through twice what one window does: less than
\* twice the limit, and a single request under a limit of zero.
NoBurst ==
  \A i \in DOMAIN answers : Cardinality(PassedFrom(answers[i].at)) < 2 * Allowance

\* A client that never exceeds the limit in any interval of the window's
\* length is never refused: no window inherits the count of an earlier one.
NeverPunished ==
  (\A i \in DOMAIN answers : Cardinality(AskedFrom(answers[i].at)) <= limit)
    => \A i \in DOMAIN answers : answers[i].allowed

\* The task that evicts old entries is invisible: without it every request has
\* the answer it has with it.  Only under a limit of zero can it be seen, by a
\* request that would have found an expired entry and is refused.
CleanupInvisible ==
  \A i \in DOMAIN answers :
    \/ answers[i].allowed = answers[i].unclean
    \/ limit = 0 /\ ~answers[i].allowed
=============================================================================
