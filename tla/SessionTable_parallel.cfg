\* One session allowed; the first one goes stale.
CONSTANTS
  Sessions = {s1, s2}
  Clients = {c1}
  MaxSessions = 1
  PerIpMax = 1
  MaxHistory = 2
  MaxRuns = 1
  MayGoStale = TRUE
SPECIFICATION Spec
CHECK_DEADLOCK FALSE
INVARIANTS
  ParallelSessions
