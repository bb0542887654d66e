\* Three sessions of two clients in one run of the server, and two of them across
\* a restart that overtakes their end.
CONSTANTS
  Sessions = {s1, s2, s3}
  Clients = {c1, c2}
  MaxSessions = 2
  PerIpMax = 1
  MaxHistory = 2
  MaxRuns = 2
  MaxInRuns = 2
  MayGoStale = TRUE
SPECIFICATION TableSpec
CHECK_DEADLOCK FALSE
SYMMETRY Symmetry
INVARIANTS
  LimitsHold
  OnePlaceEach
  RecordsAreTrue
  NoFailureUncounted
