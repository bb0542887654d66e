\* Five blocks, the last one empty and numbered 0; windows of two, the longest that
\* HalfRange allows of five numbers.  Loss, duplication, reordering, early timers,
\* client abort, shutdown, socket errors.
CONSTANTS
  WireMod = 5
  FileSize = 8
  BlkSize = 2
  WindowSize = 2
  HasOptions = TRUE
  MaxRetries = 1
  MaxLosses = 1
  MaxReAcks = 1
  MaxJunk = 11
  Faults = {"reorder", "duplicate", "early_timeout", "system", "abort", "shutdown"}
SPECIFICATION Spec
INVARIANTS
  TypeOK
  CompletedMeansDelivered
  NeverAheadOfClient
PROPERTIES
  NoAmplification
  ImplementsTransfer
CHECK_DEADLOCK FALSE
