\* Five blocks, the last one empty and numbered 0; windows of two, the longest that
\* HalfRange allows of five numbers; every fault of the model.  The client repeats a
\* window when an ACK is repeated to it, not on its own timer.
CONSTANTS
  WireMod = 5
  FileSize = 4
  BlkSize = 1
  WindowSize = 2
  HasOptions = TRUE
  MaxRetries = 1
  MaxFileSize = 4
  AllowOverwrite = FALSE
  MaxLosses = 1
  MaxResends = 0
  MaxCounted = 5
  Faults = {"reorder", "duplicate", "early_timeout", "system", "abort", "shutdown", "other_writer"}
SPECIFICATION Spec
CHECK_DEADLOCK FALSE
INVARIANTS
  TypeOK
  CompletedMeansStored
  UploadIntact
PROPERTIES
  NeverOverwrites
  ImplementsTransfer
