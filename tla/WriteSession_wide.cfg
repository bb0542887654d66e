\* A window of more than half the block numbers: two of three, as 32769 or more
\* of 65536.  One acknowledgement is lost and the client repeats its window.
CONSTANTS
  WireMod = 3
  FileSize = 3
  BlkSize = 1
  WindowSize = 2
  HasOptions = TRUE
  MaxRetries = 1
  MaxFileSize = 3
  AllowOverwrite = TRUE
  MaxLosses = 1
  MaxResends = 1
  MaxCounted = 4
  Faults = {}
SPECIFICATION Spec
CHECK_DEADLOCK FALSE
INVARIANTS
  UploadIntact
