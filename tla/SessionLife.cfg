\* See MCSessionLife for the five instances; WriteSession's own constants are
\* those of "large", an upload of 5 bytes where max_file_size is 4.
CONSTANTS
  WireMod = 8
  FileSize = 5
  BlkSize = 2
  WindowSize = 2
  HasOptions = TRUE
  MaxRetries = 1
  MaxFileSize = 4
  AllowOverwrite = TRUE
  MaxLosses = 1
  MaxResends = 1
  MaxCounted = 6
  Faults = {"reorder", "duplicate"}
  Sessions = {s1, s2}
  Clients = {c1}
SPECIFICATION LifeSpec
INVARIANTS
  LargeIsStopped
PROPERTIES
  SurvivesLosses
  EverythingEnds
CHECK_DEADLOCK FALSE
