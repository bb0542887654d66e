\* Three blocks in one window; the network reorders, nothing else.
CONSTANTS
  WireMod = 8
  FileSize = 5
  BlkSize = 2
  WindowSize = 3
  HasOptions = TRUE
  MaxRetries = 1
  MaxFileSize = 8
  AllowOverwrite = TRUE
  MaxLosses = 0
  MaxResends = 0
  MaxCounted = 100
  Faults = {"reorder"}
SPECIFICATION FairSpec
CHECK_DEADLOCK FALSE
PROPERTIES
  UploadStored
