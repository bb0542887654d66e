CONSTANTS
  Clients = {c1, c2}
  MaxTasks = 2
  MaxLosses = 1
  MaxEarly = 1
  AllowOverwrite = {TRUE, FALSE}
  BlkSizes = {1, 3}
  FileSizes = {1, 2, 3}
  MaxEdits = 1
  Faults = {"disk", "edit", "reload"}
SPECIFICATION FairUploadSpec
INVARIANTS
  UploadTypeOK
  OneUpload
  BufferHoldsBlock
  AckedIsWritten
PROPERTIES
  CompleteFileStays
  EveryoneGetsThrough
CHECK_DEADLOCK FALSE
