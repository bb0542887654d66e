CONSTANTS
  Modes = {"headless", "tui", "gui"}
  MaxRuns = 3
  Sessions = {s1}
  Signals = {"BREAK"}
SPECIFICATION FairLifeSpec
INVARIANTS
  LifeTypeOK
  StoppedIsQuiet
  NothingOrphaned
PROPERTIES
  StartsAndStops
  ProgramEnds
CHECK_DEADLOCK FALSE
