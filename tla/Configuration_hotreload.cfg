CONSTANTS
  Values = {2}
  Starts <- PlainStart
  MaxChanges = 1
  Changes = {"write"}
  Styles = {"in_place"}
  Faults = {}
SPECIFICATION FairConfigurationSpec
PROPERTIES
  HotReload
CHECK_DEADLOCK FALSE
