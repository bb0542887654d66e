CONSTANTS
  Values = {2}
  Starts <- SomeStarts
  MaxChanges = 2
  Changes = {"write", "signal", "restart", "edit"}
  Styles = {"in_place", "recreate", "rename", "broken"}
  Faults = {"disk", "socket"}
  Rules = {"r1", "r2"}
  FirstRules <- TwoRules
  FirstText = "a"
  Texts = {"a", "b", "bad"}
  MaxRules = 2
  MaxCursor = 2
  MaxElsewhere = 1
  FormFields = {"port", "blk"}
  Inputs = {"1", "2", "bad"}
  FirstInput = "1"
  Sources = {"s1", "bad"}
  FirstSources <- TwoSources
  MaxSources = 2
  Modes = {"disabled", "whitelist"}
  FirstMode = "whitelist"
  Reloaded = "port"
  MaxReloads = 1
SPECIFICATION InterfacesSpec
INVARIANTS
  StoreIsSound
  EditIsReloaded
  FormsAreTrue
PROPERTIES
  WatchedIsSeen
  KeysAreSafe
  EditsAreExact
  FormsApply
CHECK_DEADLOCK FALSE
