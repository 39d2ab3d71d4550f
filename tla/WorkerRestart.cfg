SPECIFICATION RestartSpec
CONSTANTS
  NWorkers = 3
  Image = {a, b}
  MaxImages = 2
  MaxCrashes = 3
INVARIANTS
  DeliveredDespiteCrash
PROPERTIES
  FailStop
CHECK_DEADLOCK FALSE
