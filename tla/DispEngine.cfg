SPECIFICATION Spec
CONSTANTS
  NThreads = 3
  NRays = 5
  ReqUnits = 2
  WindowIter = 2
INVARIANTS
  EachRayOnce
  NothingLost
  NoSharedSpace
PROPERTY Terminates
