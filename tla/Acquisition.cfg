SPECIFICATION Spec
CONSTANTS
  d1 = d1
  d2 = d2
  Subs <- MCSubs
  NWorkers <- MCNWorkers
  SynchCount = 3
  Datasets <- MCDatasets
  NElem = 2
  Iterations = 2
INVARIANTS
  JoinedBeforeData
  RoundIsComplete
  FlatsOfThisRound
  PushedAsReceived
PROPERTIES
  AllGetThrough
  EndIsHeard
