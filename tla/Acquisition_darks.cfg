SPECIFICATION Spec
CONSTANTS
  d1 = d1
  d2 = d2
  Subs <- MCSubs
  NWorkers <- MCNWorkers
  SynchCount = 3
  Datasets <- DarkSpread
  NElem = 3
  Iterations = 1
INVARIANT DarksOfThisRound
