SPECIFICATION Spec
CONSTANTS
  d1 = d1
  d2 = d2
  Subs <- MCSubs
  NWorkers <- MCNWorkers
  SynchCount = 2
  Datasets <- DarkSpread
  NElem = 3
  Iterations = 1
PROPERTY SubscribersGetThrough
