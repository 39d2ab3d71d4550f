SPECIFICATION Spec
CONSTANTS
  NumCols = 3
  NumProjs = 2
  NumSlices = 2
  Directions <- MCDirections
  Centers <- MCCenters
  NumOuterIter = 2
  NumIter = 2
  Names = {a, b}
  Spaces = {c1, c2}
  MaxRows = 2
  MaxCount = 2
  MaxBlocks = 3
  MaxMirrors = 2
  MaxList = 2
INVARIANTS
  TracedAsCrossed
  BackProjected
  ProjectsAfresh
  FilesContinue
  RegionsHold
