SPECIFICATION Spec
CONSTANTS
  MaxProjs = 9
  MaxSinos = 2
  Subsets <- MCSubsets
  MaxImages = 5
  Hwm = 2
  MaxRays = 3
  Shapes <- MCShapes
INVARIANTS
  EachProjectionOnce
  ShownAsPublished
  LossIsCounted
  ReadAsSent
