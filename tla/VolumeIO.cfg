SPECIFICATION VolumeSpec
CONSTANTS
  MaxRows = 12
  MaxRanks = 5
  MaxVolumeRows = 5
  MaxVolumeRanks = 4
  Projs = 3
  Cols = 2
  Iters = 2
INVARIANTS
  CutAsAnnounced
  BlocksTile
  ReadAsIndexed
  HaloIsNewest
  FileIsWhole
