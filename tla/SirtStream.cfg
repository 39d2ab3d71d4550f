SPECIFICATION Spec
CONSTANTS
  NRanks = 3
  MaxImages = 4
  Lens = {0, 1, 3}
  Steps = {1, 2, 3}
  Freqs = {1, 2}
INVARIANTS
  RanksAgree
  NoneInVain
  WindowIsNewest
PROPERTIES
  PushReturns
  FileIsCompleted
  AllFinalize
