SPECIFICATION Safe
CONSTANTS
  NRanks = 1
  MaxImages = 4
  Lens = {3}
  Steps = {2}
  Freqs = {1}
INVARIANT WithinWindowLength
