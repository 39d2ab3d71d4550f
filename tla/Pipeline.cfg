SPECIFICATION PipelineSpec
CONSTANTS
  NRanks = 2
  MaxImages = 4
  Lens = {1, 2}
  Steps = {1, 2}
  Freqs = {1, 2}
  Distributor = d
  Datasets <- MCDatasets
  NElem = 2
  Iterations = 2
INVARIANT ReconstructsAsPublished
PROPERTIES
  EndToEnd
  StrandedByQuit
