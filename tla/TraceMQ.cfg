SPECIFICATION Spec
CONSTANTS
  NWorkers = 3
  Image = {a, b}
  MaxImages = 3
INVARIANTS
  NoAssertFails
  RowsAsAnnounced
PROPERTIES
  HandshakeCompletes
  EndReachesAll
  ImplementsBroadcast
