CONSTANTS
  w1 = w1
  w2 = w2
  u = u
  None = None
  Table <- ThreeTables
  Watched <- TwoWatched
  Version <- Definitions
  NCols <- Columns
  MetaLen <- Metadata
  ti_map_prime = 2
  IdSpace = 3
  MaxId = 3
  MaxStream = 4
SPECIFICATION Spec
SYMMETRY Symmetry
INVARIANTS
  TypeOK
  MisdecodedOnlyForCause
  WatchedDroppedOnlyAfterFailedSync
PROPERTIES
  IndexOutOfRangeOnlyForCause
CHECK_DEADLOCK FALSE
