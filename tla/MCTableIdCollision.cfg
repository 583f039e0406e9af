CONSTANTS
  w1 = w1
  w2 = w2
  u = u
  None = None
  Table <- TwoTables
  Watched <- OneWatched
  Version <- Definitions
  NCols <- Columns
  MetaLen <- Metadata
  ti_map_prime = 3
  IdSpace = 100
  MaxId = 4
  MaxStream = 4
SPECIFICATION Spec
INVARIANTS
  DecodedAsItself
CHECK_DEADLOCK FALSE
