CONSTANTS
  Binlog <- ThreeFiles
  LongBits = 32
  MaxFaults = 3
  NoPos = NoPos
SPECIFICATION FairSpec
INVARIANTS
  TypeOK
  RowsInBinlogOrder
  LossOnlyWhereCut
PROPERTIES
  PositionOnlyAdvances
  CatchesUp
