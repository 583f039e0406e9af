CONSTANTS
  Binlog <- ThreeFiles
  LongBits = 64
  MaxFaults = 1
  NoPos = NoPos
SPECIFICATION Spec
INVARIANTS
  EveryRowStored
