CONSTANTS
  Binlog <- LongInsert
  LongBits = 64
  MaxFaults = 0
  NoPos = NoPos
SPECIFICATION Spec
INVARIANTS
  EveryRowStored
