SPECIFICATION Spec
CONSTANTS
  w1 = w1
  w2 = w2
  w3 = w3
  Words = {w1, w2, w3}
  NameWords <- Lengths
  Hashes = {0, 1, 2, 3}
  MaxNames = 3
  BucketSizes = {3, 5, 8, 9}
  Heights = {0, 1, 2, 5}
  Short = 16
INVARIANTS
  TypeOK
  InAllocation
  LookupExact
  GivesUpOnlyIfNothingFits
CHECK_DEADLOCK FALSE
