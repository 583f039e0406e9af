CONSTANTS
  Events <- Ordinary
  MaxStored = 6
SPECIFICATION Spec
INVARIANTS
  TypeOK
  Aligned
  
  FailsOnlyForCause
  RowFits
  QueueReadsBack
CHECK_DEADLOCK FALSE
