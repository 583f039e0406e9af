CONSTANTS
  MaxQueue = 3
  MaxRows = 7
  EventEnd <- Events
  MaxFaults = 2
  Nothing = Nothing
SPECIFICATION FairSpec
INVARIANTS
  TypeOK
  QueueInv
  UnreadIntact
  PositionAccountsForRows
PROPERTIES
  RefusedOnlyWhenFull
  ImplementsBoundedLog
  EveryRowHandedOut
