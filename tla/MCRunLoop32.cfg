CONSTANTS
  LongBits = 32
  Configs = 3
  BadConfigs = {2}
  MaxLinkFaults = 2
SPECIFICATION FairSpec
INVARIANTS
  TypeOK
  ConnectedMeansOpen
PROPERTIES
  ReloadTakesEffect
  StopHonoured
  LinkRecovers
CHECK_DEADLOCK FALSE
