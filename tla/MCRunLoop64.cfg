CONSTANTS
  LongBits = 64
  Configs = 1
  BadConfigs = {}
  MaxLinkFaults = 1
SPECIFICATION FairSpec
PROPERTIES
  LinkRecovers
CHECK_DEADLOCK FALSE
