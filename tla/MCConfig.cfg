SPECIFICATION Spec
CONSTANTS
  WordSize = 16
  PortSize = 4
  Values <- EdgeValues
  Texts = {"master_host", "qs_db"}
  Capacity = 2
  MaxWatch = 4
  MaxFiles = 2
INVARIANTS
  TypeOK
  RunningConfUsable
CHECK_DEADLOCK FALSE
