CONSTANTS
  Ids = {1, 2, 3}
  MaxEntities = 2
  Limits = {1, 3}
  Runtimes = {"r"}
  MaxWrites = 3
  MaxRecords = 1
  MaxVersion = 2
  MaxClock = 2
SPECIFICATION Spec
INVARIANTS TypeOK OnlyLateWritesAreMissed StoresAgree
PROPERTIES MemoryDropsOldest IndexNeverRegresses
CHECK_DEADLOCK FALSE
