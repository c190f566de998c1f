SPECIFICATION Spec
CONSTANTS
  MaxEpoch = 1
  MaxCommand = 2
  MaxTick = 3
  MaxBundles = 3
  MaxResults = 6
  MaxOthers = 2
  MaxLane = 0
  Slots = {0}
  BundleCommands = 1
  FutureTicks = 1
  NormalRecords = 2
  OverloadRecords = 2
  WindowLimit = 2
  BatchRecords = 1
  LookupLimit = 1
  Retention = 2
  ExpireEvery = 1
INVARIANTS
  OneResult
CHECK_DEADLOCK FALSE
