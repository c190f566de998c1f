SPECIFICATION PartsSpec
CONSTANTS
  Parts = {"outcomes", "combat", "views", "defense", "journal"}
  NoValue = NoValue
  b1 = b1
  neutral = neutral
  Bodies <- MCBodies
  Neutral <- neutral
  InitializedAt = 0
  FutureTicks = 2
  HeldGrace = 1
  AuditRecords = 2
  SequenceAhead = 2
  SubmissionsPerTick = 2
  MaxTick = 3
  MaxSequence = 4
  MaxEpoch = 1
  MaxCommand = 3
  OutcomeMaxTick = 2
  MaxBundles = 3
  MaxResults = 6
  MaxOthers = 2
  MaxLane = 0
  Slots = {0}
  BundleCommands = 2
  OutcomeFutureTicks = 2
  NormalRecords = 2
  OverloadRecords = 2
  WindowLimit = 2
  BatchRecords = 1
  LookupLimit = 1
  Retention = 2
  ExpireEvery = 1
INVARIANTS LedgersExact  JournalExact
PROPERTIES VerdictMatchesEffect DecisionsFinal
CHECK_DEADLOCK FALSE
