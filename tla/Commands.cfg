SPECIFICATION FairParts
CONSTANTS
  Parts = {"inbox", "outcomes"}
  NoValue = NoValue
  b1 = b1
  neutral = neutral
  Bodies <- MCBodies
  Neutral <- neutral
  InitializedAt = 0
  FutureTicks = 2
  HeldGrace = 1
  AuditRecords = 2
  SequenceAhead = 2
  SubmissionsPerTick = 2
  MaxTick = 3
  MaxSequence = 4
  MaxEpoch = 2
  MaxCommand = 1
  OutcomeMaxTick = 2
  MaxBundles = 2
  MaxResults = 6
  MaxOthers = 0
  MaxLane = 1
  Slots = {0}
  BundleCommands = 1
  OutcomeFutureTicks = 1
  NormalRecords = 8
  OverloadRecords = 2
  WindowLimit = 1
  BatchRecords = 1
  LookupLimit = 1
  Retention = 1
  ExpireEvery = 1
INVARIANTS InboxSound AnswersTrue
PROPERTIES DecidedForever AcceptedRuns ResultsDelivered
CHECK_DEADLOCK FALSE
