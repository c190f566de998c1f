SPECIFICATION PartsSpec
CONSTANTS
  Parts = {"session", "poses"}
  HistoryTicks = 2
  ReplayTicks = 2
  PredictionTicks = 2
  InitialLead = 1
  MaxLead = 2
  TargetJump = 1
  AdoptTicks = 1
  PendingLimit = 2
  MaxTick = 2
  MaxSample = 2
  MaxRevision = 2
INVARIANTS  PosesFollow
PROPERTIES Pinned TimeNeverReverses
CHECK_DEADLOCK FALSE
