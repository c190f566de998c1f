SPECIFICATION FairReplication
CONSTANTS
  Parts = {"scopes", "scheduler", "baselines"}
  i1 = i1
  i2 = i2
  Indexes <- MCOneIndex
  Size <- MCSize
  Representations = {1, 2}
  KnownEntities = 1
  PendingTransitions = 1
  RetainedBytes = 2
  SentProofs = 1
  MaxGeneration = 2
  MaxVersion = 2
  MaxSnapshot = 3
  MaxPolicy = 1
  MaxEpoch = 1
  MaxChanges = 2
  Groups = {"a", "b", "c"}
  Indices = {1, 2, 3}
  ScopeParts = {"scope"}
  LifeParts = {"ownership"}
  Connections = {"c"}
  Published <- MCPublished
  MaxGroups = 2
  PerGroup = 2
  MaxEntities = 3
  FencedGroups = 4
  FencedMembers = 6
  Units = {1, 2, 3}
  Bytes <- MCBytes
  Period <- MCPeriod
  MaximumAge <- MCMaximumAge
  Priority <- MCPriority
  Critical = {2}
  Refill = 2
  Burst = 3
  ReserveTenths = 4
  AgeBound = 4
INVARIANTS ScopesAgree NeverOverdrawn BasesAgree
PROPERTIES FencesOnlyAdvance Converges  
CHECK_DEADLOCK FALSE
