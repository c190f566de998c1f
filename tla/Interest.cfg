SPECIFICATION PartsSpec
SYMMETRY Symmetry
CONSTANTS
  Parts = {"scopes", "topology", "interest", "replay", "lives", "cells"}
  i1 = i1
  i2 = i2
  Indexes <- MCTwoIndexes
  Size <- MCSize
  Representations = {1}
  KnownEntities = 2
  PendingTransitions = 1
  RetainedBytes = 3
  SentProofs = 1
  MaxGeneration = 1
  MaxVersion = 2
  MaxSnapshot = 3
  MaxPolicy = 2
  MaxEpoch = 2
  MaxChanges = 1
  Groups = {"a", "b", "c"}
  Indices = {1, 2, 3}
  ScopeParts = {"scope"}
  LifeParts = {"ownership"}
  Connections = {"c"}
  Published <- MCPublished
  MaxGroups = 2
  PerGroup = 2
  MaxEntities = 3
  FencedGroups = 4
  FencedMembers = 6
  Units = {1, 2, 3}
  Bytes <- MCBytes
  Period <- MCPeriod
  MaximumAge <- MCMaximumAge
  Priority <- MCPriority
  Critical = {2}
  Refill = 2
  Burst = 3
  ReserveTenths = 4
  AgeBound = 4
INVARIANTS BooksExact TopologySound DisclosureSound 
PROPERTY FencesAdvance
CHECK_DEADLOCK FALSE
