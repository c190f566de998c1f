SPECIFICATION PartySpec
CONSTANTS
  Players = {p1, p2}
  TotalRooms = 3
  RestRooms = {1}
  FirstWave = 1
  Reinforcements = 1
  WaveSize = 1
  MaxSpawns = 3
  MaxLevels = 0
  Casters = {p1, p2}
  MaxIds = 3
  MaxOwnership = 3
  ResyncLimit = 1
  Handoffs = 1
  Menus = {"Start", "Choose", "Continue"}
INVARIANTS
  ResyncKeepsHero
