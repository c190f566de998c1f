SPECIFICATION PartsSpec
SYMMETRY Travelers
CONSTANTS
  Parts = {"party", "hosting", "surge", "identity", "soak", "creations"}
  Players = {p1, p2}
  TotalRooms = 3
  RestRooms = {1}
  FirstWave = 1
  Reinforcements = 0
  WaveSize = 1
  MaxSpawns = 1
  MaxLevels = 0
  Casters = {}
  MaxIds = 2
  MaxOwnership = 3
  ResyncLimit = 1
  Handoffs = 1
  Menus = {"Continue", "Restart", "Choose", "Pause"}
  Sessions = {s1, s2}
  MaxClients = 1
  CatchupLimit = 2
  SnapshotInterval = 3
  MaxWall = 8
   
PROPERTIES ReturnDoesNotHeal 
CHECK_DEADLOCK FALSE
