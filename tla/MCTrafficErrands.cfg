SPECIFICATION Spec
CONSTANTS
  Width = 3
  Height = 3
  Workers = {2, 3}
  Queen = 1
  Gynes = {4}
  Room = 1
  Plans = 1
  Mortal = {1, 2}
  Expansions = 6
  Terrain <- MCTerrain
  Home <- MCHome
  Site <- MCSite
  Heap <- MCHeap
  Post <- MCPost
  Outlet <- MCOutlet
  Face <- MCFace
  Dump <- MCDump
  Founded <- MCFounded
  Rank <- MCRank
PROPERTY LoadsTakenAtSite
