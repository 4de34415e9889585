SPECIFICATION Spec
CONSTANTS
  Sure = 1000
  Cells = {1, 2, 3, 4, 5, 6, 7, 8}
  Near <- MCNear
  Rock = {4}
  Beside <- MCBeside
  Home = 1
  Sites <- MCSites
  Founding <- MCFounding
  FirstAir = {1}
  Workers = 3
  Diggers = 2
  MaxRooms = 2
  MaxPassages = 3
  MinNewCells = 1
  Apron = 1
INVARIANTS CrewsFit GrainsBalance NeverStuck
PROPERTY DugAsPlanned
