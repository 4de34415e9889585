SPECIFICATION SpecRun
CONSTANTS
  Base = 3
  IndustryTier = 0
  Upgrades = {1}
  Cooldown = 3
  Focuses = {"Growth"}
  FocusCrew = 2
  Crews = {}
  Gains = {}
  Grants = {1}
  MaxTick = 5
  MaxWork = 1
  Grains = 1
  FoundingRooms = {2}
  LaterRooms = {1, 2}
  Hall = 3
  Nest = {1, 2, 3}
  Dump = 6
  FoundingAir = {2, 3, 4, 5, 6}
  Carry = 2
  Second = 2
  TrailPeriod = 2
  Amounts = {20}
  Scale = 20
  NeighborWeight = 3
  Retention = 19
  Top = 30
  Floor = 1
  Cells <- MCCells
  Side <- MCSide
  Sites <- MCSites
  Costs <- MCCosts
INVARIANTS ProfilesReopen SameFuture WorkBalances
PROPERTY TrailsOfRunAreDense
