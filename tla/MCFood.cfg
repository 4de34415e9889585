SPECIFICATION Spec
CONSTANTS
  Workers = 2
  SourceIds = 3
  MaxSources = 2
  SiteAmounts = {1}
  GrainsPerCell = 1
  Carry = 2
  ScoutCap = 1
  Patience = 1
  FirstCells = 2
  MaxCells = 3
INVARIANTS CountersMatch RoomMeansTarget DepositsNeverStall ReservationsAreClaims
PROPERTIES FoodConserved ReservationsEnd
