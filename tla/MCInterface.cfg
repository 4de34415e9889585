SPECIFICATION UiSpec
CONSTANTS
  Spots <- MCSpots
  Rect <- MCRect
  ArmedRect <- MCArmedRect
  World <- MCWorld
  PanelSpots <- MCPanelSpots
  Close <- MCClose
INVARIANTS AbandonMeant RequestsStayInScene
