CONSTANTS
  Seeds = {1, 2}
  Colonies <- ThreeColonies
  DebugTools = FALSE
  Damages = FALSE
  MaxRevision = 6
  MaxLegacy = 12
  MaxGeneration = 3
  Digits = 6
SPECIFICATION Spec
PROPERTY FlightsAreFinal
