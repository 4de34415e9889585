SPECIFICATION Spec
CONSTANTS
  Founders = 1
  MaxIds = 6
  NurseryCapacity = 2
  StageTime = 1
  CareSpan = 1
  LayEvery = 1
  EggEvery = 1
  MaxWinged = 1
  QueenPatience = 2
  WorkerPatience = 2
  LarvaPatience = 2
  CleanAge = 1
  CorpseAge = 4
  MatureWorkers = 1
  MatureBorn = 0
  MatureAge = 0
INVARIANTS ColonySaves PopulationBalances CarriersLive
PROPERTY BroodAdvances
