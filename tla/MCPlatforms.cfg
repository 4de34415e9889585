CONSTANTS
  Procs = {p1, p2}
  Payloads = {a}
  Garbage = {}
  Platform = "posix"
  Hazards = {"write", "replace", "sync", "crash", "invalid", "power"}
  MaxRevision = 3
  MaxTemp = 2
  WindowsPayloads = {b, c}
  WindowsGarbage = {g1}
  WindowsHazards = {"write", "replace", "crash", "damage"}
  WindowsTemp = 5
SPECIFICATION SpecPlatforms
SYMMETRY SymmetryOfPlatforms
INVARIANT AckedSurvives
INVARIANT BackupIsPrevious
INVARIANT FailedMeansNotInstalled
INVARIANT LockOwnedForLifetime
INVARIANT SomeRevisionSurvivesOnWindows
PROPERTY RefinesDurable
CHECK_DEADLOCK FALSE
