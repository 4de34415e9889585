CONSTANTS
  Procs = {p1}
  Payloads = {a}
  Garbage = {g1, g2}
  Platform = "posix"
  Hazards = {"damage"}
  MaxRevision = 3
  MaxTemp = 5
SPECIFICATION Spec
SYMMETRY Symmetry
INVARIANT OriginalsRetained
