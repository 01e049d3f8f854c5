SPECIFICATION Spec
CONSTANTS
  Projects = {j1, j2}
  Instances = {i1, i2}
  Requests = {r1}
  Calls = {c1, c2}
  Events = {"failed"}
  Nothing = Nothing
  CacheSize = 1
  Offered = {"operator", "delete", "patch"}
  Faults = {}
  MaxFaults = 0
SYMMETRY TenancySymmetry
INVARIANTS CacheExplained
PROPERTY DeletedIsFinal
CHECK_DEADLOCK FALSE
