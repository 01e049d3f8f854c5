SPECIFICATION FairSpec
CONSTANTS
  Projects = {j1, j2}
  Instances = {i1, i2}
  Requests = {}
  Calls = {c1, c2}
  Events = {"failed", "succeeded", "updated", "canceled"}
  Nothing = Nothing
  CacheSize = 2
  Offered = {"upgrade"}
  Faults = {"db", "restart", "usage"}
  MaxFaults = 1
INVARIANT CappedMeansSuspended
PROPERTY CapEnforced
CHECK_DEADLOCK FALSE
