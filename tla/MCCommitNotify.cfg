SPECIFICATION Spec
CONSTANTS
  Docs = {d1}
  Watched = {d1}
  Bodies = {fits, other}
  NoBody = nobody
  Matching = {fits}
  Readable = {fits, other, nobody}
  Sessions = {s1}
  Capacity = 2
  Second = 2
  StaleAfter = 2
  Faults = {"commit"}
  MaxVersion <- TwoWrites
  MaxTime = 0
INVARIANT SettledMeansCurrent
CHECK_DEADLOCK FALSE
