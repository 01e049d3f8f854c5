SPECIFICATION FairSpec
CONSTANTS
  Docs = {d1}
  Watched = {d1}
  Bodies = {fits, other}
  NoBody = nobody
  Matching = {fits}
  Readable = {fits, nobody}
  Sessions = {s1}
  Capacity = 1
  Second = 1
  StaleAfter = 2
  Faults = {"commit", "notify", "link", "fetch", "query", "gone", "keepalive", "clock"}
  MaxVersion <- TwoWrites
  MaxTime = 2
INVARIANTS Accounted DroppedMeansReset
PROPERTY CatchesUp
CHECK_DEADLOCK FALSE
