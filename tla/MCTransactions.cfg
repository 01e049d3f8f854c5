SPECIFICATION FairSpec
CONSTANTS
  NumDocs = 2
  Txns = {t1}
  Calls = {c1, c2}
  Nobody = Nobody
  MaxBatch = 3
  Batches <- BatchesMixed
  ReadDocs = {1}
  WriteDocs = {1}
  Ending = {t1}
  MaxVersion = 2
  MaxInt = 1
INVARIANTS TypeOK CommitInv
PROPERTIES ReadsHoldAtCommit PreconditionsHoldAtCommit LockedFieldsCurrent VersionsIncrease ImplementsOccStore CallsReturn
CHECK_DEADLOCK FALSE
