SPECIFICATION Spec
CONSTANTS
  NumDocs = 1
  Txns = {t1, t2}
  Calls = {c1, c2}
  Nobody = Nobody
  MaxBatch = 2
  Batches <- BatchesSingle
  ReadDocs = {1}
  WriteDocs = {}
  Ending = {}
  MaxVersion = 2
  MaxInt = 2
PROPERTIES AbsenceHoldsAtCommit
CHECK_DEADLOCK FALSE
