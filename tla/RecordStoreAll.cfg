CONSTANTS
  Ids = {i1, i2}
  Vals = {v1, v2}
  Txs = {t1, t2}
  Kinds = {"save", "saveVerified", "remove", "removeOne", "mass"}
  MaxRequests = 2
  Absent = Absent
  Free = Free
SPECIFICATION FairSpec
INVARIANTS FlushedOverBase
PROPERTIES DeletedStaysDeleted VersionsOnlyGrow RequestsEnd
CHECK_DEADLOCK FALSE
