CONSTANTS
  Ids = {i1, i2}
  Vals = {v1, v2}
  Txs = {t1, t2}
  Kinds = {"save", "saveVerified", "remove"}
  MaxRequests = 3
  Absent = Absent
  Free = Free
SPECIFICATION Spec
SYMMETRY Symmetry
INVARIANTS TypeOK VersionIdentifiesContent
PROPERTIES ImplementsStore
CHECK_DEADLOCK FALSE
