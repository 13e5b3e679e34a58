CONSTANTS
  Ids = {1, 2}
  Stored = {1}
  Slots = {s1, s2}
  Limit = 1
  Routes = {0, 2}
  Shared = {1, 2}
  MaxSaves = 1
  MaxFrom = 1
  MaxAhead = 1
  ShowConfirm = TRUE
  CheckVersion = {"ask", "silent"}
  None = None
SPECIFICATION Spec
INVARIANTS TypeOK PageMatches FormShowsIndex
PROPERTY TypingIsKept
SYMMETRY Symmetry
CHECK_DEADLOCK FALSE
