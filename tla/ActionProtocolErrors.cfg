CONSTANTS
  Attributes <- Outer
  Outers <- Nesting
  Inners <- Failing
  Checks <- NoChecks
SPECIFICATION Spec
INVARIANT NothingAhead
CHECK_DEADLOCK FALSE
