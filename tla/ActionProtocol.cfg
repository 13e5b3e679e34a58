CONSTANTS
  Attributes <- MCAttributes
  Outers <- MCOuters
  Inners <- MCInners
  Checks <- MCChecks
SPECIFICATION FairSpec
INVARIANTS TypeOK NothingAhead
PROPERTIES StepsInOrder Settles
CHECK_DEADLOCK FALSE
