CONSTANTS
  Requests = {r1, r2}
  Logins = {l1, l2, l3}
  MaxFaults = 2
SPECIFICATION FairSpec
INVARIANTS ServedOnce ParkedIsAsked
PROPERTIES RequestsEnd
CHECK_DEADLOCK FALSE
