CONSTANTS
  v1 = v1
  v2 = v2
  home = home
  sales = sales
  start = start
  None = None
  Views = {v1, v2, home}
  Forms = {v1, v2, home}
  Home = {home}
  ActionOf <- Opened
  MaxDialogs = 2
SPECIFICATION FairSpec
INVARIANTS TypeOK OneTabPerAction ShownIsInBar
PROPERTIES LostOnlyIfConfirmed CloseTabsEnds
CHECK_DEADLOCK FALSE
