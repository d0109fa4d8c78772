SPECIFICATION FairSpec
CONSTANTS
  t1 = t1
  t2 = t2
  Tab = {t1}
  NoTab = NoTab
  MaxEvents = 1
  Start <- OneStart
  NetFaults = FALSE
PROPERTY LogoutRevokes
CHECK_DEADLOCK FALSE
