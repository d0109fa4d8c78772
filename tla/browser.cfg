SPECIFICATION FairSpec
CONSTANTS
  t1 = t1
  t2 = t2
  Tab = {t1, t2}
  NoTab = NoTab
  MaxEvents = 3
  Start <- BothStart
  NetFaults = TRUE
INVARIANTS IInv ExecutedOnce CallsAreServed PagesFollowOwnWrites
PROPERTIES OneTabKeepsItsSession AdminSignedOutByTokenOnly CallsSettle
CHECK_DEADLOCK FALSE
