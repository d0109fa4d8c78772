SPECIFICATION FairSpec
CONSTANTS
  c1 = c1
  p1 = p1
  h1 = h1
  u1 = u1
  User = {u1}
  NoUser = NoUser
  Handler = {h1}
  Phone = {p1}
  NoPhone = NoPhone
  Code = {c1}
  NoCode = NoCode
  MaxClock = 2
  MaxPassword = 1
  MaxTokens = 2
  AccessTtl = 2
  RefreshTtl = 2
  EmailTtl = 1
  PhoneTtl = 1
  ResetTtl = 1
  Requests = {"login", "refresh", "logout", "change", "reset", "verifyEmail", "phone", "profile", "status"}
  Faults = {}
INVARIANTS RotatedOnce UsedOnce ResetEndsSessions
PROPERTY OldSessionsEnd
CHECK_DEADLOCK FALSE
