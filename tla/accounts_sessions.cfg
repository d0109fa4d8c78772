SPECIFICATION Spec
CONSTANTS
  h2 = h2
  h1 = h1
  u1 = u1
  User = {u1}
  NoUser = NoUser
  Handler = {h1, h2}
  Phone = {}
  NoPhone = NoPhone
  Code = {}
  NoCode = NoCode
  MaxClock = 2
  MaxPassword = 2
  MaxTokens = 1
  AccessTtl = 2
  RefreshTtl = 2
  EmailTtl = 1
  PhoneTtl = 1
  ResetTtl = 1
  Requests = {"login", "refresh", "logout", "change"}
  Faults = {"crash"}
SYMMETRY RequestSymmetry
INVARIANTS IInv NoSessionOutlivesRevocation
PROPERTY RevokedForGood
CHECK_DEADLOCK FALSE
