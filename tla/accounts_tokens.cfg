SPECIFICATION Spec
CONSTANTS
  c1 = c1
  p2 = p2
  p1 = p1
  h2 = h2
  h1 = h1
  u2 = u2
  u1 = u1
  User = {u1, u2}
  NoUser = NoUser
  Handler = {h1, h2}
  Phone = {p1, p2}
  NoPhone = NoPhone
  Code = {c1}
  NoCode = NoCode
  MaxClock = 0
  MaxPassword = 0
  MaxTokens = 4
  AccessTtl = 2
  RefreshTtl = 2
  EmailTtl = 1
  PhoneTtl = 1
  ResetTtl = 1
  Requests = {"verifyEmail", "phone"}
  Faults = {}
SYMMETRY Symmetry
INVARIANTS VerifiedByOwnToken
CHECK_DEADLOCK FALSE
