SPECIFICATION QuietFairSpec
CONSTANTS
  t1 = t1
  h1 = h1
  h2 = h2
  Transfer = {t1}
  NoTransfer = NoTransfer
  Handler = {h1, h2}
  Delivery = {}
  NoDelivery = NoDelivery
  PostAnswers = {"pending"}
  UserOps = {"cancel", "sync"}
  Faults = {"gateway"}
  SentEvents = {}
  SentIds = {}
  ResendsKeepId = TRUE
  Verdicts = {}
INVARIANTS IInv HistoryTrue GatewayBacked StatusLogged
PROPERTIES OnlyLateWritersRevive SettledIsReflected
CHECK_DEADLOCK FALSE
