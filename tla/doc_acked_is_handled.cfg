SPECIFICATION HookSpec
CONSTANTS
  t1 = t1
  h1 = h1
  h2 = h2
  d1 = d1
  d2 = d2
  Transfer = {t1}
  NoTransfer = NoTransfer
  Handler = {h1, h2}
  Delivery = {d1, d2}
  NoDelivery = NoDelivery
  PostAnswers = {"pending"}
  UserOps = {}
  Faults = {}
  SentEvents = {"payment.success", "payment.refunded"}
  SentIds = {d1, d2}
  ResendsKeepId = TRUE
  Verdicts = {"ok", "stale"}
INVARIANT AckedIsHandled
CHECK_DEADLOCK FALSE
