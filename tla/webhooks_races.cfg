SPECIFICATION HookSpec
CONSTANTS
  t1 = t1
  h1 = h1
  h2 = h2
  d1 = d1
  d2 = d2
  d3 = d3
  Transfer = {t1}
  NoTransfer = NoTransfer
  Handler = {h1, h2}
  Delivery = {d1, d2, d3}
  NoDelivery = NoDelivery
  PostAnswers = {"pending"}
  UserOps = {}
  Faults = {"crash"}
  SentEvents = {"payment.initiated", "payment.success", "payment.refunded", "cashout.failed", "webhook.test"}
  SentIds = {d1, d2, d3}
  ResendsKeepId = TRUE
  Verdicts = {"ok", "stale"}
SYMMETRY Symmetry
INVARIANTS HookIInv OneHandlerPerDelivery ToldOnce
CHECK_DEADLOCK FALSE
