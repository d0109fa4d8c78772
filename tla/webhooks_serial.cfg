SPECIFICATION HookSpec
CONSTANTS
  t1 = t1
  h1 = h1
  Transfer = {t1}
  NoTransfer = NoTransfer
  Handler = {h1}
  Delivery = {d1}
  d1 = d1
  NoDelivery = NoDelivery
  PostAnswers = {"pending"}
  UserOps = {"cancel", "sync"}
  Faults = {"crash"}
  SentEvents = {"payment.success", "payment.refunded"}
  SentIds = {d1, NoDelivery}
  ResendsKeepId = FALSE
  Verdicts = {"ok", "badSignature"}
INVARIANTS ToldOnce ProcessedIsApplied
PROPERTIES ImplementsLifecycle CompletionDateKept
CHECK_DEADLOCK FALSE
