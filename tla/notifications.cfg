SPECIFICATION FairSpec
CONSTANTS
  c1 = c1
  Call = {c1}
  Asked = {"emailVerification", "phoneOtp", "transactionInitiated", "transactionRefunded"}
  Faults = {"redis", "database", "channel", "crash"}
INVARIANTS IInv Ledger QueuedIsUnsaid
PROPERTIES JobsSettle
CHECK_DEADLOCK FALSE
