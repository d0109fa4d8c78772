SPECIFICATION Spec
CONSTANTS
  Seeded = {"GA", "TG"}
  Listing <- TogoListing
  CatalogOps = {"sync", "seed", "switch"}
  Changes <- RateChanges
  MaxEvents = 3
  CatalogFaults = TRUE
  Sender = "GA"
  Recipients = {"GA", "TG"}
  Phones <- NumberOf
  Amounts = {10000, 20075}
  NetFaults = TRUE
INVARIANTS QuietQuoteIsCurrent ChargedAsShown FeesAreRounded OperatorServesRecipient PawapayNamesProvider SavedOnce ActivityIsAdmins
CHECK_DEADLOCK FALSE
