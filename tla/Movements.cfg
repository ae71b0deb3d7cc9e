SPECIFICATION Spec
CONSTANTS
  None = None
  Unset = Unset
  p1 = p1
  Products = {p1}
  Mix = "movements"
  Operations <- MCOperations
  Thresholds <- MCThresholds
  Quantities = {1, 2, 3}
  RequestCount = 3
  PoolSize = 3
  MaxInt = 4
  Crashes = TRUE
INVARIANTS
  LedgerSound
  AlertsFollowStock
  AnswersMatchLedger
PROPERTIES
  ImplementsStockLedger
