SPECIFICATION Spec
CONSTANTS
  None = None
  Unset = Unset
  p1 = p1
  Products = {p1}
  Mix = "serial"
  Operations <- MCOperations
  Thresholds <- MCThresholds
  Quantities = {1, 2, 3}
  RequestCount = 4
  PoolSize = 1
  MaxInt = 6
  Crashes = FALSE
INVARIANTS
  DriftExplained
PROPERTIES
  AlertsOnlyAdvance
