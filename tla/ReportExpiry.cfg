SPECIFICATION Spec
CONSTANTS
  None = None
  Jobs = {j1}
  Requests = {r1, r2, r3}
  MaxTries = 2
  MaxVersion = 1
INVARIANT
  FailureWasTrue
