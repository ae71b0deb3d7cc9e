SPECIFICATION Spec
CONSTANTS
  None = None
  Unset = Unset
  Operations <- MCOperations
  Present <- MCPresent
  Demo <- MCDemo
  RequestCount = 2
  PoolSize = 3
  Readers = {d1, d2}
INVARIANTS
  DashboardTypeOK
  UniqueKeys
  EveryReferenceHolds
PROPERTIES
  HistoryIsKept
  SeedIsIdempotent
  SummaryConverges
  EveryCallAnswered
