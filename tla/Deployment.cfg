SPECIFICATION Spec
CONSTANTS
  None = None
  api = api
  direct = direct
  job = job
  d1 = d1
  d2 = d2
  Api = {api}
  Direct = {direct}
  Jobs = {job}
  Callers = {d1, d2}
  Home <- MCHome
  BackoffLimit = 1
  MaxFaults = 2
INVARIANTS
  DeploymentTypeOK
  ServesWholeSchema
  HandlesOpen
  PoolsBounded
PROPERTIES
  UpgradeIsWhole
  EveryContainerSettles
