SPECIFICATION Spec
CONSTANTS
  None = None
  Users = {u1}
  Roles = {"manager", "operator"}
  Permissions = {"product:write"}
  CallCount = 3
  MaxChange = 1
INVARIANTS
  AuthTypeOK
  OnlyOverlapForks
  LogoutEndsLogin
  TokensForLiveAccounts
  ServedByCurrentRole
