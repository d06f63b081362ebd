\* Requests made before the keep-alive timer runs never time out.
CONSTANTS
  Deferreds <- FewDeferreds
  Callbacks <- MCCallbacks
  UserData = {NULL}
  Chains <- MCChains
  Faults = {"fault"}
  NULL = NULL
  Period = 2
  DefaultTimeout = 3
  PingTimeout = 1
  MaxBuilt = 3
SPECIFICATION CFairSpec
PROPERTY ExpiredEnds
CHECK_DEADLOCK FALSE
