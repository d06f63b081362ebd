\* Eight addresses, two requests in flight besides the pings; main-loop fairness.
\* The system stops when the account has been freed.
CONSTANTS
  Deferreds <- MCDeferreds
  Callbacks <- MCCallbacks
  UserData = {NULL}
  Chains <- MCChains
  Faults = {"fault"}
  NULL = NULL
  Period = 2
  DefaultTimeout = 3
  PingTimeout = 1
  MaxBuilt = 4
SPECIFICATION CFairSpec
INVARIANTS CTypeOK OnePing ConnectedHasToken LossIsReported SweptStillPending
PROPERTIES DSpec RequestsEnd DeadServerNoticed HeloEnds
CHECK_DEADLOCK FALSE
