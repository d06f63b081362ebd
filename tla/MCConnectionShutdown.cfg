\* The account is used after libgaldr_shutdown.
CONSTANTS
  Deferreds <- MCDeferreds
  Callbacks <- MCCallbacks
  UserData = {NULL}
  Chains <- MCChains
  Faults = {"fault"}
  NULL = NULL
  Period = 2
  DefaultTimeout = 3
  PingTimeout = 1
  MaxBuilt = 4
SPECIFICATION CSpec
INVARIANT ShutdownWhenDone
CHECK_DEADLOCK FALSE
