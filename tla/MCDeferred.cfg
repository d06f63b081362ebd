\* Three addresses, queues of up to three pairs, under the fairness of C code.
CONSTANTS
  Deferreds = {d1, d2, d3}
  Callbacks = {"fn"}
  UserData = {NULL}
  Chains <- MCChains
  Faults = {"fault", "text"}
  NULL = NULL
SPECIFICATION DFairSpec
INVARIANTS DTypeOK NeverRefired NoneLeftFiring OneWaker NoDanglingDeferred FaultsReachNoCallback
PROPERTY RunsEnd
