\* A contact list arrives while a message waits for its session.
CONSTANTS
  Deferreds = {d1, d2, d3, d4, d5, d6, d7}
  Callbacks <- MCCallbacks
  UserData <- MCUserData
  Chains <- MCChains
  Faults <- MCFaults
  NULL = NULL
  Users = {"u"}
  Strangers = {"x"}
  SessionIds = {"direct", "group", "others"}
  Members <- MCMembers
  Ims = {"im"}
  MaxInFlight = 2
  MaxMessages = 0
  MaxLists = 2
  MaxFaults = 0
  OtherFaults = TRUE
SPECIFICATION MSpec
INVARIANT SessionMadeFirst
CHECK_DEADLOCK FALSE
