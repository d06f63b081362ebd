\* A group with one known contact.
CONSTANTS
  Deferreds = {d1, d2, d3, d4, d5, d6, d7}
  Callbacks <- MCCallbacks
  UserData <- MCUserData
  Chains <- MCChains
  Faults <- MCFaults
  NULL = NULL
  Users = {"u"}
  Strangers = {"x"}
  SessionIds = {"direct", "group", "others"}
  Members <- MCMembers
  Ims = {"im"}
  MaxInFlight = 2
  MaxMessages = 1
  MaxLists = 1
  MaxFaults = 0
  OtherFaults = TRUE
SPECIFICATION MSpec
INVARIANT GroupsDoNotShow
CHECK_DEADLOCK FALSE
