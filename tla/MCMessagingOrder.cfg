\* Two messages of a session, the first of which has to fetch it.
CONSTANTS
  Deferreds = {d1, d2, d3, d4, d5, d6, d7}
  Callbacks <- MCCallbacks
  UserData <- MCUserData
  Chains <- MCChains
  Faults <- MCFaults
  NULL = NULL
  Users = {"u"}
  Strangers = {"x"}
  SessionIds = {"direct", "group", "others"}
  Members <- MCMembers
  Ims = {"im"}
  MaxInFlight = 2
  MaxMessages = 2
  MaxLists = 1
  MaxFaults = 0
  OtherFaults = TRUE
SPECIFICATION MSpec
INVARIANT MostRecentIsLast
CHECK_DEADLOCK FALSE
