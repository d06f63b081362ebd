\* One contact, its session, two others; one message out, one in, a second
\* contact list, one fault of any kind.
CONSTANTS
  Deferreds = {d1, d2, d3, d4, d5, d6, d7}
  Callbacks <- MCCallbacks
  UserData <- MCUserData
  Chains <- MCChains
  Faults <- MCFaults
  NULL = NULL
  Users = {"u"}
  Strangers = {"x"}
  SessionIds = {"direct", "group", "others"}
  Members <- MCMembers
  Ims = {"im"}
  MaxInFlight = 2
  MaxMessages = 1
  MaxLists = 2
  MaxFaults = 1
  OtherFaults = TRUE
SPECIFICATION MSpec
INVARIANTS MTypeOK AcceptedOnce DispatchFindsSession HandlersReadTheirResponse
CHECK_DEADLOCK FALSE
