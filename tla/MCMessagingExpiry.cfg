\* One contact and its session; one message out, two in, one expired token.
CONSTANTS
  Deferreds = {d1, d2, d3, d4, d5, d6, d7, d8, d9}
  Callbacks <- MCCallbacks
  UserData <- MCUserData
  Chains <- MCChains
  Faults <- MCFaults
  NULL = NULL
  Users = {"u"}
  Strangers = {}
  SessionIds = {"direct"}
  Members <- DirectOnly
  Ims = {"im"}
  MaxInFlight = 2
  MaxMessages = 2
  MaxLists = 1
  MaxFaults = 1
  OtherFaults = FALSE
SPECIFICATION MFairSpec
 
PROPERTIES ImsAccepted MessagesShown
CHECK_DEADLOCK FALSE
