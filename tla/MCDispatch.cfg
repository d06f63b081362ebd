\* Two requests and two calls, replies and timeouts in any order; one of the
\* messages may have something wrong with it.
CONSTANTS
  Forms <- MCForms
  MaxRequests = 2
  MaxCalls = 2
  MaxIrregular = 1
  NULL = NULL
SPECIFICATION DispatchFairSpec
INVARIANTS DispatchTypeOK MemorySafe CallsAnswered
PROPERTIES KeepsPromise RepliesEndRequests
CHECK_DEADLOCK FALSE
