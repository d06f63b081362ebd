\* Messages in the encoding the client asks for: headers "Encoding: text".
CONSTANTS
  Forms <- TextForms
  MaxRequests = 1
  MaxCalls = 1
  MaxIrregular = 1
  NULL = NULL
SPECIFICATION DispatchSpec
INVARIANT CleansUpOnce
CHECK_DEADLOCK FALSE
