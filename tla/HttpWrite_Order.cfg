CONSTANTS
  Responses <- KeptOpen
  Pipelining = FALSE
  MaxRequests = 3
SPECIFICATION LiveSpec
INVARIANTS ResponsesInOrder CloseAfterWrite WaitsOnlyForRoom
PROPERTY ResponseCompletes
CHECK_DEADLOCK FALSE
