CONSTANTS
  Bytes <- MCBytes
  Zero = "NUL"
  kInitialSize = 20
  kMaxSize = 124
  kPrePendIndex = 2
  IntOf <- MCIntOf
  Codes <- MCCodes
  Lowercase <- MCLowercase
  Entities <- MCEntities
  Conversations <- MCConversations
  READ_BUFFER = 16
  PieceLength = 16
  CutAnywhere = FALSE
SPECIFICATION Spec
INVARIANTS
  DeliveredAsSent
PROPERTIES
  BufferIsQueue
  RefusedOnlyWhenFull
  EveryRequestAnswered
CHECK_DEADLOCK FALSE
