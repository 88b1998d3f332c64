CONSTANTS
  Bytes <- MCBytes
  Zero = "NUL"
  kInitialSize = 20
  kMaxSize = 124
  kPrePendIndex = 2
  IntOf <- MCIntOf
  Codes <- MCCodes
  Lowercase <- MCLowercase
  Entities <- MCEntities
  Conversations <- MCSplitConversations
  READ_BUFFER = 16
  PieceLength = 16
  CutAnywhere = TRUE
SPECIFICATION Spec
INVARIANT
  DeliveredAsSent
CHECK_DEADLOCK FALSE
