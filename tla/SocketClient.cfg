CONSTANTS
  s1 = s1
  s2 = s2
  s3 = s3
  Socket <- MCSocket
  Requests <- MCRequests
  Batches <- MCBatches
  ServerFails = TRUE
  Unsupported <- MCUnsupported
  PipeCapacity = 3
  SplitHeaders = FALSE
  SendRoom = 1
  BlockSize = 1
  MaxBytesPerReadWrite = 2
  MaxNumberMessagesInBuffer = 2
  MaxNumberBytesInBuffer = 1
SPECIFICATION FairSpec
INVARIANTS
  TypeOK
  OwnReplyFinishes
PROPERTIES
  UnansweredFailed
  Ends
CHECK_DEADLOCK FALSE
