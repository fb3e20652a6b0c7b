CONSTANTS
  s1 = s1
  s2 = s2
  FirstSends = 2
  SecondSends = 0
  OneUnsupported = FALSE
  Socket <- MCSocket
  Requests <- MCRequests
  Unsupported <- MCUnsupported
  PipeCapacity <- MCPipeCapacity
  SplitHeaders = TRUE
  SendRoom = 2
  BlockSize = 2
  MaxBytesPerReadWrite = 2
  MaxNumberMessagesInBuffer = 1
  MaxNumberBytesInBuffer = 1
  MaxDescriptors = 1
  MaxInUDPMsgs = 1
  MaxDatagrams = 1
SPECIFICATION FairSpec
PROPERTY ClosesAfterPeer
CHECK_DEADLOCK FALSE
