CONSTANTS
  s1 = s1
  s2 = s2
  FirstSends = 2
  SecondSends = 1
  OneUnsupported = FALSE
  Socket <- MCSocket
  Requests <- MCRequests
  Unsupported <- MCUnsupported
  PipeCapacity = 1
  SplitHeaders = FALSE
  SendRoom = 2
  BlockSize = 2
  MaxBytesPerReadWrite = 2
  MaxNumberMessagesInBuffer = 1
  MaxNumberBytesInBuffer = 1
  MaxDescriptors = 2
  MaxInUDPMsgs = 1
  MaxDatagrams = 0
SPECIFICATION Spec
INVARIANT NeverBlocksOnPipe
CHECK_DEADLOCK FALSE
