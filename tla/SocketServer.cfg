CONSTANTS
  s1 = s1
  s2 = s2
  FirstSends = 4
  SecondSends = 1
  OneUnsupported = TRUE
  Socket <- MCSocket
  Requests <- MCRequests
  Unsupported <- MCUnsupported
  PipeCapacity <- MCPipeCapacity
  SplitHeaders = FALSE
  SendRoom = 2
  BlockSize = 1
  MaxBytesPerReadWrite = 2
  MaxNumberMessagesInBuffer = 1
  MaxNumberBytesInBuffer = 1
  MaxDescriptors = 2
  MaxInUDPMsgs = 1
  MaxDatagrams = 0
SPECIFICATION Spec
INVARIANTS
  TypeOK
  Conservation
  
  CenterFindsMessage
  OpenIsServed
  NeverBlocksOnPipe
PROPERTY EchoSpec
CHECK_DEADLOCK FALSE
