CONSTANTS
  SocketID = {s1, s2}
  Message = {m1, m2}
  Iterator = {n1, n2, n3, n4}
  PipeCapacity = 3
SPECIFICATION Spec
INVARIANTS
  TypeOK
  PipeCountsQueue
  NodesOwned
  IndicesAgree
  NoEmptySendList
PROPERTY QueuesSpec
CHECK_DEADLOCK FALSE
