CONSTANTS
  Byte = {a, b}
  Garbage = x
  BlockSize = 3
  HeaderSize = 2
  MaxBytes = 8
SPECIFICATION Spec
INVARIANTS
  TypeOK
  ReadHasRoom
  DataReachable
  TotalAgrees
  FieldsReadable
  LinesReadable
 
