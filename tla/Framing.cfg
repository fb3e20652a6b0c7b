CONSTANTS
  Exchanges <- MCExchanges
  NumDigits = 2
  LengthModulus = 21
  TestSize = 4
  BlockSize = 9
  MaxBytes = 60
SPECIFICATION Spec
INVARIANTS
  TypeOK
  InStep
  
PROPERTIES
  NoneLeft
  OnlyHeaderCleared
  OneBlockDefined
CHECK_DEADLOCK FALSE
