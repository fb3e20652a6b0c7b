CONSTANTS
  Exchanges <- MCExchanges
  NumDigits = 2
  LengthModulus = 21
  TestSize = 4
  BlockSize = 9
  MaxBytes = 60
SPECIFICATION Spec
INVARIANT PartialIsKept
CHECK_DEADLOCK FALSE
