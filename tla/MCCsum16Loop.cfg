SPECIFICATION Spec
CONSTANTS
  ByteBase = 4
  Byte = {0, 1, 3}
  MaxLen = 9
INVARIANTS
  TypeOK
  LoopInvariant
  ResultIsSum
  ByteOrderFree
PROPERTY
  Returns
CHECK_DEADLOCK FALSE
