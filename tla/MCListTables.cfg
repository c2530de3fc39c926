SPECIFICATION TablesSpec
CONSTANTS
  KeySize = 2
  Byte = {1, 255}
  Value = {nop, fwd}
  NoEntry = NoEntry
  TernaryValue = {v1, v2}
INVARIANTS
  TypeOK
  StrictlyDescending
  TernaryTypeOK
  NoKeyUnderOlderEntry
PROPERTIES
  ImplementsDictionary
  AddedKeyAnswers
SYMMETRY ValueSymmetry
