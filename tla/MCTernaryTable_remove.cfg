SPECIFICATION TernarySpec
CONSTANTS
  KeySize = 2
  Byte = {1, 2}
  TernaryValue = {v1, v2}
PROPERTY
  RemoveDeletesAllFits
