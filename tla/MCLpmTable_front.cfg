SPECIFICATION Spec
CONSTANTS
  KeySize = 3
  Byte = {1, 2, 3}
  Value = {v1}
  NoEntry = NoEntry
  CallKey <- MCCallKey
  PrefixLength <- MCPrefixLength
PROPERTY
  AddKeepsRoutes
