SPECIFICATION PdSpec
CONSTANTS
  Frame <- MCFrame
  Inport <- MCInport
  PortParam <- MCPortParam
  Ttl <- MCTtl
  Csum <- MCCsum
INVARIANTS
  PdTypeOK
  ReadsBack
  DigestByte
PROPERTY
  OnlyOwnBits
