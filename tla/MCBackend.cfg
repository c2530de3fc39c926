SPECIFICATION Spec
CONSTANTS
  KeySize = 1
  Byte <- MCByte
  Broadcast <- MCBroadcast
  MAX_PORTS = 3
  BROADCAST_PORT = 2
  Switch = {s1, s2}
  NoSwitch = NoSwitch
  Host <- MCHost
  Dst <- MCDst
  InPort = {0, 1}
  MaxMessages = 3
INVARIANTS
  TypeOK
  DefinedIfCareful
  ForwardsByOwnKnowledge
PROPERTY
  MessageMeetsLastHandler
CHECK_DEADLOCK FALSE
