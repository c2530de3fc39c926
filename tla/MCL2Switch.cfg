SPECIFICATION Spec
CONSTANTS
  KeySize = 1
  Byte <- MCByte
  Device = {1, 2, 3}
  Devices <- MCDevices
  MAX_PORTS = 4
  BROADCAST_PORT = 1
  Address <- MCAddress
  NoAddress <- MCNoAddress
  GetAddress <- MCGetAddress
  HostAddress <- MCHostAddress
  Broadcast <- MCBroadcast
  Multicast = {}
  EgressPort = {0, 1, 2, 3, 4}
  Self = this
  Dst <- MCDst
  MaxFrames = 3
INVARIANTS
  TypeOK
  LearnedWhereSeen
  ReachesDestination
  FloodedOnlyUntilLearned
PROPERTY
  EverythingDelivered
CHECK_DEADLOCK FALSE
