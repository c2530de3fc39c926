SPECIFICATION Spec
CONSTANTS
  Device <- MCDevice
  MAX_PORTS = 3
  BROADCAST_PORT = 1
  Address <- MCAddress
  NoAddress = 0
  GetAddress <- MCGetAddress
  EgressPort = {0, 1, 3}
  Self = this
  Broadcast = 255
  Multicast = {33}
INVARIANTS
  TypeOK
  PortNumbers
  FloodOrUnicast
  OwnFramesLocal
