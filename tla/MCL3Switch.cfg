SPECIFICATION Spec
CONSTANTS
  ByteBase = 256
  AddressByte <- MCAddressByte
  Device <- MCDevice
  Devices <- MCDevices
  MAX_PORTS = 255
  BROADCAST_PORT = 100
  Address <- MCAddress
  NoAddress = 0
  GetAddress <- MCGetAddress
  Broadcast = 255
  Multicast = {}
  EgressPort <- MCEgressPort
  Self = this
  Frame <- MCFrame
  Message <- MCMessage
  NoHeader = NoHeader
  NoEntry = NoEntry
INVARIANTS
  TypeOK
  RoutedAsTold
  RewrittenAsTold
  UpdatedHeader
  DescriptorLostOnlyWithoutPort
  
CHECK_DEADLOCK FALSE
