CONSTANTS
  a = a
  b = b
  MaxStuckRules = 1
  HostDev = HostDev
  Sandboxes = {a, b}
  Addr <- MCAddr
  Subnet <- DisjointSubnet
  Gateway <- DisjointGateway
  HostPrefixes = {}
SPECIFICATION Spec
INVARIANTS NoLeakOnSuccess UplinkPolicy AtMostOneWay
CONSTRAINT OneTroubled
CHECK_DEADLOCK FALSE
