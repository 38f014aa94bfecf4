CONSTANTS
  a = a
  b = b
  MaxStuckRules = 0
  HostDev = HostDev
  Sandboxes = {a, b}
  Addr <- MCAddr
  Subnet <- NestedSubnet
  Gateway <- NestedGateway
  HostPrefixes = {{3}}
SPECIFICATION Spec
INVARIANTS TypeOK SubnetExclusive
PROPERTY ImplementsLease
CONSTRAINT FewStuckRules
CHECK_DEADLOCK FALSE
