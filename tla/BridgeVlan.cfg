SPECIFICATION Spec
CONSTANTS
  eth0 = eth0
  eth1 = eth1
  DevOrder <- MCDevOrder
  Vid = {1, 2}
  Config <- MCConfig
  Request <- MCRequest
  Hotplug = {eth1}
  MaxReloads = 2
  MaxLinks = 1
INVARIANTS TableMatches PvidMatches
PROPERTIES PortsJoin
CHECK_DEADLOCK FALSE
