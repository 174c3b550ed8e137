SPECIFICATION Spec
CONSTANTS
  eth0 = eth0
  eth1 = eth1
  None = None
  DevOrder <- MCDevOrder
  Config <- MCConfig
  Fault <- MCFault
  Hotplug = {eth1}
  MaxReloads = 2
  MaxTroubles = 1
INVARIANTS CountsAgree HandlerAgrees BridgeServed
PROPERTIES Recovers
CHECK_DEADLOCK FALSE
