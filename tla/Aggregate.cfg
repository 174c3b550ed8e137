SPECIFICATION Spec
CONSTANTS
  br = br
  bond = bond
  eth0 = eth0
  eth1 = eth1
  None = None
  DevOrder <- MCDevOrder
  FileOrder <- MCFileOrder
  Kind <- MCKind
  Async = {bond}
  Auth = {eth1}
  Hotplug = {eth1}
  Admin = {br}
  Config <- MCConfig
  MayFail <- MCMayFail
  MaxFaults = 1
  MaxReloads = 2
INVARIANTS CountsAgree HoldsWhatItUses MembersAreServed
PROPERTIES HotplugSurvives
CHECK_DEADLOCK FALSE
