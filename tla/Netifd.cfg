\* Two interfaces on one device.
CONSTANTS
  eth0 = eth0
  eth1 = eth1
  lan = lan
  wan = wan
  vpn = vpn
  None = None
  Dev = {eth0}
  NameOrder <- Shared
  FileOrder <- Shared
  Config <- SharedConfig
  MayFail = {eth0, wan}
SPECIFICATION Spec
INVARIANTS ClaimsAgree UpOnDevice NothingForgotten
