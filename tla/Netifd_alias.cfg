\* An interface, its alias and one added at run time.
CONSTANTS
  eth0 = eth0
  eth1 = eth1
  lan = lan
  wan = wan
  vpn = vpn
  None = None
  Dev = {eth0}
  NameOrder <- Alias
  FileOrder <- AliasFile
  Config <- AliasConfig
  MayFail = {eth0, wan}
SPECIFICATION Spec
INVARIANTS AliasesSound
