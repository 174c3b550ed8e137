\* One radio: its script, processes and virtual interface.
CONSTANTS
  r1 = r1
  r2 = r2
  c1 = c1
  c2 = c2
  ap = ap
  hostapd = hostapd
  wpas = wpas
  None = None
  Order <- Single
  Serialize = {}
  Reconf = {r1}
  Config <- SingleConfig
  Process = {hostapd, wpas}
  Required = {hostapd}
  Fault = {"fork"}
  WIRELESS_SETUP_RETRY = 1
SPECIFICATION Spec
INVARIANTS RadioDriven RadioClean DataMatches
