\* Two radios whose handlers are serialized.
CONSTANTS
  r1 = r1
  r2 = r2
  c1 = c1
  c2 = c2
  ap = ap
  hostapd = hostapd
  wpas = wpas
  None = None
  Order <- Pair
  Serialize = {r1, r2}
  Reconf = {}
  Config <- PairConfig
  Process = {}
  Required = {}
  Fault = {"freed"}
  WIRELESS_SETUP_RETRY = 0
SPECIFICATION FairSpec
INVARIANTS QueueServed
PROPERTIES CancelEnds TeardownEnds
