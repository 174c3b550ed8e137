\* Two interfaces: both can wait while a script of either one runs.
CONSTANTS
  Iface = {i1, i2}
  NoIface = NoIface
SPECIFICATION FairSpec
INVARIANTS QueueSound LastWord
PROPERTIES NoStarvation
