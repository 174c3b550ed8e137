\* The udhcp and isc handlers (zcip follows the formulas of udhcp), three processes, two leases, one fault.
CONSTANTS
  Kinds <- MCKinds
  Proc <- MCProc
  Lease = {l1, l2}
  MaxFaults = 1
  MaxOrphans = 1
  None = None
SPECIFICATION FairSpec
INVARIANTS ClientServes
PROPERTIES ImplementsContract TeardownEnds ComesUp
CHECK_DEADLOCK FALSE
