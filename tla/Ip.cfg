SPECIFICATION Spec
CONSTANTS
  Announcements <- MCAnnouncements
  Configs <- MCConfigs
  Targets <- MCTargets
  Onlink <- MCOnlink
  Covers <- MCCovers
  Mask <- MCMask
  Refused <- MCRefused
  MaxFaults = 1
  MaxRoutes = 2
  MaxHostRoutes = 1
  None = None
INVARIANTS AddressesMatch RoutesMatch
PROPERTIES TargetVia
