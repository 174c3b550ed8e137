SPECIFICATION Spec
CONSTANTS
  Names <- MCNames
  Configs <- MCConfigs
  Ulas <- MCUlas
  Offers <- MCOffers
  Dynamic <- MCDynamic
  Active = {"c"}
  None = None
INVARIANTS AssignmentsDisjoint AssignmentsFair KernelFollows
PROPERTIES PlacesStay
