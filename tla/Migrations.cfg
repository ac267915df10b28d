SPECIFICATION Spec
CONSTANTS
  None = None
  Mixes <- MCMixes
  MaxCrashes = 3
  MaxEdits = 2
CHECK_DEADLOCK FALSE
INVARIANTS
  UpgradeLosesNothing
PROPERTIES
  SoundOpens
