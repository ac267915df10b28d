SPECIFICATION Spec
CONSTANTS
  None = None
  Mixes <- MCMixes
  MaxCrashes = 1
  MaxEdits = 0
CHECK_DEADLOCK FALSE
PROPERTIES
  SoundAlwaysOpens
