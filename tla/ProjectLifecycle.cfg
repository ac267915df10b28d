SPECIFICATION ProjectSpec
CONSTANTS
  None = None
  h1 = h1
  h2 = h2
  p1 = p1
  p2 = p2
  c1 = c1
  c2 = c2
  c3 = c3
  c4 = c4
  s1 = s1
  s2 = s2
  s3 = s3
  Host <- MCHost
  Project <- MCProject
  Code <- MCCode
  Slot <- MCSlot
  MaxCfg = 3
  Num = {1, 2, 3}
  Mixes <- MCMixes
CHECK_DEADLOCK FALSE
INVARIANTS
  StoresAgree
PROPERTIES
  NothingTakenBack
  RestartConverges
