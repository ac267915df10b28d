SPECIFICATION Spec
CONSTANTS
  t1 = t1
  t2 = t2
  a1 = a1
  o1 = o1
  o2 = o2
  Tasks = {t1, t2}
  Agents = {a1}
  Ops = {o1, o2}
  OpTask <- OneEach
  Loads <- AllLoads
  None = None
CHECK_DEADLOCK FALSE
INVARIANT LandingRecoverable
INVARIANT SecondTaskOnlyByRebase
PROPERTY LandsOnlyProvenWork
PROPERTY IntegrateSettles
