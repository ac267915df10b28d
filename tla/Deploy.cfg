SPECIFICATION Spec
CONSTANTS
  Debugs = {"d2"}
  Selves = {"s3"}
  Installs = {"i2"}
  Recoveries = {"r1"}
  Upgrades = {"u4"}
  Operators = {"o1"}
  Target <- MCTarget
  BinaryNames <- MCBinaryNames
  Plans <- MCPlans
  MaxAttempts = 2
  MaxTunnel = 2
  None = None
INVARIANTS WayBackSound
PROPERTIES ReceiptsHold CutoverSettles
CHECK_DEADLOCK FALSE
