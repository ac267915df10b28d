SPECIFICATION FairSpec
CONSTANTS
  Requests = {"integrate", "prompt", "test1", "test2", "test3", "again", "check", "script"}
  Workloads <- MCWorkloads
  Policy <- MCPolicy
  Coord <- MCCoord
  HookPhases <- MCHooks
  Workers = {"w1", "w2"}
  WakeCap = 1
  MaxAttempts = 4
  MaxOps = 5
  MaxCrashes = 1
  MaxFaults = 1
  Limits <- MCLimits
CHECK_DEADLOCK FALSE
INVARIANT ExclusiveExecution
INVARIANT EffectsMatchRecord
INVARIANT AttemptsChain
PROPERTY EventuallyServed
