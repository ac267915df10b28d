SPECIFICATION FairSpec
CONSTANTS
  Requests <- MCRequests
  Workloads <- MCWorkloads
  Kind <- MCKind
  Verb <- MCVerb
  Target <- MCTarget
  Edit <- MCEdit
  To <- MCTo
  Given <- MCGiven
  Fields = {"title", "note"}
  Values = {0, 1}
  Seeded <- MCSeeded
  MaxNumber = 4
  CreateAttempts = 2
CHECK_DEADLOCK FALSE
INVARIANT HistoryComplete
INVARIANT BuiltOnPredecessor
INVARIANT AnswersAreTrue
INVARIANT ChainAgrees
PROPERTY EveryRequestReturns
