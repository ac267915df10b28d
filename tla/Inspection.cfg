SPECIFICATION Spec
CONSTANTS
  None = None
  a = a
  b = b
  Walkers = {a, b}
  Budget = 3
  Lookahead = 2
  RowLimit = 2
  Retention = 2
  FileLimit = 2
  Mixes <- MCMixes
INVARIANTS
  ExactListing
  StableSeen
PROPERTIES
  WalksEnd
CHECK_DEADLOCK FALSE
