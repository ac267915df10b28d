SPECIFICATION FairSpec
CONSTANTS
  Entities <- MCEntities
  Kind <- MCKind
  Rev <- MCRev
  StatusChanges <- MCStatusChanges
  Workloads <- All
  Batch = 2
  MaxSyncs = 1
  MaxFaults = 1
  MaxForeign = 1
CHECK_DEADLOCK FALSE
INVARIANT EvidenceFirst
INVARIANT PublishedIsOnHub
INVARIANT RetiredStaysGone
PROPERTY NeverRegresses
PROPERTY Converges
