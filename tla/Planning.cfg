SPECIFICATION Spec
CONSTANTS
    t1 = t1
    t2 = t2
    m1 = m1
    m2 = m2
    r1 = r1
    r2 = r2
    None = None
    Task = {t1, t2}
    Milestone = {m1, m2}
    Request = {r1, r2}
    SeedMilestones <- MCMilestones
    SeedTracks <- MCTracks
    MaxTracks = 2
    MaxRequests = 4
    MaxHead = 2
    MaxTaskRevision = 2
    PageRows = 2
INVARIANTS AcceptedIsProven CompletionProven
PROPERTIES DispatchesKept
SYMMETRY Slots
CHECK_DEADLOCK FALSE
