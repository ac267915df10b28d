SPECIFICATION Spec
CONSTANTS
    a1 = a1
    a2 = a2
    r1 = r1
    r2 = r2
    Agent = {a1, a2}
    Relay = {r1, r2}
    MaxOps = 2
    None = None
    Mixes <- MCMixes
    MaxEpochs = 2
    Page = 2
    MaxLines = 6
    Window = 4
    TailLines = {1, 2}
    Rank <- MCRank
INVARIANTS
    HookFollowsWork
    TailLossIsReported
PROPERTIES
    InterruptNotRepeated
    TurnsSettle
CHECK_DEADLOCK FALSE
