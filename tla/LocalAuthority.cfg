SPECIFICATION LocalSpec
CONSTANTS
    a1 = a1
    a2 = a2
    r1 = r1
    r2 = r2
    Agent = {a1, a2}
    Relay = {r1, r2}
    Request = {q1, q2}
    None = None
    SeedBindings <- MCBindings
    MaxSessions = 3
    MaxMessages = 2
    Mixes <- MCMixes
    MaxClock = 1
    maxCreateAttempts = 2
    MessageAttempts = 2
INVARIANTS
    RetiredIsQuiet
    AckedHolds
PROPERTIES
    SessionWritesCompose
    RequestsReturn
CHECK_DEADLOCK FALSE
