SPECIFICATION Spec
CONSTANTS
    alice = alice
    browser = browser
    r1 = r1
    r2 = r2
    r3 = r3
    r4 = r4
    NoDoc = NoDoc
    Reqs = {r1, r2, r3}
    Scopes = {alice}
    ScopeOf <- OneScope
    Cap = 2
    LastMonth = 2
    Warm = {alice}
    Faults = {"refused", "ackLost", "sign", "release", "crash"}
SYMMETRY SameScope
INVARIANTS
    TypeOK
    CountInBounds
    CountAccounted
    AnswersAreTrue
    StatsNeverAhead
    CapUntilReturn
    UsageDistinct
\* the requests of a run are finitely many: the system stops when all are answered
CHECK_DEADLOCK FALSE
