SPECIFICATION Spec
CONSTANTS
    alice = alice
    browser = browser
    r1 = r1
    r2 = r2
    r3 = r3
    r4 = r4
    NoDoc = NoDoc
    Reqs = {r1, r2, r3}
    Scopes = {alice}
    ScopeOf <- OneScope
    Cap = 2
    LastMonth = 0
    Warm = {}
    Faults = {}
INVARIANTS
    UploadsWithinCap
\* the requests of a run are finitely many: the system stops when all are answered
CHECK_DEADLOCK FALSE
