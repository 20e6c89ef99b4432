SPECIFICATION Spec
CONSTANTS
    alice = alice
    browser = browser
    r1 = r1
    r2 = r2
    r3 = r3
    r4 = r4
    NoDoc = NoDoc
    Reqs = {r1, r2, r3, r4}
    Scopes = {alice}
    ScopeOf <- OneScope
    Cap = 4
    LastMonth = 0
    Warm = {alice}
    Faults = {"refused", "sign"}
SYMMETRY SameScope
INVARIANTS
    FailuresCostNothing
\* the requests of a run are finitely many: the system stops when all are answered
CHECK_DEADLOCK FALSE
