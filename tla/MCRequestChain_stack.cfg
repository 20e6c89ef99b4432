SPECIFICATION Spec
CONSTANTS
    r1 = r1
    Reqs = {r1}
INVARIANTS
    TypeOK
    ErrorReachesClient
    NeverPastAGuard
\* a run ends when its request is answered
CHECK_DEADLOCK FALSE
