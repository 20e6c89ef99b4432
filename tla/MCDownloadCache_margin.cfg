SPECIFICATION Spec
CONSTANTS
    g1 = g1
    g2 = g2
    g3 = g3
    report = report
    NoURL = NoURL
    NoKey = NoKey
    Gets = {g1, g2, g3}
    Keys = {report}
    TTLs <- Durations
    Minute = 3
    DefaultLife = 4
    MaxDelay = 1
    MaxTime = 9
    Faults = {"redis", "sign"}
SYMMETRY SameGet
INVARIANTS
    TypeOK
    NeverNearDead
    OverrunBounded
\* the requests and the clock of a run are finite: the system stops
CHECK_DEADLOCK FALSE
