SPECIFICATION Spec
CONSTANTS
    q1 = q1
    q2 = q2
    q3 = q3
    home = home
    office = office
    NoClient = NoClient
    Reqs = {q1, q2, q3}
    Clients = {home, office}
    Limit = 1
    Window = 2
    Slack = 1
    MaxRetries = 1
    MaxTime = 3
    Faults = {"incr", "expire", "ackLost", "crash"}
SYMMETRY Symmetric
INVARIANTS
    TypeOK
    WindowHonoured
    NoSpurious429
\* the requests and the clock of a run are finite: the system stops
CHECK_DEADLOCK FALSE
