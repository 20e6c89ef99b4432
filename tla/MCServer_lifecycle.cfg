SPECIFICATION Spec
CONSTANTS
    old = old
    new = new
    r1 = r1
    r2 = r2
    ann = ann
    NoProc = NoProc
    NoMail = NoMail
    Procs = {old, new}
    Environments <- SomeEnvironments
    Requests = {r1, r2}
    Mails = {ann}
    Faults = {"mongo", "redis", "index", "bind", "kill"}
INVARIANTS
    TypeOK
    FailsFast
    OneAccountOrWarned
PROPERTIES
    DrainIsGraceful
    CountsInFlightKept
    StopsWhenTold
\* the processes and requests of a run are finitely many: the system stops
CHECK_DEADLOCK FALSE
