SPECIFICATION Spec
CONSTANTS
    m1 = m1
    m2 = m2
    g1 = g1
    c1 = c1
    c2 = c2
    report = report
    photo = photo
    NoFile = NoFile
    NoCode = NoCode
    Mints = {m1, m2}
    Redeems = {g1}
    Codes = {c1, c2}
    Files = {report, photo}
    MaxAttempts = 2
    Faults = {"refused", "ackLost"}
INVARIANTS
    TypeOK
    CodeMeansItsFile
PROPERTIES
    NoFalseExhaustion
    EveryMintEnds
\* the requests of a run are finitely many: the system stops when all are answered
CHECK_DEADLOCK FALSE
