SPECIFICATION Spec
CONSTANTS
    ann = ann
    bob = bob
    w1 = w1
    NoUser = NoUser
    Users = {ann, bob}
    Walks = {w1}
    MaxId = 4
    DefaultLimit = 1
    MaxLimit = 2
    Limits = {0, 1, 3}
    Routes = {"hosted", "web", "share"}
SYMMETRY SameUser
INVARIANTS
    TypeOK
    WalkExact
    OwnersIsolated
PROPERTIES
    LastPageIsLast
\* the uploads and the walks of a run are finite: the system stops
CHECK_DEADLOCK FALSE
