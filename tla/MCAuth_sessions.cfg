SPECIFICATION Spec
CONSTANTS
    q1 = q1
    q2 = q2
    q3 = q3
    t0 = t0
    t1 = t1
    t2 = t2
    t3 = t3
    ann = ann
    Ann = Ann
    bob = bob
    seedUser = seedUser
    seedMail = bob
    NoUser = NoUser
    NoToken = NoToken
    NoMail = NoMail
    Lower <- ToLower
    Users <- OpUsers
    Ops = {q1, q2, q3}
    Tokens = {t0, t1, t2, t3}
    Seeds = {t0}
    RefreshTTL = 1
    Kinds = {"register", "login", "refresh", "logout", "revokeAll"}
    Spellings = {ann, Ann, bob}
    Faults = {"refused", "ackLost", "sign", "crash"}
SYMMETRY SameOpAndToken
INVARIANTS
    TypeOK
    OneSuccessor
    LogoutIsFinal
    FirstRevokeAllComplete
    LiveIsListed
    OneAccountPerMailbox
PROPERTIES
    KeepsTokenLife
\* the requests of a run are finitely many: the system stops when all are answered
CHECK_DEADLOCK FALSE
