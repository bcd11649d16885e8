SPECIFICATION TimedSpec
CONSTANTS
    Thread = {t1, t2, t3}
    Conn = {c1, c2, c3}
    NoConn = NoConn
    MaxSize = 2
    Timed = TRUE
INVARIANTS
    TypeOK
    PermitsConserved
    ConnectionsBounded
    OneOwner
PROPERTIES
    LimitSpec
    AcquireEnds
