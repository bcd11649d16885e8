SPECIFICATION Spec
CONSTANTS
    Tx = {x1, x2}
    Stmt = {s1, s2}
    NRows = 3
    FetchSize = 2
    Offsets <- MCOffsets
    NoCursor = NoCursor
    NoStmt = NoStmt
    Closed = Closed
    Unknown = Unknown
SYMMETRY Symmetric
INVARIANT HealthyInSync
