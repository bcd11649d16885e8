\* Five segments written or three blocks read, three requests in flight, TCP
\* buffers of one packet each way: the largest window that Wedged allows for
\* them.  The call returns once, so the system stops.
SPECIFICATION MCSpec
CONSTANTS
    ReqCap = 1
    RespCap = 1
    Window = 3
    MaxItems = 5
    NBlocks = 3
INVARIANTS
    NothingInFlight
    FirstErrorReported
    BoundedOverrun
    NeverWedged
    WrittenWhole
    OutcomeRight
    AnswersDrained
    HandleReleased
PROPERTY Returns
CHECK_DEADLOCK FALSE
