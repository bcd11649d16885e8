SPECIFICATION PatientSpec
CONSTANTS
    Thread = {t1, t2, t3, t4}
    Conn = {c1, c2}
    NoConn = NoConn
    MaxSize = 2
    Timed = FALSE
INVARIANT NoLostWakeup
PROPERTY WaiterServed
