CONSTANTS
    Ipcs = {i1, i2}
    Tcps = {t1, t2}
    Runtimes = {r1, r2}
    AutoShutdown = TRUE
    None = None
SPECIFICATION Spec
CHECK_DEADLOCK FALSE
INVARIANTS
    TypeOK
    StreamsAreHeld
PROPERTIES
    OnlyEndingAcceptsLoseRuntimes
