CONSTANTS
    Ipcs = {i1}
    Tcps = {t1}
    Runtimes = {r1}
    AutoShutdown = TRUE
    None = None
SPECIFICATION Spec
CHECK_DEADLOCK FALSE
INVARIANT FailedCreateHasCleanedUp
