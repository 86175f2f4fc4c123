CONSTANTS
    Ipcs = {i1, i2}
    Tcps = {t1, t2}
    Runtimes = {r1}
    AutoShutdown = TRUE
    None = None
SPECIFICATION FairSpec
CHECK_DEADLOCK FALSE
PROPERTIES
    DeadRouterIsDisposed
    DeadBackendIsReset
    RouterEndsWithRuntimes
