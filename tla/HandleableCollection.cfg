CONSTANTS
    Items = {x1, x2}
    Handlers = {h1, w1}
    WaitHandlers = {w1}
    TimedHandlers = {h1}
    Clearers = {c1}
    Disposers = {d1, d2}
    None = None
SPECIFICATION FairSpec
INVARIANTS
    TypeOK
    NobodyWaitsBesideItems
    WaiterIsQueued
    DisposedIsDrained
PROPERTIES
    DisposedListsOnlyShrink
    OutcomeIsFinal
    EndedHandlersTakeNothing
    ServedInOrder
    ImplementsExchange
    TimedCallsReturn
    DisposeReleasesWaiters
