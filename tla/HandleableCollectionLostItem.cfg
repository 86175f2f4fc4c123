CONSTANTS
    Items = {x1}
    Handlers = {h1, w1}
    WaitHandlers = {w1}
    TimedHandlers = {h1}
    Clearers = {}
    Disposers = {}
    None = None
SPECIFICATION Spec
INVARIANT FirstItemOfferedIsReturned
