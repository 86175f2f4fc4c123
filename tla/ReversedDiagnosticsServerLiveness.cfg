CONSTANTS
    c1 = c1
    Cookies = {c1}
    Streams = {s1, s2, s3}
    Mute = {s3}
    Clients = {w1, w2}
    Waits = {w1, w2}
    Accepters = {e1}
    Removers = {}
    Disposers = {d1}
    CookieOf <- OneCookie
    None = None
SPECIFICATION FairSpec
CHECK_DEADLOCK FALSE
PROPERTIES
    SilentRuntimeIsDropped
    DisposeAsyncEnds
