CONSTANTS
    c1 = c1
    Cookies = {c1}
    Streams = {s1, s2, s3}
    Mute = {}
    Clients = {a1, w1}
    Waits = {w1}
    Accepters = {e1}
    Removers = {r1}
    Disposers = {d1, d2}
    CookieOf <- OneCookie
    None = None
SPECIFICATION Spec
CHECK_DEADLOCK FALSE
SYMMETRY Symmetry
INVARIANTS
    TypeOK
    StreamHasOneOwner
    StoredStreamIsReachable
    NewestStreamOnly
    TrackedRuntimeIsAnnounced
    DisposedServerIsQuiet

