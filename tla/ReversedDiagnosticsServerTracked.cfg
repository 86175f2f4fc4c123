CONSTANTS
    c1 = c1
    Cookies = {c1}
    Streams = {s1, s2}
    Mute = {}
    Clients = {a1}
    Waits = {}
    Accepters = {e1}
    Removers = {r1}
    Disposers = {}
    CookieOf <- OneCookie
    None = None
SPECIFICATION Spec
CHECK_DEADLOCK FALSE
PROPERTY OnlyRuntimesAreTracked
