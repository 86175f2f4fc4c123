CONSTANTS
    Streams = {p1, p2, p3}
    MaxInstances = 2
    CreateMayFail = FALSE
SPECIFICATION Spec
CHECK_DEADLOCK FALSE
SYMMETRY Symmetry
INVARIANT DisposedTransportIsClosed
