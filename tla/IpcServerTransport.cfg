CONSTANTS
    Streams = {p1, p2, p3, p4}
    MaxInstances = 3
    CreateMayFail = TRUE
SPECIFICATION FairSpec
CHECK_DEADLOCK FALSE
INVARIANTS
    TypeOK
    StreamHasOneOwner
    ReadyBetweenAccepts
PROPERTIES
    HandedStreamIsTheOwners
    ListensAgain
