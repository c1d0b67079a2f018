SPECIFICATION Spec
CONSTANTS
    c1 = c1
    c2 = c2
    p1 = p1
    p2 = p2
    p3 = p3
    b1 = b1
    b2 = b2
    Clients = {c1, c2}
    Pids = {p1, p2, p3}
    Setups <- MCSetups
    Keys <- MCKeys
    Bytes = {b1, b2}
    Absent = Absent
    Torn = Torn
    NoCall = NoCall
    LastTempId <- MCLastTempId
SYMMETRY ByteSymmetry
INVARIANTS
    NoTornObject
    LiveTempNamesDistinct
    ListingIsComplete
PROPERTY
    ImplementsContract
CHECK_DEADLOCK FALSE
