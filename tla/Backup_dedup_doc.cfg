SPECIFICATION Spec
CONSTANTS
    r1 = r1
    r2 = r2
    r3 = r3
    x = x
    y = y
    Runs = {r1, r2}
    Files = {1}
    Chunks = {x, y}
    Contents <- Growing
    NoFile = NoFile
    StoredLengths = {1}
    MaxTime = 0
INVARIANT
    DedupRacesHandled
CHECK_DEADLOCK FALSE
