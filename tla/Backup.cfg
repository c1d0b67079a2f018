SPECIFICATION Spec
CONSTANTS
    r1 = r1
    r2 = r2
    r3 = r3
    x = x
    y = y
    Runs = {r1, r2, r3}
    Files = {1}
    Chunks = {x, y}
    Contents <- Mixed
    NoFile = NoFile
    StoredLengths = {1}
    MaxTime = 1
SYMMETRY RunSymmetry
INVARIANTS
    TypeOK
    CommittedComplete
    SnapshotIdsDistinct
    DedupRaceHasSurvivor
    SequentialChunksNeverConflict
PROPERTY
    ImplementsCatalog
CHECK_DEADLOCK FALSE
