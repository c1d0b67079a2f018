SPECIFICATION Spec
CONSTANTS
    Snapshots = {1, 2}
    Chunks = {1, 2, 3}
    Files = {1, 2}
    Contents <- SharedChunk
    Absent = Absent
    Junk = Junk
    Selections <- AllModes
    MaxFaults = 1
INVARIANTS
    RestoreExact
    CheckedIsRestorable
    
PROPERTIES
    FailuresBlameTheBad
CHECK_DEADLOCK FALSE
