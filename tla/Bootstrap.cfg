SPECIFICATION Spec
CONSTANTS
    i1 = i1
    i2 = i2
    i3 = i3
    a1 = a1
    a2 = a2
    a3 = a3
    Inits = {i1, i2, i3}
    Adds = {a1, a2, a3}
    PassOf <- MCPass
    NewPassOf <- MCNewPass
    Absent = Absent
INVARIANTS
    RunsAgree
    PassphrasesKeepOpening
CHECK_DEADLOCK FALSE
