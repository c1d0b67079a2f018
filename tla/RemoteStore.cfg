SPECIFICATION FairSpec
CONSTANTS
    c1 = c1
    c2 = c2
    k1 = k1
    b1 = b1
    b2 = b2
    Clients = {c1, c2}
    Keys = {k1}
    Bytes = {b1, b2}
    Absent = Absent
    Setups <- MCSetups
    MaxAttempts = 2
    MaxCalls <- MCMaxCalls
INVARIANTS
    AnswersStayTrue
PROPERTY
    EveryCallReturns
CHECK_DEADLOCK FALSE
