SPECIFICATION WalkSpec
CONSTANTS
    Order <- MCOrder
    Setups <- MCSetups
INVARIANTS
    OneDirectoryIsValid
    WalkLosesNothing
    ExcludedIsPruned
CHECK_DEADLOCK FALSE
