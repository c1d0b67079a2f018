SPECIFICATION Spec
CONSTANTS
    Order <- MCOrder
    Setups <- MCSetups
INVARIANTS
    PreflightSuffices
    RefusalChangesNothing
    RestoredAsAsked
    KilledCanBeRepeated
    ListedIsRestored

    
CHECK_DEADLOCK FALSE
