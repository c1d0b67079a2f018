SPECIFICATION Spec
CONSTANTS
    f1 = f1
    f2 = f2
    Backups = {1, 2, 3}
    TagsOf <- OneTagged
    Runs = {f1, f2}
    Policy <- MCTwoPolicies
    Instants = {86399, 86400}
    Never = Never
INVARIANTS
    TypeOK
    ForgottenByPolicy
    ForgetReachesPolicy
    LatestIsFresh
PROPERTY
    ImplementsCatalog
CHECK_DEADLOCK FALSE
