SPECIFICATION LoopSpec
CONSTANTS
    Ids = {1, 2, 3}
    Times <- MCTimes
    TagSets = {{}, {"t"}}
    Policies <- MCPolicies
    NoPolicy = NoPolicy
    Numbers <- MCNumbers
    NotTags = {"tabbed"}
    Parts <- MCParts
    MaxSnapshots = 3
    MaxParts = 4
    LastDay = 48000
INVARIANTS
    LoopKeepsByRule
    CivilIsCalendar
    SpecMeansRules
CHECK_DEADLOCK FALSE
