SPECIFICATION Spec
CONSTANTS
    Procs = {p1, p2}
    Invocations <- MCInvocations
    Urls <- MCUrls
    ConfigFiles <- MCConfigFiles
    Profiles = {"default", "other", "same", "missing"}
    Secrets <- MCSecrets
    Numbers = Numbers
    NotTags = {}
    Beginnings <- MCBeginnings
    Ids = {1, 2, 3, 4}
    Instants = {1, 2}
    MaxRuns = 2
SYMMETRY Symmetry
INVARIANTS
    ExitTellsEffect
    OutputTellsEffect
    SecretsKeepOpening
    ReadersSeeWhatWasThere
PROPERTY
    OnlyNamedRepository
CHECK_DEADLOCK FALSE
