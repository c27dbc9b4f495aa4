SPECIFICATION Spec
CONSTANTS
    NTasks = 2
    Deps <- MCDeps
    Reviewed <- MCReviewed
    Clients = {c1}
    ExternalActors = {"chat"}
    MaxRevision = 12
    MaxDesign = 0
    MaxLeases = 2
    MaxCrashes = 0
INVARIANTS
    OwnsSession
CHECK_DEADLOCK FALSE
