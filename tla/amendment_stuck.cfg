SPECIFICATION Spec
CONSTANTS
    NTasks = 1
    Deps <- MCDeps
    Reviewed <- MCReviewed
    Clients = {c1}
    ExternalActors = {}
    MaxRevision = 12
    MaxDesign = 1
    MaxLeases = 2
    MaxCrashes = 0
INVARIANTS
    AmendmentReachesReview
CHECK_DEADLOCK FALSE
