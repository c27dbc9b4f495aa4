SPECIFICATION FairSpec
CONSTANTS
    NTasks = 1
    Deps <- MCDeps
    Reviewed <- MCReviewed
    Clients = {c1}
    ExternalActors = {"chat"}
    MaxRevision = 10
    MaxDesign = 1
    MaxLeases = 2
    MaxCrashes = 0
PROPERTIES
    ActionsEnd
    RequestsAnswered
CHECK_DEADLOCK FALSE
