SPECIFICATION Spec
CONSTANTS
    NTasks = 2
    Deps <- MCDeps
    Reviewed <- MCReviewed
    Clients = {c1}
    ExternalActors = {"chat"}
    MaxRevision = 14
    MaxDesign = 1
    MaxLeases = 2
    MaxCrashes = 1
INVARIANTS
    TypeOK
    MissionOwnsExecution
    ContractsMatchSession
    DependenciesFirst
    RetryReviewFindsFailedTask
PROPERTIES
    ImplementsSessionLog
    AmendmentConsumedInReview
    CompletedLeaseHasCompletedTask
    ExecuteReleasesLease
    MissionConcludesOnCompletedTasks
    NoOrphanStage
    OnlyItsRetryUnblocks
CHECK_DEADLOCK FALSE
