SPECIFICATION Spec
CONSTANTS
    MaxCommands = 3
    TaskCount = 2
    Modes = {"full", "explore", "spec"}
    Plans <- MCPlans
    Reviews <- MCReviews
    MaxMap = 1
    MaxTurns = 1
    MaxEvents = 3
    Posted = {"abort", "query"}
INVARIANTS
    TypeOK
    OrderKept
PROPERTIES
    ImplementsMailbox
    CompletedIsAccepted
    AbortHeard
    DeliveredOnce
CHECK_DEADLOCK FALSE
