SPECIFICATION Spec
CONSTANTS
    MaxCommands = 2
    TaskCount = 2
    Modes = {"focused"}
    Plans <- MCPlans
    Reviews <- MCReviews
    MaxMap = 0
    MaxTurns = 1
    MaxEvents = 2
    Posted = {}
INVARIANTS
    AbortEndsMission
CHECK_DEADLOCK FALSE
