SPECIFICATION Spec
CONSTANTS
    Threads = {http1}
    Service <- MCService
    Actors = {"chat"}
    MaxBegun = 1
    MaxCode = 2
INVARIANTS
    AcceptedCodeWasChecked
CHECK_DEADLOCK FALSE
