SPECIFICATION Spec
CONSTANTS
    Threads = {http1, http2}
    Service <- MCService
    Actors = {"chat", "mcp"}
    MaxBegun = 2
    MaxCode = 3
INVARIANTS
    TypeOK
    SingleActiveLease
PROPERTIES
    ImplementsLeaseBook
CHECK_DEADLOCK FALSE
