SPECIFICATION Spec
CONSTANTS
    NoNode = NoNode
    m = m
    c = c
    b = b
    Node = {m, c, b}
    Kind <- MCKind
    Parent <- MCParent
    File <- MCFile
    TaskCount = 2
    Designs <- MCDesigns
    Codes <- MCCodes
    Deps <- MCDeps
    Unknown <- MCUnknown
    MaxResumes = 1
INVARIANT OnlyValidPlansRun
CHECK_DEADLOCK FALSE
