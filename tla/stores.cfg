SPECIFICATION Spec
CONSTANTS
    Thread = {t1, t2, t3}
    Command = {k1, k2}
    n1 = n1
    n2 = n2
    Node = {n1, n2}
    Batch <- MCBatch
    Text = {x1, x2}
    MaxSends = 2
    MaxRestarts = 1
SYMMETRY Symmetry
INVARIANTS
    TypeOK
    MapIsClosed
    RevisionsAreRecorded
    AnswersAgree
    SavedTextIsVersion
    SlotIsNotLeaked
PROPERTIES
    
    CaptureIsAccounted
    ActionsRunOnce
CHECK_DEADLOCK FALSE
