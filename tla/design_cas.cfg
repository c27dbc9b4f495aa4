SPECIFICATION Spec
CONSTANTS
    Thread = {t1, t2}
    Command = {k1, k2}
    n1 = n1
    n2 = n2
    Node = {n1, n2}
    Batch <- MCBatch
    Text = {x1, x2}
    MaxSends = 2
    MaxRestarts = 0
SYMMETRY Symmetry
INVARIANT RevisionCountsApplied
CHECK_DEADLOCK FALSE
