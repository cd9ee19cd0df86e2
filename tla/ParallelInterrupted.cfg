SPECIFICATION Spec
CONSTANTS
    Workers = {w1, w2}
    Leaves = {l1, l2}
    Assumptions = {}
    MaxDepth = 2
    BatchSize = 1
    MaxApplications = 1
    MayInterrupt = TRUE
SYMMETRY Symmetry
INVARIANTS UnsatIsRight
