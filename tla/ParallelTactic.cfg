SPECIFICATION Spec
CONSTANTS
    Workers = {w1, w2, w3}
    Leaves = {l1, l2}
    Assumptions = {}
    MaxDepth = 2
    BatchSize = 2
    MaxApplications = 1
    MayInterrupt = TRUE
SYMMETRY Symmetry
INVARIANTS TypeOK NoCubeLost AnswerSound ShutdownWakesAll WaitersCounted BranchesAgree IInv
PROPERTIES ShutdownReachesActive
