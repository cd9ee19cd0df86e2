SPECIFICATION FairSpec
CONSTANTS
    Workers = {w1, w2}
    Leaves = {l1}
    Assumptions = {a1}
    MaxDepth = 2
    BatchSize = 1
    MaxApplications = 2
    MayInterrupt = FALSE
INVARIANTS AnswerSound
PROPERTIES EveryApplicationAnswered
