SPECIFICATION FairSpec
CONSTANTS
    a = a  b = b  sa = sa  ma = ma  ka = ka  sb = sb  mb = mb  kb = kb
    Context = {a, b}
    Wrapper = {w1, w2}
    Node <- MCNode
    Args <- MCArgs
    Sub <- MCSub
    Home <- MCHome
    Twin <- MCTwin
    Nearest <- MCNearest
    Modes <- MCModes
    Batches = {}
    NoNode = NoNode
    NoContext = NoContext
INVARIANTS NoDanglingHandle OwnerAlive
PROPERTIES ContextIsDeleted
CHECK_DEADLOCK FALSE
