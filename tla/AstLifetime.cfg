SPECIFICATION Spec
CONSTANTS
    c1 = c1  s = s  m1 = m1  m2 = m2  k = k  f = f
    Context = {c1}
    Wrapper = {w1, w2, w3}
    Node <- MCNode
    Args <- MCArgs
    Sub <- MCSub
    Home <- MCHome
    Twin <- MCTwin
    Nearest <- MCNearest
    Modes <- MCModes
    Batches <- MCBatches
    NoNode = NoNode
    NoContext = NoContext
SYMMETRY WrapperSymmetry
INVARIANTS TypeOK RefCountExact NoDanglingHandle OwnerAlive TableIsReachable IInv
PROPERTIES CollectedHeap ManagerEmptyAtEnd
CHECK_DEADLOCK FALSE
