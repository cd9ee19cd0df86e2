SPECIFICATION Spec
CONSTANTS
    Object = {o1, o2, o3, o4}
    Wrapper = {w1, w2, w3}
    Plain = {"solver", "stats", "fixedpoint"}
    NoObject = NoObject
SYMMETRY Symmetry
INVARIANTS ParseErrorThrown
CHECK_DEADLOCK FALSE
