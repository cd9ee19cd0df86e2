SPECIFICATION Spec
CONSTANTS
    f = f  g = g  x = x  y = y
    Formula = {f, g}
    Leaf = {x, y}
    Allows <- MCAllows
    Name = {p}
    NoName = NoName
    Nothing = Nothing
    MaxEntries = 3
    MaxScopes = 2
    AssumptionSets <- MCAssumptionSets
    CheckFirst = FALSE
INVARIANTS AnswerFitsAssertions
