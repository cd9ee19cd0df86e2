SPECIFICATION Spec
CONSTANTS
    Formula = {f}
    Name = {n}
    Id = {a, b}
    NoId = NoId
    MaxHard = 1
    MaxObjectives = 2
    MaxTerms = 3
    MaxScopes = 2
SYMMETRY Symmetry
INVARIANTS TypeOK ResultsAreCurrent
PROPERTIES RestoresStack
