SPECIFICATION Spec
CONSTANTS
    w1 = w1
    w2 = w2
    ALL = ALL
    WEEKLY = WEEKLY
    MaxBoards = 2
    Texts = {x, y}
    Workers <- MCWorkers
    Options = {ALL, WEEKLY}
    Span <- MCSpan
    MaxAge = 1
    Top = 1
    PopularTTL = 2
    RequestTicks = 1
INVARIANTS
    TypeOK
    PopularKeepsUp
SYMMETRY WorkerSymmetry
