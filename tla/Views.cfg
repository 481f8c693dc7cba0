SPECIFICATION Spec
CONSTANTS
    w1 = w1
    w2 = w2
    v1 = v1
    v2 = v2
    MaxBoards = 2
    Viewers <- MCViewers
    Workers <- MCWorkers
    ViewTTL = 2
    RequestTicks = 1
INVARIANTS
    TypeOK
    ViewCountedOnce
    KeysHaveViews
SYMMETRY ViewSymmetry
