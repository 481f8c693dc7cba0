SPECIFICATION Spec
CONSTANTS
    f1 = f1
    f2 = f2
    NoOne = NoOne
    Files = {f1, f2}
    Size <- MCSize
    Workers = {t1, t2}
INVARIANTS
    TypeOK
    AloneBalances
    OneFileNoDeadlock
PROPERTIES
    CommitsAreSteps
    RequestsEnd
