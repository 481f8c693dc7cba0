\* One request at a time, every operation.
SPECIFICATION Spec
CONSTANTS
    u1 = u1
    b1 = b1
    f1 = f1
    f2 = f2
    Users = {u1}
    Boards = {b1}
    Files = {f1, f2}
    Workers = {w1}
    Owner <- MCOwner
    BoardOf <- MCBoardOf
    Size <- MCSize
    Ops <- AllOps
    FileMaxSize = 2
    FileTotalMaxSize = 2
    UserRestoreDays = 0
    CascadeRestoreDays = 1
    UserExpireDays = 1
    AdminRestoreDays = 2
    AdminExpireDays = 3
INVARIANTS
    TypeOK
    TotalAccurate
    CascadeFollowsCause
PROPERTIES
    RestoredInTime
    AdminDeletionSticks
    QuotaKept
