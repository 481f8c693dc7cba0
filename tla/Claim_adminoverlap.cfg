\* A user restores a board while an administrator deletes it.
SPECIFICATION Spec
CONSTANTS
    u1 = u1
    b1 = b1
    f1 = f1
    f2 = f2
    Users = {u1}
    Boards = {b1}
    Files = {f1, f2}
    Workers = {w1, w2}
    Owner <- MCOwner
    BoardOf <- MCBoardOf
    Size <- MCSize
    Ops <- OverlapOps
    FileMaxSize = 2
    FileTotalMaxSize = 2
    UserRestoreDays = 1
    CascadeRestoreDays = 2
    UserExpireDays = 2
    AdminRestoreDays = 3
    AdminExpireDays = 4
PROPERTIES
    AdminDeletedBoardsStay
