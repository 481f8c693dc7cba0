\* Overlapping requests and a sweep on a board with two files.
SPECIFICATION StorageSpec
CONSTANTS
    u1 = u1
    b1 = b1
    f1 = f1
    f2 = f2
    Users = {u1}
    Boards = {b1}
    Files = {f1, f2}
    Workers = {w1, w2}
    Owner <- MCOwner
    BoardOf <- MCBoardOf
    Size <- MCSize
    Ops <- StorageOps
    FileMaxSize = 2
    FileTotalMaxSize = 2
    UserRestoreDays = 0
    CascadeRestoreDays = 1
    UserExpireDays = 1
    AdminRestoreDays = 2
    AdminExpireDays = 3
    RemoveMayFail = TRUE
INVARIANTS
    StorageTypeOK
    UnexpiredFilesOnDisk
    ListedFilesExpired
SYMMETRY WorkerSymmetry
