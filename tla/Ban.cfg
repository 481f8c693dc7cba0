\* One request at a time, with deletions and restorations.
SPECIFICATION Spec
CONSTANTS
    Users = {u1, u2}
    Workers = {w1}
INVARIANTS
    TypeOK
    StatusAgrees
    LadderFollowed
    FourthBanDeletes
