\* One request at a time; one id and one password to spare.
SPECIFICATION Spec
CONSTANTS
    u1 = u1
    u2 = u2
    i1 = i1
    i2 = i2
    i3 = i3
    p1 = p1
    p2 = p2
    Users = {u1, u2}
    Ids = {i1, i2, i3}
    Workers = {w1}
    Passwords = {p1, p2}
    Temporary = {t1}
    FirstId <- MCFirstId
    FirstPassword <- MCFirstPassword
    NoToken = NoToken
INVARIANTS
    TypeOK
    PasswordReachesUser
    SessionsFollowPassword
