\* Two requests overlap: two ids, two addresses, one code each.
SPECIFICATION Spec
CONSTANTS
    Ids = {i1, i2}
    Emails = {e1, e2}
    Codes = {c1, c2}
    Workers = {w1, w2}
    NoAccount = NoAccount
    NoCode = NoCode
INVARIANTS
    TypeOK
    EmailsConfirmed
    UnverifiedWereInterrupted
SYMMETRY Symmetry
