\* One request at a time, against unique addresses.
SPECIFICATION Spec
CONSTANTS
    Ids = {i1, i2}
    Emails = {e1, e2}
    Codes = {c1, c2}
    Workers = {w1}
    NoAccount = NoAccount
    NoCode = NoCode
INVARIANTS
    EmailsUnique
SYMMETRY Symmetry
