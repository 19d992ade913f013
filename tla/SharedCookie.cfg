SPECIFICATION Spec
SYMMETRY Interchangeable
CONSTANTS
    Users = {u1, u2}
    Roles = {clerk, cashier}
    Tokens = {k1, k2}
    Slots = {s1, s2}
    MaxChanges = 2
    Nobody = nobody
    NoRole = norole
    NoToken = notoken
INVARIANTS
    TypeOK
    GoneStaysGone
    FreshAuthority
