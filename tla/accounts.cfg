CHECK_DEADLOCK FALSE
SPECIFICATION Spec
SYMMETRY Symmetry
CONSTANTS
    Users = {u1, u2}
    Tokens = {t1, t2, t3}
    Requests = {r1, r2}
    NoUser = NoUser
    NoToken = NoToken
INVARIANTS
    TypeOK
PROPERTIES
    OneTokenPerLogin
    ClosedForGood
    AdminRemains
