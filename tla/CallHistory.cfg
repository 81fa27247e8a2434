SPECIFICATION Spec
CONSTANTS
    k1 = k1
    k2 = k2
    u1 = u1
    Sids = {s1}
    Keys = {k1, k2}
    NoKey = NoKey
    NoSid = NoSid
    Calls = {c1, c2, c3}
    Users = {u1, u2}
    NoUser = NoUser
    Owner <- MCOwner
    Admin = Admin
    Walks = {w}
    Offsets = {0, 2}
    PageSize = 1
SYMMETRY Symmetry
INVARIANTS
    TypeOK
    WalkFindsAll
    PageAgreesWithTotal
PROPERTIES
    LinesKeepTheirOwners
