SPECIFICATION Spec
CONSTANTS
    Users = {dev, u}
    DevUser = dev
    pw = pw
    Passwords = {pw, wrong}
    DevPassword = pw
    Tokens = {t1, t2}
    NoUser = NoUser
    NoToken = NoToken
    Requests = {r1, r2}
    Registrations <- MCRegistrations
    Payloads <- MCPayloads
    SessionTtl = 2
    MaxTime = 2
SYMMETRY Symmetry
INVARIANTS
    TypeOK
    AcceptedHasStanding
    UsesLeaveNoGap
PROPERTIES
    RevokedIsFinal
    UpdatesKeepTheRest
