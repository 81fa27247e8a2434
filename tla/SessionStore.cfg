SPECIFICATION Spec
CONSTANTS
    Sids = {s1, s2}
    Keys = {k1, k2}
    Requests = {r1, r2}
    NoKey = NoKey
    NoSid = NoSid
    IdleTtl = 1
    MaxTime = 2
SYMMETRY Symmetry
INVARIANTS
    TypeOK
    DataKeyIdentifiesSession
    DataKeyOnlyForOwner
PROPERTIES
    OnlyInitializeBindsOrReopens
    ImplementsLifecycle
