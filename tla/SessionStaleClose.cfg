SPECIFICATION Spec
CONSTANTS
    Sids = {s1}
    Keys = {k1}
    Requests = {r1, r2}
    NoKey = NoKey
    NoSid = NoSid
    IdleTtl = 1
    MaxTime = 4
PROPERTIES
    IdleCloseOnlyIdle
