SPECIFICATION MCSpec
CONSTANTS
    a = a
    b = b
    Subjects = {a, b}
    Jobs = {j1}
    NoSubject = NoSubject
    MaxConcurrency = 1
    CacheTtl = 0
    MaxTime = 0
INVARIANTS
    RewriteFollowsOnError
