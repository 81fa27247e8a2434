SPECIFICATION MCFairSpec
CONSTANTS
    a = a
    b = b
    Subjects = {a, b}
    Jobs = {j1, j2}
    NoSubject = NoSubject
    MaxConcurrency = 1
    CacheTtl = 0
    MaxTime = 1
INVARIANTS
    TypeOK
    PermitsConserved
    VerdictIsRecent
    FailuresFollowOnError
PROPERTIES
    JobsEnd
