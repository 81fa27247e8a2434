SPECIFICATION Spec
CONSTANTS
    p = p
    flow = flow
    none = none
    NoPolicy = NoPolicy
    GuardByDefault = FALSE
    MaxFiles = 2
    MaxRuns = 2
    Files <- MCFiles
INVARIANTS
    TypeOK
    ServedAsConfigured
    DatabaseCoversApps
    RunsAreAccountedFor
CHECK_DEADLOCK FALSE
