SPECIFICATION FairSpec
CONSTANTS
    NumTasks = 3
    Names = {1, 2, 3, 4}
    MaxParallel = 2
    RetryCount = 1
INVARIANTS
    TypeOK
    AcceptsExactlyDags
    CycleErrorLeadsToCycle
    DependenciesFirst
    HandlersEndFirst
    NeverStalls
    VerdictAgreesWithTasks
PROPERTIES
    ResultsAreFinal
    PipelineEnds
CHECK_DEADLOCK FALSE
