SPECIFICATION MCSpec
CONSTANTS
    j1 = j1
    j2 = j2
    s1 = s1
    s2 = s2
    p1 = p1
    p2 = p2
    Jobs <- TwoJobs
    SlotOf <- BothInS1
    SlotList <- TwoSlots
    All = All
    Window = 1
    FailureLimit = 2
    Providers <- TwoProviders
    Buckets <- TwoBuckets
    MaxReports = 1
    MaxClock = 3
SYMMETRY Interchangeable
INVARIANTS
    ReportsAddUp
    VerdictsAreAccountedFor
    BucketsAreCumulative
PROPERTIES
    CountersFallOnlyByCorrection
    RowsFollowRecords
\* Where all jobs are decided and all reports made the system may rest.
CHECK_DEADLOCK FALSE
