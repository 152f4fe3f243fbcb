SPECIFICATION MediaFairSpec
CONSTANTS
    s1 = s1
    r1 = r1
    t1 = t1
    Slots <- OneSlot
    Requests <- OneAndTest
    SlotOf <- BothToS1
    TestRuns <- OnlyT1
    NoRequest = NoRequest
    MaxFaults = 0
    MaxCrashes = 0
    MaxCronDeaths = 2
INVARIANTS
    NothingDeletedEarly
    CleanedMeansGone
PROPERTIES
    ImplementsLifecycle
    DeletionIsRecorded
    PublicLinkExpires
