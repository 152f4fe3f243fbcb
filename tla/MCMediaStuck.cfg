SPECIFICATION MediaFairSpec
CONSTANTS
    s1 = s1
    r1 = r1
    t1 = t1
    Slots <- OneSlot
    Requests <- OneAndTest
    SlotOf <- BothToS1
    TestRuns <- OnlyT1
    NoRequest = NoRequest
    MaxFaults = 1
    MaxCrashes = 1
    MaxCronDeaths = 0
PROPERTIES
    FailedDeletionIsRetried
