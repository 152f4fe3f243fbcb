SPECIFICATION MCSpec
CONSTANTS
    s1 = s1
    r1 = r1
    r2 = r2
    r3 = r3
    t1 = t1
    Slots <- OneSlot
    Requests <- ThreeAndTest
    SlotOf <- AllToS1
    TestRuns <- OnlyT1
    NoRequest = NoRequest
    MaxFaults = 1
    MaxCrashes = 0
PROPERTY VerdictIsFinal
CHECK_DEADLOCK FALSE
