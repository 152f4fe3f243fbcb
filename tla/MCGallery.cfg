SPECIFICATION MCSpec
CONSTANTS
    guest = guest
    r1 = r1
    r2 = r2
    r3 = r3
    r4 = r4
    j1 = j1
    j2 = j2
    s1 = s1
    NoPage = NoPage
    Requests <- FourRequests
    Clients <- OneClient
    ClientOf <- AllOfGuest
    ShareTimes <- Times
    Window = 2
    RateLimit = 2
    MaxThreads = 2
    MaxClock = 4
    Visits <- ThreeVisits
    Jobs <- TwoJobs
    SlotOf <- AllOfSlot
    SlotList <- OneSlot
    Ttl = 1
    RecentLimit = 2
    Slack = 1
    PageThreads = 2
    MaxTicks = 5
SYMMETRY Interchangeable
INVARIANTS
    PagesAreRecent
    NoSpuriousRefusal
    BurstBounded
\* Every request has been answered: the system may rest.
CHECK_DEADLOCK FALSE
