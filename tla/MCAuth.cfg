SPECIFICATION Spec
CONSTANTS
    a1 = a1
    a2 = a2
    a3 = a3
    a4 = a4
    a5 = a5
    Attempts <- FiveAttempts
    NoState = NoState
    MaxThreads = 2
    MaxFailures = 2
    BlockDuration = 2
    TokenTtl = 2
    MaxRestarts = 1
    MaxClock = 3
SYMMETRY Interchangeable
INVARIANTS
    GuessRateBounded
    NoSpuriousBlock
    AccessEndsWithRecord
PROPERTY
    OneThreadIsAtomic
\* Every attempt has been judged: the system may rest.
CHECK_DEADLOCK FALSE
