SPECIFICATION FairSpec
CONSTANTS
    Limits <- ShortAndLong
    Requested <- TooFewAndTooMany
    Backoffs <- NoneAndLong
    MaxTries = 3
    NoImageMax = 4
    NoImagePause = 1
    PollMax = 4
    PollPause = 1
    MaxUpload = 2
    MaxChanges = 1
    MaxClock = 9
INVARIANTS
    RequestsBounded
    TimeoutIsJustified
    ImageIsUsed
PROPERTIES
    PauseIsNotCut
    CallEnds
\* The call is over: the system may rest.
CHECK_DEADLOCK FALSE
