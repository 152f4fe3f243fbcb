SPECIFICATION Spec
CONSTANTS
    put1 = put1
    put2 = put2
    put3 = put3
    t1 = t1
    u1 = u1
    u2 = u2
    prompt = prompt
    seed = seed
    Uploads <- TwoUploads
    Updates <- ThreeUpdates
    Runs <- OneRun
    Names <- TwoNames
    Payloads <- SomePayloads
    None = None
    MaxThreads = 2
    MaxFaults = 1
SYMMETRY Interchangeable
INVARIANTS
    
    UpdatesAddUp
    BoundTemplatesResolve
    JobNeverGoesBack

    
\* Every call has been answered: the system may rest.
CHECK_DEADLOCK FALSE
