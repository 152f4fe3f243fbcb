SPECIFICATION Spec
CONSTANTS
    password = password
    timeout = timeout
    gemini = gemini
    gemini3 = gemini3
    turbotext = turbotext
    GEMINI = GEMINI
    TURBOTEXT = TURBOTEXT
    put1 = put1
    put2 = put2
    put3 = put3
    get = get
    Calls <- SomeCalls
    Fields <- SomeFields
    Providers <- SomeProviders
    EnvOf <- SomeEnvOf
    Sets <- SomeSets
    Clears <- SomeClears
    None = None
    MaxThreads = 2
    MaxFaults = 1
    MaxRestarts = 1
INVARIANTS
    TypeOK
    
    AloneMeansInStep
    KeysKept
\* Every call has been answered: the system may rest.
CHECK_DEADLOCK FALSE
