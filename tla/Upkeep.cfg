SPECIFICATION UpkeepSpec
CONSTANTS
    Records <- MCRecords
    Secrets <- MCSecrets
    Settings <- MCSettings
    Carried <- MCCarried
    Flags <- MCFlags
    MaxKept = 2
    NoFile = NoFile
    Addresses = 2
    MaxBytes = 5
    MinSamples = 2
    MaxSamples = 4
    Targets <- MCTargets
    Configs <- MCConfigs
    MaxBroken = 4
    MaxTurns = 1
    Callers = {c1, c2, c3}
    Ttl = 1
    MaxRuns = 2
INVARIANTS
    UpkeepTypeOK
    NeverMixed
    PreviousKept
    LoadIsReal
    NamesTheOrigin
    LadderIsShared
PROPERTIES
    AllOrNothing
\* A load test is over when it is graded.
CHECK_DEADLOCK FALSE
