SPECIFICATION UpkeepSpec
CONSTANTS
    Records <- MCRecords
    Secrets <- MCSecrets
    Settings <- MCSettings
    Carried <- MCCarried
    Flags <- MCFlags
    MaxKept = 2
    NoFile = NoFile
    Addresses = 1
    MaxBytes = 1
    MinSamples = 2
    MaxSamples = 1
    Targets <- MCTargets
    Configs <- MCConfigs
    MaxBroken = 0
    MaxTurns = 0
    Callers = {c1}
    Ttl = 1
    MaxRuns = 0
INVARIANT
    WalSafe
CHECK_DEADLOCK FALSE
