SPECIFICATION Spec
CONSTANTS
    Alerts = {a1, up}
    UpAlerts = {up}
    Threads = {t1, t2}
    MaxRow = 2
    MaxSuppressedAlerts = 1
    MaxQuietEvents = 1
    Faults = TRUE
    MayCrash = TRUE
    None = None
SYMMETRY Symmetric
INVARIANTS
    TypeOK
    SummaryAfterRecovery
PROPERTIES
    RecoveryNeedsTwoClears
    DeferredIsHandedOver
VIEW NoHistory
