SPECIFICATION Spec
CONSTANTS
    Alerts = {a1, a2, up}
    UpAlerts = {up}
    Threads = {t1, t2}
    MaxRow = 2
    MaxSuppressedAlerts = 2
    MaxQuietEvents = 2
    Faults = TRUE
    MayCrash = TRUE
    None = None
SYMMETRY Symmetric
PROPERTIES
    SuppressedUntilSummarised
