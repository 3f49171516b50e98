SPECIFICATION Spec
CONSTANTS
    MaxIncidents = 2
    Codes <- OneCode
    Severity <- OneSeverity
    Requests = {r1, r2}
    NoOne = NoOne
    DbFaults = TRUE
    MayCrash = TRUE
SYMMETRY Symmetric
INVARIANTS
    OneOpenIncident
    OneLoop
    NoRaceInsideTrigger
    OneLadder
    EvidenceFollowsRuns
    ClosedOnce
VIEW Lifecycle
