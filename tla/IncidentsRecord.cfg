SPECIFICATION Spec
CONSTANTS
    MaxIncidents = 1
    Codes <- MCCodes
    Severity <- MCSeverity
    Requests = {r1, r2}
    NoOne = NoOne
    DbFaults = TRUE
    MayCrash = TRUE
INVARIANTS
    TypeOK
PROPERTIES
    ResolvedIsFinal
    ImplementsRecord
VIEW Record
SYMMETRY Symmetric
