SPECIFICATION FairSpec
CONSTANTS
    MaxIncidents = 1
    Codes <- OneCode
    Severity <- OneSeverity
    Requests = {r1}
    NoOne = NoOne
    DbFaults = FALSE
    MayCrash = TRUE
PROPERTIES
    WatchedIncidentResolves
