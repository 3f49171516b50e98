SPECIFICATION FairSpec
CONSTANTS
    MaxIncidents = 2
    Codes <- OneCode
    Severity <- OneSeverity
    Requests = {r1}
    NoOne = NoOne
    DbFaults = FALSE
    MayCrash = FALSE
PROPERTIES
    OpenIncidentResolves
