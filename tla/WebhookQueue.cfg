SPECIFICATION Spec
CONSTANTS
    NumHooks = 2
    Escalation <- MCEscalation
    Subscribed <- MCSubscribed
    Incidents = {i1}
    Emitters = {e1}
    QueueCap = 2
    Batch = 2
    MaxAttempts = 2
    GoneAttempts = 1
    Backoff = 0
    MaxAge = 0
    MaxRow = 3
    MaxLag = 0
    Edited = {1}
    MayFail = TRUE
    None = None
INVARIANTS
    TypeOK
    CapHolds
PROPERTIES
    LostOnlyToReuse
    CapSparesOthers
    HeldUntilDue
