SPECIFICATION FairSpec
CONSTANTS
    DeviceIds = {d1, d2}
    d1 = d1
    Schedules <- MCSchedules
    Monitors = {m1}
    Workers = {w1, w2}
    Runners = {h1}
    Editors = {e1}
    Slots = 2
    MayFail = TRUE
    None = None
INVARIANTS
    TypeOK
    SlotsAccounted
PROPERTIES
    EventsAlternate
    TwoInARow
    AlertIsCurrent
    KeepsBeingChecked
