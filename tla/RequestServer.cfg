SPECIFICATION ServerSpec
CONSTANTS
    Conns = {c1, c2, c3}
    c1 = c1
    c2 = c2
    c3 = c3
    MaxConnections = 2
    Deadline = 1
    Offers <- MCOffers
    Others = {"thread", "janitor"}
    None = None
INVARIANTS
    CapacityExact
PROPERTIES
    AcceptedLeaves
\* After server_close every connection may be cancelled, and the server is over.
CHECK_DEADLOCK FALSE
