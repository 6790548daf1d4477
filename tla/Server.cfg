SPECIFICATION Spec
CONSTANTS
    a1 = a1
    a2 = a2
    a3 = a3
    g0 = g0
    g1 = g1
    g2 = g2
    Addr = {a1, a2, a3}
    Guid = {g0, g1, g2}
    ZeroGuid = g0
    NoAddr = NoAddr
    Offers <- MCOffers
    MaxConnections = 2
    MaxCreated = 3
    MayClose = TRUE
INVARIANTS TypeOK TablesAgree GuidUnique GuidMapClean HandlersReleased
CHECK_DEADLOCK FALSE
