SPECIFICATION FairSpec
CONSTANTS
    CommandsPerTick = 2
    MaxRecords = 2
    DurationTicks = 3
    OfferTtl = 2
    InitialStock = 2
    ProductionLevels = {0, 1}
    MinOutput = 0
    Upkeep = 1
    Amounts = {1, 2}
    MaxSessions = 1
    MaxRequests = 3
    MaxBreaks = 0
CHECK_DEADLOCK FALSE
INVARIANTS TypeOK HeldUntilSeen NoLeakedReservation
PROPERTIES
    RunIsFollowedToItsEnd
