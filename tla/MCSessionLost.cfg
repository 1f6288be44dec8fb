SPECIFICATION FairSpec
CONSTANTS
    CommandsPerTick = 1
    MaxRecords = 3
    DurationTicks = 2
    OfferTtl = 1
    InitialStock = 1
    ProductionLevels = {0, 1}
    MinOutput = 0
    Upkeep = 1
    Amounts = {1}
    MaxSessions = 2
    MaxRequests = 1
    MaxBreaks = 1
CHECK_DEADLOCK FALSE
PROPERTIES LostSessionIsLeft
