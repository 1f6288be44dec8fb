SPECIFICATION Spec
CONSTANTS
    CommandsPerTick = 1
    MaxRecords = 3
    DurationTicks = 3
    OfferTtl = 2
    InitialStock = 2
    ProductionLevels = {0, 1}
    MinOutput = 0
    Upkeep = 1
    Amounts = {1, 2}
    MaxSessions = 2
    MaxRequests = 3
    MaxBreaks = 1
CHECK_DEADLOCK FALSE
INVARIANTS OnlyUpkeepUncovers RateLimitMeansLate DecidesOnItsOwnResults
