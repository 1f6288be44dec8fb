SPECIFICATION FairSpec
CONSTANTS
    Station <- MCStation
    Stranger = "P99"
    Specialty <- MCSpecialty
    Upkeep <- MCUpkeep
    InitialInventory <- MCInitial
    ProductionLevels = {0, 2}
    DurationTicks = 3
    MaxHealth = 1
    ShortageDamage = 1
    Recovery = 1
    MaxOfferTtl = 2
    MaxPublicationTtl = 2
    CommandsPerTick = 1
    MaxOpenOffers = 1
    OfferTerms <- MCOfferTerms
    AdTerms <- MCAdTerms
    MaxObjects = 3
INVARIANTS TypeOK TotalsMatchTransactions LedgerBalanced OpenIsLive SettledOnce MarketLimits FailedHasNoDealings
PROPERTIES ClosedIsFinal FailureRecorded ImplementsMarket OffersClose
