SPECIFICATION WorldSpec
CONSTANTS
    Station <- MCStation
    Stranger = "P99"
    Roster <- MCRoster
    Specialty <- MCSpecialty
    Upkeep <- MCUpkeep
    InitialInventory <- MCInventory
    ProductionLevels = {}
    DurationTicks = 40
    MaxHealth = 10
    ShortageDamage = 5
    Recovery = 5
    MaxOfferTtl = 10
    MaxPublicationTtl = 10
    CommandsPerTick = 4
    MaxOpenOffers = 3
    OfferTerms = {}
    AdTerms = {}
    MaxObjects = 100000
    Setups <- MCSetups
    QuitTick = 8
INVARIANTS PromisesCovered TurnKeepsReserve FreshOffersStand RefusedForOthers SelfPlaySucceeds ScoresAgree
CHECK_DEADLOCK FALSE
