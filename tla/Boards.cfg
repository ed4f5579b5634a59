SPECIFICATION Spec
CONSTANTS
    Seeds <- MCSeeds
    Arrivals <- MCArrivals
    ALL <- MCALL
    Queries <- MCQueries
    NoSeason = "none"
    NoData = NoData
    DEFAULT_LIMIT = 2
    MAX_LIMIT = 3
    MaxChannel = 2
    MaxTroubles = 1
INVARIANTS BoardsTruthful SeasonReal
PROPERTIES CacheAdvances ShowsLatest
