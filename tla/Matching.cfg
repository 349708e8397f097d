SPECIFICATION FlowSpec
CONSTANTS
    t1 = t1
    t2 = t2
    Tokens = {t1, t2}
    NoText = NoText
    NoRow = NoRow
    NoDeal = NoDeal
    Searches <- MCSearches
    Feeds <- MCFeeds
    Reprices <- MCReprices
    Omits <- MCOmits
    Links <- MCLinks
    Spellings <- MCSpellings
    Cohorts <- MCCohorts
    ListingHosts <- MCListingHosts
    ImageHosts <- MCImageHosts
    Sqrt <- MCSqrt
    Pow07 <- MCPow07
    Logistic <- MCLogistic
    Prices = {30, 45, 52, 55, 58, 64, 69}
    BasePrice <- MCBasePrice
    MaxURL = 2048
    MaxResults = 1
    MaxSteps = 2
    MinCohortSize = 2
    MinPriceFloor = 5
    CurrentYear = 12
INVARIANTS MatchersAgree AlertHonoursSearch CheaperNeverWorse
CHECK_DEADLOCK FALSE
