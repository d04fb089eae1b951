SPECIFICATION FairSpec
CONSTANTS
    Sizes <- OneSize
    MaxBookAge = 1
    MaxLegSkew = 1
    QuoteTimeout = 2
    TVLRefresh = 1
    MinTVL = 10
    Interval = 1
    Stagger = 1
    Lookback = 1
    LookbackMin = 1
    LookbackMax = 2
    MidKeep = 2
    Threshold = 10
    HasBasis = TRUE
    Costs <- SomeCosts
    BookPrices <- OnePrice
    BasisMids <- OneBasis
    DexPrices <- OneDexPrice
    TVLs <- ThinAndDeep
    Horizon = 3
INVARIANTS
    TypeOK
    LegsWithinSkew
    CanonicalEdgeBacked
    ThinPoolExcluded
PROPERTIES
    ReferencesKept
    TickHonoured
    StopObeyed
CHECK_DEADLOCK FALSE
