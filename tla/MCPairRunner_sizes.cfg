SPECIFICATION Spec
CONSTANTS
    Sizes <- TwoSizes
    MaxBookAge = 1
    MaxLegSkew = 1
    QuoteTimeout = 2
    TVLRefresh = 1
    MinTVL = 10
    Interval = 2
    Stagger = 0
    Lookback = 1
    LookbackMin = 1
    LookbackMax = 2
    MidKeep = 2
    Threshold = 10
    HasBasis = TRUE
    Costs <- SomeCosts
    BookPrices <- MixedPrices
    BasisMids <- MixedBasis
    DexPrices <- MixedDex
    TVLs <- NoTVL
    Horizon = 2
INVARIANTS
    BookRecentAtQuote
    StopCutsRecording
PROPERTY
    SummaryFollowsPass
CHECK_DEADLOCK FALSE
