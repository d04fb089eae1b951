SPECIFICATION Spec
CONSTANTS
    Files <- SomeFiles
    Default <- SomeDefaults
    SymbolAt <- SomeSymbols
    Deployed <- SomeDeployed
    DecimalsOf <- SomeDecimals
    DefaultRate = 10
INVARIANTS
    TypeOK
    FeedsServeRunners
    OneLimiterPerChain
    BurstsApart
    QuotesTheMarket
    AcceptedConfigsRun
CHECK_DEADLOCK FALSE
