SPECIFICATION Spec
CONSTANTS
    Files <- SomeFiles
    Default <- SomeDefaults
    SymbolAt <- SomeSymbols
    Deployed <- SomeDeployed
    DecimalsOf <- SomeDecimals
    DefaultRate = 10
INVARIANT
    BasisKept
CHECK_DEADLOCK FALSE
