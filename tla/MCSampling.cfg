SPECIFICATION FairSpec
CONSTANTS
    Pairs = {p1, p2}
    Sizes = 2
    Interval = 2
    QuoteTimeout = 8
INVARIANT
    FirstCallsServed
PROPERTY
    RequestsGoOn
