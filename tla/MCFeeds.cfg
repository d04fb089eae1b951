SPECIFICATION FairSpec
CONSTANTS
    Symbols = {s1, s2}
    MaxBookAge = 2
    IdleLimit = 2
    BackoffLimit = 3
    MaxConns = 4
    PollInterval = 2
    FetchTimeout = 3
INVARIANT
    TypeOK
PROPERTIES
    ConnIDsAreNew
    SilenceNoticed
    BookSpec
    BooksKeepComing
    AllStop
