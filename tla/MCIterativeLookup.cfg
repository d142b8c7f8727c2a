\* Five other nodes, the searching one nearer to the key than most.
CONSTANTS
    Node = {1, 3, 4, 5, 6}
    Self = 2
    FromTable <- MCFromTable
    Reports <- MCReports
    Holder = {1, 5}
    MayFail = {4, 6}
    Enough = 4
    Alpha = 2
    MaxKnown = 4
    MaxNamed = 2
SPECIFICATION FrontSpec
CHECK_DEADLOCK FALSE
INVARIANTS
    TypeOK
    Ledger
    EveryResultIsOwed
    ShortOnlyIfExhausted
    NoValueHasReason
    StoredAtAllListed
    FoundMeansCopied
PROPERTIES
    NobodyAskedTwice
    EndsOrExhausted
    FrontEndEnds
