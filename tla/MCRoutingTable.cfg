CONSTANTS
    IDBits = 3
    NodeNumbers = {0, 1, 2, 4, 5, 6}
    SelfNumber = 5
    NodeID <- MCNodeID
    SelfId <- MCSelfId
    Host = {h1, h2}
    K = 1
    k = 2
SPECIFICATION Spec
INVARIANTS
    TypeOK
    OneEntryPerNode
    FindContactIsRight
    OwnBucketIsNearest
    QueriesAreFull
PROPERTIES
    DropsOnlyInExchange
