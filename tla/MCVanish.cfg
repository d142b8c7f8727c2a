\* The unit of time is 200 minutes.
CONSTANTS
    id1 = id1
    id2 = id2
    op1 = op1
    op2 = op2
    Nothing = Nothing
    Op = {op1, op2}
    Reader = {r1}
    VdoID = {id1, id2}
    Choices <- MCChoices
    Refresh = 2
    MaxGone = 1
SPECIFICATION FairSpec
CHECK_DEADLOCK FALSE
INVARIANTS
    TypeOK
    StoredHasTimer
    StoredUntilExpiry
    StoredObjectHasShares
    PanicsOnlyOnLoss
    GarbledOnlyAfterRefresh
PROPERTIES
    CallsEnd
