CONSTANTS
    id1 = id1
    id2 = id2
    op1 = op1
    op2 = op2
    Nothing = Nothing
    Op = {op1}
    Reader = {r1}
    VdoID = {id1, id2}
    Choices <- MCValidChoices
    Refresh = 2
    MaxGone = 0
SPECIFICATION FairSpec
CHECK_DEADLOCK FALSE
INVARIANTS
    VanishedDataComesBack
