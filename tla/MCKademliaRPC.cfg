CONSTANTS
    IDBits = 3
    NodeNumbers = {0, 4, 5, 6}
    CrashNumbers = {4}
    SilentNumbers = {5}
    BreakNumbers = {4}
    NodeID <- MCNodeID
    Host <- MCNodeID
    K = 1
    k = 2
    ClientCallId = {c1, c2}
    PingCallId = {p1, p2}
    Request <- OneNewcomer
    WarmTable <- FullBucket
    MayCrash <- MCMayCrash
    MayFallSilent <- MCMayFallSilent
    MayBreak <- MCMayBreak
    Prompt = FALSE
    Free = Free
SPECIFICATION Spec
SYMMETRY Symmetry
INVARIANTS
    TypeOK
    DecisionIsFresh
    PingHasOneOwner
    AnswerMeansDone
    RegistryIsExact
PROPERTIES
    TablesChangeByUpDate
CHECK_DEADLOCK FALSE
