CONSTANTS
    IDBits = 3
    NodeNumbers = {0, 1, 2, 4, 5, 6}
    CrashNumbers = {1}
    SilentNumbers = {}
    BreakNumbers = {}
    NodeID <- MCNodeID
    Host <- MCNodeID
    K = 1
    k = 2
    ClientCallId <- BothSides
    PingCallId = {p1, p2, p3}
    Request <- BothSides
    WarmTable <- FaceToFace
    MayCrash <- MCMayCrash
    MayFallSilent <- MCMayFallSilent
    MayBreak <- MCMayBreak
    Prompt = TRUE
    Free = Free
SPECIFICATION OnceSpec
PROPERTIES
    OperationsEnd
CHECK_DEADLOCK FALSE
