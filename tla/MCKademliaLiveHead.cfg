CONSTANTS
    IDBits = 3
    NodeNumbers = {0, 1, 2, 4, 5, 6}
    CrashNumbers = {}
    SilentNumbers = {}
    BreakNumbers = {}
    NodeID <- MCNodeID
    Host <- MCNodeID
    K = 1
    k = 2
    ClientCallId = {c1, c2}
    PingCallId = {p1, p2}
    Request <- TwoNewcomers
    WarmTable <- FaceToFace
    MayCrash <- MCMayCrash
    MayFallSilent <- MCMayFallSilent
    MayBreak <- MCMayBreak
    Prompt = TRUE
    Free = Free
SPECIFICATION Spec
SYMMETRY Symmetry
PROPERTY
    LiveHeadIsKept
