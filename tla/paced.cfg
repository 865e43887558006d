SPECIFICATION AnswerSpec
CONSTANTS
    Clients = {c1}
    Ops = {"start", "stop", "reset", "mode", "info"}
    Modes = {"dump", "both"}
    InitMode = "dump"
    NativeUsb = TRUE
    PathOf <- DistinctPaths
    CmdCap = 2
    InfoCap = 1
    MaxCalls = 4
    MaxFrames = 2
    WireCap = 1
    MaxDrops = 0
    MayDetach = TRUE
    Paced = TRUE
INVARIANTS SinkOfSession RowsOfOwnSession CollectingIsReported
PROPERTIES StartNotSwallowed RowsSurvive VerifiesAgain OneFilePerSession
CHECK_DEADLOCK FALSE
