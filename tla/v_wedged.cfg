SPECIFICATION AnswerSpec
CONSTANTS
    Clients = {c1}
    Ops = {"start"}
    Modes = {"stream", "dump"}
    InitMode = "dump"
    NativeUsb = TRUE
    PathOf <- DistinctPaths
    CmdCap = 2
    InfoCap = 1
    MaxCalls = 1
    MaxFrames = 0
    WireCap = 1
    MaxDrops = 1
    MayDetach = FALSE
    Paced = FALSE
PROPERTIES VerifiesAgain
