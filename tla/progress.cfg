SPECIFICATION ProgressSpec
CONSTANTS
    Clients = {c1}
    Ops = {"start", "stop", "reset", "info"}
    Modes = {"stream", "dump"}
    InitMode = "dump"
    NativeUsb = FALSE
    PathOf <- DistinctPaths
    CmdCap = 1
    InfoCap = 1
    MaxCalls = 2
    MaxFrames = 0
    WireCap = 1
    MaxDrops = 1
    MayDetach = FALSE
    Paced = FALSE
INVARIANTS NoneLeftOpen
PROPERTIES RequestsReturn SessionCloses
