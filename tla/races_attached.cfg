SPECIFICATION Spec
CONSTANTS
    Clients = {c1, c2}
    Ops = {"start", "stop", "config", "mode"}
    Modes = {"stream", "dump"}
    InitMode = "dump"
    NativeUsb = FALSE
    PathOf <- DistinctPaths
    CmdCap = 2
    InfoCap = 1
    MaxCalls = 3
    MaxFrames = 1
    WireCap = 1
    MaxDrops = 0
    MayDetach = TRUE
    Paced = FALSE
INVARIANTS TypeOK IdentityCoherent SinkAsConfigured StartsSerialized
PROPERTIES WritesVerified
CHECK_DEADLOCK FALSE
