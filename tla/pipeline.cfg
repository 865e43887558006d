SPECIFICATION FairSpec
CONSTANTS
    Clients = {"w1"}
    Readers = {"w1"}
    Capacity = 1
    RowGroup = 2
    MaxSessions = 1
    MaxFails = 1
    MaxEvents = 2
    Lines <- SomeLines
    InitMode = "both"
INVARIANTS PipelineTypeOK FramesAligned ReadableIsComplete Accounted
PROPERTIES Lossy SocketsClose
CHECK_DEADLOCK FALSE
