SPECIFICATION Spec
CONSTANTS
    Clients = {a, b}
    Chips <- TwoChips
    ExtraModes <- NoExtra
    ExtraProtocols <- NoExtra
    Presets <- OnePreset
    Resolved <- OneName
    Requests <- SomeRequests
    CmdCap = 2
    MaxRequests = 2
    MaxEvents = 2
INVARIANTS ConfigureTypeOK CacheAgrees DriftHasCause
SYMMETRY Alike
CHECK_DEADLOCK FALSE
