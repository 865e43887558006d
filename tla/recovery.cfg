SPECIFICATION FleetSpec
CONSTANTS
    Boards <- TwoBoards
    PortSeq <- TwoPorts
    SerialOf <- BridgeIsBare
    Native = {"A"}
    Mute = {"A", "B"}
    Flaky = {}
    Aliases <- NoAlias
    MaxHandles = 4
    MaxMoves = 0
    MaxUnverify = 0
    PromptUsb = TRUE
INVARIANTS RestartedOnce
PROPERTIES FaultAfterCures MuteIsFaulted
