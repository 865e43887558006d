SPECIFICATION FleetSpec
CONSTANTS
    Boards <- TwoBoards
    PortSeq <- TwoPorts
    SerialOf <- BridgeIsBare
    Native = {"A"}
    Mute = {}
    Flaky = {}
    Aliases <- NoAlias
    MaxHandles = 4
    MaxMoves = 1
    MaxUnverify = 0
    PromptUsb = FALSE
PROPERTIES Converges
