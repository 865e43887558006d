SPECIFICATION Spec
CONSTANTS
    Boards <- TwoBoards
    PortSeq <- TwoPorts
    SerialOf <- UniqueSerials
    Native = {}
    Mute = {}
    Flaky = {}
    Aliases <- NoAlias
    MaxHandles = 3
    MaxMoves = 2
    MaxUnverify = 0
    PromptUsb = FALSE
INVARIANTS SettledOnOwnBoard
