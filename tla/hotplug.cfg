SPECIFICATION Spec
CONSTANTS
    Boards <- TwoBoards
    PortSeq <- TwoPorts
    SerialOf <- UniqueSerials
    Native = {}
    Mute = {}
    Flaky = {}
    Aliases <- NoAlias
    MaxHandles = 4
    MaxMoves = 1
    MaxUnverify = 1
    PromptUsb = FALSE
INVARIANTS FleetTypeOK NoOrphan
PROPERTIES MovesWithProof
CHECK_DEADLOCK FALSE
