SPECIFICATION Spec
CONSTANTS
    Chips = {"esp32", "esp32c5", "esp32c6"}
    Firmwares = {"old", "wire", "newer"}
    Macs = {"02:0a", "02:0b"}
    Measured <- VariedFirst
    MaxFrames = 3
INVARIANTS DecodingTypeOK SubcarriersTrue CodeAgrees RowsAreWhole MixedFleetDecodes
CHECK_DEADLOCK FALSE
