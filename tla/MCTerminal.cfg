SPECIFICATION Spec
CONSTANTS
    Scrollback = 2
    OscLimit = 3
    Sizes <- PanelSizes
    TooSmall <- SmallWindow
    DefaultCols = 2
    Outputs <- ShellOutputs
    OutMax = 8
    MaxWrites = 2
    MaxResizes = 1
    MaxShells = 2
INVARIANTS TypeOK SizesAgree
PROPERTIES RegionHolds EndNoticed
