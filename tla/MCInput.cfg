SPECIFICATION InputSpec
CONSTANTS
    Keyboard = {}
    CountMod = 16
    DigitLimit = 2
    Typed <- SmallKeyboard
    Pasted = {"ESC", "LF", "DEL", "i", "q", "x"}
    FunctionKeys = {"Up", "Resize"}
    CsiMod = 1000
INVARIANTS TypeOK PastingEnds OneOwner InsertIsClean
PROPERTY PastedIsData Settles EscFrees
CHECK_DEADLOCK FALSE
