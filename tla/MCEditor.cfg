SPECIFICATION Spec
CONSTANTS
    Cap = 1
    Char <- Chars
    Blank = " "
    TabWidth = 2
    InitDocs <- SmallDocs
    Typed = {"a"}
    Targets = {"a"}
    Heights = {0, 2}
    SpanOps = {"d", "y", "c", "=", "g~"}
    MaxCount = 2
    MaxEdits = 2
    MaxSpans = 1
    MaxLen = 10
    ScreenCols = 5
INVARIANTS TypeOK CursorOnScreen NoStopMissed ErasedIsKept HoldsBrackets RowsAligned Linked
CHECK_DEADLOCK FALSE
