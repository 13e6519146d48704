SPECIFICATION HistorySpec
CONSTANTS
    Cap = 2
    Char = {"a", " "}
    Blank = " "
    Texts <- EditTexts
    InitDocs <- HistoryDocs
    Slack = 0
    MaxRev = 5
    MaxDepth = 1
    FreeSetLines = FALSE
INVARIANTS TypeOK NoDrift PrimitivesEditText
PROPERTY KeepsHistory
CHECK_DEADLOCK FALSE
