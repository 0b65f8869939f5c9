SPECIFICATION EditorFairSpec
CONSTANTS
    Replicas = {1, 2}
    MaxOps = 3
    MaxAssets = 2
    Sizes = {2}
    Chars = {"x"}
    CellTexts <- Nasty
    Files <- SomeFiles
    Symbols <- SomeSymbols
    MinRows = 1
    MinColumns = 2
CHECK_DEADLOCK FALSE
INVARIANTS TableIsWhole ExportReadsBack  
 
