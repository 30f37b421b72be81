SPECIFICATION Spec
CONSTANTS
    MarkerBytes = 7
    TextBytes = 0
    BudgetBytes = 0
    Sizes = {2, 13}
    WideSizes = {13}
    Tokens = {1, 3}
    MaxTold = 4
    MaxMessageBytes = 10
    MaxExecBytes = 16
    MaxMessages = 3
    MaxImageBytes = 2
    MaxExecImages = 2
    MaxExecImageBytes = 3
    LogLimit = 3
    LogBytes = 19
INVARIANTS OutputIsBounded SnapshotFits ReadersMissNothing
CHECK_DEADLOCK FALSE
