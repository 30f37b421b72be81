SPECIFICATION ProtocolSpec
CONSTANTS
    Kinds = {"python", "bun", "dotnet", "cpp"}
    MaxCells = 2
    MaxPrints = 1
    MaxMessages = 1
    MaxTail = 2
    MaxTroubles = 2
INVARIANTS RecordIsWhole StoreIsWhatWasLeft CellSeesTheStore StartsAtThePrompt NeverStranded
CHECK_DEADLOCK FALSE
