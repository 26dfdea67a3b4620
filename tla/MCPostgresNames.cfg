SPECIFICATION Spec
CONSTANTS
    None = None
    Servers = {s1}
    Tables = {1}
    Late = {}
    Keyed = {1}
    Keys = {1}
    RecordOf <- MCRecordOf
    FuncOf <- MCFuncOf
    KeyUpdates = FALSE
    QuietSetup = TRUE
    MaxVersion = 3
INVARIANTS
    LoggedTablesAreKnown
