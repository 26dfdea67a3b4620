SPECIFICATION Spec
CONSTANTS
    None = None
    Servers = {s1}
    Tables = {1}
    Late = {}
    Keyed = {1}
    Keys = {1, 2}
    RecordOf <- MCRecordOf
    FuncOf <- MCFuncOf
    KeyUpdates = TRUE
    QuietSetup = TRUE
    MaxVersion = 3
INVARIANTS
    LogIsCurrent
