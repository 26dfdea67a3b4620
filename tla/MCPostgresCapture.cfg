SPECIFICATION FairCapture
CONSTANTS
    None = None
    Servers = {s1, s2}
    Tables = {1, 2}
    Late = {}
    Keyed = {1, 2}
    Keys = {1, 2}
    RecordOf <- MCRecordOf
    FuncOf <- MCFuncOf
    KeyUpdates = FALSE
    QuietSetup = TRUE
    MaxVersion = 2
INVARIANTS
    LogIsCurrent
    SetupsDoNotDeadlock
PROPERTIES
    CapturesChanges
    SetupReturns
