SPECIFICATION Spec
CONSTANTS
    None = None
    Servers = {s1, s2}
    Tables = {1, 2}
    Late = {2}
    Keyed = {1}
    Keys = {1, 2}
    RecordOf <- MCRecordOf
    FuncOf <- MCFuncOf
    KeyUpdates = TRUE
    QuietSetup = FALSE
    MaxVersion = 3
SYMMETRY MCSymmetry
INVARIANTS
    TypeOK
PROPERTIES
    VersionsNeverGoBack
