SPECIFICATION FairSpec
CONSTANTS
    Keys <- MCKeysTables
    Entries <- MCFewEntries
    None = None
    Interned = {1, 2}
    SymbolOf <- MCSymbolOf
    MaxCancels = 1
INVARIANTS
    ReportsAscend
    DoneMeansKnown
PROPERTIES
    CallsReturn
CHECK_DEADLOCK FALSE
