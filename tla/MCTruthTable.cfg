SPECIFICATION Spec
CONSTANTS
    Keys <- MCKeys
    Entries <- MCEntries
    None = None
    Interned = {1, 2}
    SymbolOf <- MCSymbolOf
    MaxCancels = 0
INVARIANTS
    TypeOK
    PolledSidesHaveHeads
    StreamsAscend
    ReportsAreTruth
PROPERTIES
    ImplementsAbstract
CHECK_DEADLOCK FALSE
