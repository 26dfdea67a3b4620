SPECIFICATION FairSpec
CONSTANTS
    None = None
    U16 = 4
    Rows <- MCRows
    TableOrder <- MCTableOrder
    Hash = "hash"
    MaxColumns = 2
CHECK_DEADLOCK FALSE
INVARIANTS
    TypeOK
    CountsAreRight
    TablesAreFound
    ForeignKeysLeadHome
    OrderIsTopological
    EndsAreFound
    RoundTrip
    DamageIsRefused
PROPERTIES
    BuildReturns
