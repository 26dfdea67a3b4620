SPECIFICATION FairSpec
CONSTANTS
    None = None
    Handles = {h1, h2}
    Names = {"a", "b"}
    Keys = {k1, k2}
    Shapes <- MCShapes
    Served <- MCServed
    Active = {"a"}
    MaxChanges = 2
INVARIANTS
    TypeOK
    HashIsHonest
    RowsAreLogged
    ExportsAreReady
    FileMatchesUsers
    RowsSurvive
PROPERTIES
    ImplementsSyncLog
    SidecarsGoWithFile
    CallsReturn
