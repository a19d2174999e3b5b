SPECIFICATION Spec
CONSTANTS
    Assets = {"index"}
    Universe = {"index"}
    FreezeAfter = 2
    RecoverAfter = 2
    Sides = {1}
    Prices = {19}
    KiteBooks <- MCKiteBooks
    KiteCash = 1
    Scopes <- MCScopes
    MaxEvents = 5
CHECK_DEADLOCK FALSE
INVARIANTS
    TypeOK
    LiftMeansAligned
    PaperAgreesWithItself
    OutageFreezeHolds
PROPERTIES
    FreezeEnds
