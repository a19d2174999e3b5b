SPECIFICATION Spec
CONSTANTS
    Kinds = {"option", "long", "short"}
    Entry = 1000
    Rupee = 10
    Quantity = 3
    Gains <- MCGains
    Atrs = {40, 50}
    Adverse = {0, 5}
    ThesisQuarters = 5
    UnderlyingAtr = 160
    MaxBars = 2
    RawMove <- MCRawMove
    MaxLoss = 600
    MaxFailures = 2
CHECK_DEADLOCK FALSE
INVARIANTS
    TypeOK
    WinnerHeldAboveFloor
    BreakevenAfterTarget
PROPERTIES
    StopNeverLoosens
    ShownFloorIsEnforced
    SquaredOff
