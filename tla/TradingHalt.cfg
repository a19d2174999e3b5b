SPECIFICATION Spec
CONSTANTS
    MaxDate = 2
INVARIANTS
    TypeOK
    ScanNeedsInput
    FirstBreachStopsScan
PROPERTIES
    HaltStandsAllDay
    
    AwaitIsLifted
