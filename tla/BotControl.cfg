SPECIFICATION Spec
CONSTANTS
    MaxCommands = 3
    Orders <- MCOrders
    Outsiders = {t1}
    MaxLoops = 3
    MaxInputs = 3
    None = None
CHECK_DEADLOCK FALSE
INVARIANTS
    TypeOK
    CommandsAccounted
    LoopsAccounted
PROPERTIES
    EmergencyFirst
    AcceptedRuns
    StopTakesHold
