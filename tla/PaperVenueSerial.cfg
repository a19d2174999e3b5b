SPECIFICATION Spec
CONSTANTS
    t1 = t1
    t2 = t2
    m1 = m1
    m2 = m2
    Threads = {t1}
    Markets = {m1, m2}
    Kinds = {"venue", "paper", "full", "mark"}
    MaxQty = 3
    MaxTrades = 3
    PartialFills = TRUE
    WriteFaults = TRUE
    ReadFaults = FALSE
    Crashes = TRUE
SYMMETRY Symmetry
INVARIANTS
    FilledStaysBooked
PROPERTIES
    ReduceOnlyNeverOpens
    ImplementsLedger
