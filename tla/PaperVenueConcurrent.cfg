SPECIFICATION Spec
CONSTANTS
    t1 = t1
    t2 = t2
    m1 = m1
    m2 = m2
    Threads = {t1, t2}
    Markets = {m1}
    Kinds = {"venue", "paper", "full", "mark"}
    MaxQty = 2
    MaxTrades = 3
    PartialFills = TRUE
    WriteFaults = TRUE
    ReadFaults = TRUE
    Crashes = TRUE
SYMMETRY Symmetry
INVARIANTS
    TypeOK
    NeverHedged
    Provenance
    ExposureExplained
