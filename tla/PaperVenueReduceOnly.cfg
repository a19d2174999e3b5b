SPECIFICATION Spec
CONSTANTS
    t1 = t1
    t2 = t2
    m1 = m1
    m2 = m2
    Threads = {t1, t2}
    Markets = {m1}
    Kinds = {"venue"}
    MaxQty = 1
    MaxTrades = 3
    PartialFills = FALSE
    WriteFaults = FALSE
    ReadFaults = FALSE
    Crashes = FALSE
SYMMETRY Symmetry
PROPERTIES
    ReduceOnlyNeverOpens
