SPECIFICATION Spec
CONSTANTS
    m1 = m1
    m2 = m2
    Markets = {m1, m2}
    Prices = {1, 3}
    MaxQty = 3
    MaxTrades = 3
    InitialBalance = 10
SYMMETRY Symmetry
INVARIANTS
    TypeOK
    ProfitConserved
PROPERTIES
    FirstInFirstOut
    ImplementsLedger
