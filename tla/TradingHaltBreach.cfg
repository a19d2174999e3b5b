SPECIFICATION Spec
CONSTANTS
    MaxDate = 1
INVARIANTS
    BreachHalts
