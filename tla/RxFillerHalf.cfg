SPECIFICATION Spec
CONSTANTS
    u = u
    Uarts = {u}
    Length = 4
    LineErrors = FALSE
    MaxBytes = 8
INVARIANTS EveryBurstExact
