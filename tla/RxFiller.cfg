SPECIFICATION Spec
CONSTANTS
    u1 = u1
    u2 = u2
    Uarts = {u1, u2}
    Length = 4
    LineErrors = TRUE
    MaxBytes = 9
INVARIANTS AlignedBurstExact InsideHasCause
CHECK_DEADLOCK FALSE
