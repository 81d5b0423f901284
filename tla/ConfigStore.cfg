SPECIFICATION Spec
CONSTANTS
    NBlocks = 4
    InputKinds = {"voltage", "current"}
    Unsummed = {3}
    TypeConfig = TRUE
    MaxChanges = 2
    MaxResets = 1
    MaxCrashes = 3
INVARIANTS TypeOK CalibrationBackedUp OthersUntouched BootRepairs CopiesAgree
PROPERTIES BootKeepsInputs
CHECK_DEADLOCK FALSE
