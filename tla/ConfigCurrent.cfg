SPECIFICATION Spec
CONSTANTS
    NBlocks = 4
    InputKinds = {"current"}
    Unsummed = {3}
    TypeConfig = FALSE
    MaxChanges = 1
    MaxResets = 0
    MaxCrashes = 1
PROPERTIES BootKeepsCalibration
CHECK_DEADLOCK FALSE
