SPECIFICATION Spec
CONSTANTS
    MaxFaults = 1
    MaxPipe = 3
    RebootAfter = 3600
    MsgIds = 2
INVARIANTS ConnectedMeansAccepted
