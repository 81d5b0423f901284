SPECIFICATION Spec
CONSTANTS
    MaxFaults = 1
    MaxPipe = 3
    RebootAfter = 0
    MsgIds = 2
INVARIANTS TypeOK OneSequence Cascade  ResultIsReal 
PROPERTIES Releases
