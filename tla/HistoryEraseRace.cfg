SPECIFICATION Spec
CONSTANTS
    MaxPackets = 4
    PerSector = 2
    StopTicks = 2
    ByteMod = 5
    TimerOn = TRUE
    EraseRace = TRUE
    MaxLogs = 4
    MaxFrames = 2
    MaxCrashes = 0
INVARIANTS LogExact
