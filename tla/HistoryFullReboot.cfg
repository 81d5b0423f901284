SPECIFICATION Spec
CONSTANTS
    MaxPackets = 4
    PerSector = 2
    StopTicks = 2
    ByteMod = 5
    TimerOn = TRUE
    EraseRace = FALSE
    MaxLogs = 5
    MaxFrames = 0
    MaxCrashes = 1
PROPERTIES CleanRebootKeepsTotal
