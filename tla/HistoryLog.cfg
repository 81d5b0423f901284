SPECIFICATION FairSpec
CONSTANTS
    MaxPackets = 4
    PerSector = 2
    StopTicks = 2
    ByteMod = 5
    TimerOn = TRUE
    EraseRace = FALSE
    MaxLogs = 9
    MaxFrames = 2
    MaxCrashes = 2
INVARIANTS LogExact DamageBounded LogOrder
PROPERTIES RebootKeepsLog SuspensionEnds
