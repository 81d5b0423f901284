SPECIFICATION FairSpec
CONSTANTS
    NItems = 2
    PeerItems = {1}
    RebootItems = {1}
    BootItems = {1}
    ZeroItems = {2}
    SetDelays = {2}
    InitDelay = 3
    Period = 2
    RetryMark = 4
    CounterMod = 5
    MaxHeld = 1
    MaxSets = 2
    MaxRefusals = 1
    MaxReboots = 1
INVARIANTS TypeOK NoLostRequest PendingSoon LapseOnlyAfterRefusal
PROPERTIES EventuallySaved GeneralSavedAgain
