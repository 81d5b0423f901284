SPECIFICATION Spec
CONSTANTS
    NCells = 3
    SectorCells = 2
    MaxVersion = 3
    MaxFaults = 1
    Modes = {"tcp", "mqtt"}
INVARIANTS TypeOK AcceptedIsWhole LoadedIsAccepted ValuesFollowRecipe
INVARIANTS AckMeansStored FinalMeansAccepted RecordSurvives InstallsWhole
PROPERTY FlagsServed
CHECK_DEADLOCK FALSE
