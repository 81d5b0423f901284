SPECIFICATION FairSpec
CONSTANTS
    NRings = 2
    Size = 4
    MaxBurst = 4
    MaxBytes = 6
INVARIANTS TypeOK InOrderOnce NoneLeftBehind
PROPERTIES EveryByteParsed Refinement
