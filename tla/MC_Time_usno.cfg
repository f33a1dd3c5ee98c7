\* utc2gpst after a USNO leap-second file was loaded.
CONSTANTS
    FRAC = 4
    DEN = 72000
    Epochs <- TimeEpochs
    Weeks = {0, 1, 1023, 2047}
    Tows <- TimeTows
    Steps <- TimeSteps
    MaxSteps = 3
    MAXLEAPS = 18
    MAXANT = 64
    Files <- TimeFiles
INIT TimeInit
NEXT TimeNext
INVARIANT OffsetAsStated
