\* gpst2time/gst2time/bdt2time handed a negative seconds of week.
CONSTANTS
    FRAC = 4
    DEN = 72000
    Epochs <- TimeEpochs
    Weeks = {0, 1, 1023, 2047}
    Tows <- TimeTowsNeg
    Steps <- TimeSteps
    MaxSteps = 3
    MAXLEAPS = 18
    MAXANT = 64
    Files <- TimeFiles
INIT TimeInit
NEXT TimeNext
INVARIANT Normalized
