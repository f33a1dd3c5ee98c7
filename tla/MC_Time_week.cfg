\* The calendar and week callers over 1970..2099, with time2gpst's int
\* product w * 604800 overflowing from week 3551.
CONSTANTS
    FRAC = 4
    DEN = 72000
    Epochs <- TimeEpochs
    Weeks = {0, 1, 1023, 2047}
    Tows <- TimeTows
    Steps <- TimeSteps
    MaxSteps = 3
    MAXLEAPS = 18
    MAXANT = 64
    Files <- TimeFiles
INIT TimeInit
NEXT TimeNext
INVARIANT WeekRoundTrip
