\* reppath on paths of up to two pieces (keywords and letters) at 19:20
\* and 23:50 GPST and at time 0, with rover and base ids empty or of one
\* or two letters; the other kinds on a few instants only.
CONSTANTS
    FRAC = 4
    DEN = 72000
    Epochs <- FewEpochs
    Weeks = {1023, 1024}
    Tows <- FewTows
    Steps <- TimeSteps
    MaxSteps = 3
    MAXLEAPS = 18
    MAXANT = 64
    Files <- TimeFiles
INIT TimeInit
NEXT TimeNext
INVARIANT ReppathAsDocumented
