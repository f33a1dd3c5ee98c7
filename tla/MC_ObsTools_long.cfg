\* setcodepri handed priority strings of 15 and 16 codes, which it accepts.
CONSTANTS
    MAXFREQ = 7
    NFREQ = 3
    SnrMasks <- MCSnrMasks
    SnrIn = {36, 41, 46}
    MAXCODE = 55
    SysIn <- MCSysIn
    FreqIn = {0, 1, 2, 7, 8}
    PriIn <- MCPriInLong
    Opts <- MCOpts
    MaxCalls = 2
    MINPRN <- MCMin
    MAXPRN <- MCMax
    NSAT <- MCNsat
    PrnBound = 222
    DTTOL = 5
    GloSats = {1, 2}
    ReallocMayFail = TRUE
    NoWave = NoWave
    MaxNav = 3
    MaxObs = 4
    EphSats = {1, 2}
    SbsSats = {3, 4}
    ObsSats = {1, 2}
    Tags <- MCTags
    NTX <- MCNTX
    NRX = 4
    MaxExchanges = 1
    ShortIO = FALSE
    Chans = {0, 1}
    NF = 2
    MaxDg = 1
    InOrder = TRUE
INIT Init
NEXT Next
PROPERTY CodePriRefines
