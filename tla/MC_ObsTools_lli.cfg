\* The obs_tools inputs, csmooth among them on up to 3 records with LLI
\* flags and zero code or carrier values, checked against arcs that restart
\* at every loss of lock.
CONSTANTS
    MAXFREQ = 7
    NFREQ = 3
    SnrMasks <- MCSnrMasks
    SnrIn = {36, 41, 46}
    MAXCODE = 55
    SysIn <- MCSysIn
    FreqIn = {0, 1, 2, 7, 8}
    PriIn <- MCPriIn
    Opts <- MCOpts
    MaxCalls = 2
    MINPRN <- MCMin
    MAXPRN <- MCMax
    NSAT <- MCNsat
    PrnBound = 222
    DTTOL = 5
    GloSats = {1, 2}
    ReallocMayFail = TRUE
    NoWave = NoWave
    MaxNav = 3
    MaxObs = 4
    EphSats = {1, 2}
    SbsSats = {3, 4}
    ObsSats = {1, 2}
    Tags <- MCTags
    NTX <- MCNTX
    NRX = 4
    MaxExchanges = 3
    ShortIO = FALSE
    Chans = {0, 1, 2}
    NF = 2
    MaxDg = 3
    InOrder = TRUE
SPECIFICATION Spec
INVARIANT CsmoothWarmup
