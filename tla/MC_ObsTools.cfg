\* Two setcodepri calls with priority strings of up to 14 codes; a scan of
\* PRNs -1..MAXSAT+1 for every system and an unknown one; uniqnav and sortobs
\* on nav lists of up to 3 records and obs of up to 4; csmooth on up to 3
\* records; satexclude on every scanned number; testsnr from -5 to 95
\* degrees in steps of 0.5 and 3.5 degrees.  A tracking channel making up
\* to 3 TCP exchanges with requests of 4 or 5 floats, whole reads and
\* writes; a monitoring client receiving 3 datagrams of 3 channels or of a
\* 2-field PVT in order, some lost, duplicated or cut.
CONSTANTS
    MAXFREQ = 7
    NFREQ = 3
    SnrMasks <- MCSnrMasks
    SnrIn = {36, 41, 46}
    MAXCODE = 55
    SysIn <- MCSysIn
    FreqIn = {0, 1, 2, 7, 8}
    PriIn <- MCPriIn
    Opts <- MCOpts
    MaxCalls = 2
    MINPRN <- MCMin
    MAXPRN <- MCMax
    NSAT <- MCNsat
    PrnBound = 222
    DTTOL = 5
    GloSats = {1, 2}
    ReallocMayFail = TRUE
    NoWave = NoWave
    MaxNav = 3
    MaxObs = 4
    EphSats = {1, 2}
    SbsSats = {3, 4}
    ObsSats = {1, 2}
    Tags <- MCTags
    NTX <- MCNTX
    NRX = 4
    MaxExchanges = 3
    ShortIO = FALSE
    Chans = {0, 1, 2}
    NF = 2
    MaxDg = 3
    InOrder = TRUE
SPECIFICATION Spec
INVARIANT CodeRoundTrip
INVARIANT SatnoRoundTrip
INVARIANT SatIdRoundTrip
PROPERTY CodePriRefines
PROPERTY UniqnavSortsAndKeeps
PROPERTY SortobsResult
INVARIANT LamAgrees
INVARIANT CsmoothUnbiased
PROPERTY SnrRisingPasses
INVARIANT ChannelShowsLatest
INVARIANT ValuesNeverTorn
INVARIANT TimeTypeOK
INVARIANT EpochRoundTrip
INVARIANT RoundTrip
INVARIANT TimeStrFaithful
INVARIANT DayPartsAgree
INVARIANT AdjWeekNearest
INVARIANT ErpMatchesTable
INVARIANT DmsReadsBack
INVARIANT Str2timeReadsEpoch
INVARIANT ReppathsCovers
INVARIANT ExpathGlobs
INVARIANT PcvAsQueried
INVARIANT CrossoverNearest
