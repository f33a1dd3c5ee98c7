\* One eci2ecef caller making four calls at nearby and distant instants;
\* a Kalman filter of three states, a zero and a non-zero value for x and
\* each P entry; three fields in a 3-byte buffer on and off byte
\* boundaries, every message of up to two bytes, LNAV words of seven data
\* patterns with every flip.
CONSTANTS
    Threads = {th1}
    Times <- SolTimes
    ErpZero = ErpZero
    ErpTable = ErpTable
    Erps = {ErpZero, ErpTable}
    MaxCalls = 4
    N = 3
    XV = {0, 1}
    PV = {0, 1}
    NB = 3
    Pos = {0, 3, 7, 12}
    Lens = {1, 6, 12}
    MaxWrites = 3
    Bytes <- MCBytes
    MaxLen = 2
    Data <- MCData
    Flips <- MCFlips
INIT Init
NEXT Next
INVARIANT TypeOK
INVARIANT ResultNear
PROPERTY MaskedUntouched
PROPERTY FailureKeepsX
INVARIANT SmootherCombines
INVARIANT FieldsReadBack
INVARIANT CrcMatchesPolynomial
INVARIANT DecodeCorrect
INVARIANT SingleErrorDetected
