\* A tracking channel over a TCP connection on which write_some and
\* read_some may move part of a buffer.  The run stops at a call blocked
\* for good in read_some (its request was cut), so deadlock is not checked.
CONSTANTS
    NTX <- MCNTXShort
    NRX = 4
    MaxExchanges = 2
    ShortIO = TRUE
    Chans = {0, 1}
    NF = 2
    MaxDg = 2
    InOrder = TRUE
SPECIFICATION Spec
INVARIANT ResultFresh
CHECK_DEADLOCK FALSE
