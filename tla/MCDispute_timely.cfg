\* Wallets that are in time.
CONSTANTS
    a = a
    b = b
    h1 = h1
    Founder = a
    Peer = b
    NoAddr = NoAddr
    NoHash = NoHash
    Ch = Ch
    Hashes = {h1}
    Trades <- Mixed
    Window = 4
    HtlcWindow = 4
    MaxBlock = 12
    LastRequest = 2
    MaxRequests = 1
    Environments <- Timely
SPECIFICATION FairSpec
PROPERTIES PlainNewestWins PaidLockIsPunished CloseEnds
\* The bound on the blocks is reached.
CHECK_DEADLOCK FALSE
