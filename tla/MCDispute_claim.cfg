\* The newest trade paid out a lock.
CONSTANTS
    a = a
    b = b
    h1 = h1
    Founder = a
    Peer = b
    NoAddr = NoAddr
    NoHash = NoHash
    Ch = Ch
    Hashes = {h1}
    Trades <- Claimed
    Window = 4
    HtlcWindow = 3
    MaxBlock = 10
    LastRequest = 2
    MaxRequests = 1
    Environments <- OneCloses
SPECIFICATION Spec
PROPERTY NewestWins
\* The bound on the blocks is reached.
CHECK_DEADLOCK FALSE
