\* However late anything is.
CONSTANTS
    a = a
    b = b
    h1 = h1
    Founder = a
    Peer = b
    NoAddr = NoAddr
    NoHash = NoHash
    Ch = Ch
    Hashes = {h1}
    Trades <- Mixed
    Window = 1
    HtlcWindow = 1
    MaxBlock = 4
    LastRequest = 0
    MaxRequests = 1
    Environments <- Late
SPECIFICATION Spec
PROPERTY HonestCloserKeeps
\* The bound on the blocks is reached.
CHECK_DEADLOCK FALSE
