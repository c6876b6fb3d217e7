\* Two wallets, one after the other.
CONSTANTS
    p = p
    q = q
    NoFile = NoFile
    Torn = Torn
    Paths = {p, q}
    Far = 3
    Recent = 2
    FirstBlock = 4
    MaxBlock = 6
    AnyPath = p
    MaxObjects = 2
    Environments <- Faulty
SPECIFICATION FairSpec
PROPERTIES NodeKnows GatewayKnows CatchesUp QuitEnds
\* quit ends the process.
CHECK_DEADLOCK FALSE
