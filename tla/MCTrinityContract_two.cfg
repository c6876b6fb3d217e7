\* Two channels of the same partners: what one settlement does to the other deposit.
CONSTANTS
    alice = alice
    bob = bob
    c1 = c1
    c2 = c2
    h1 = h1
    NoAddr = NoAddr
    NoHash = NoHash
    Addr = {alice, bob}
    Channels = {c1, c2}
    Hashes = {h1}
    Founder <- MCFounder
    Peer <- MCPeer
    CommonDocs <- TwoCommon
    TxDocs <- TwoTx
    LockDocs <- OneLock
    Periods = {1}
    Approvals = {2}
    Supply <- MCSupply
    MaxBlock = 4
SPECIFICATION Spec
INVARIANTS TypeOK ClosingCovers NothingLeftBehind CountNeverAbove
PROPERTIES LockSpentForever ClosingFrozen OnlyStaleSettleOverpays

CHECK_DEADLOCK FALSE
