\* Two events of one channel, one of them timed.
CONSTANTS
    n1 = n1
    n2 = n2
    e1 = e1
    e2 = e2
    e3 = e3
    NoEvent = NoEvent
    Names = {n1}
    Events = {e1, e2}
    NameOf <- MCNameOf
    Timed = {e2}
    EndBlocks = {1, 2}
    MayMove = {"prepare", "execute", "terminate"}
    MayRaise = {"prepare", "execute", "terminate", "error"}
    CoroNumber = 1
    Timeout = 1
    RetryTimeout = 3
    LastRegister = 2
    MaxSkip = 2
    MaxBlock = 8
SPECIFICATION FairSpec
INVARIANTS TypeOK TriggeredIsOrdered FailsLate
PROPERTIES LeavesEnded TimerFires
\* The chain stops at its last block.
CHECK_DEADLOCK FALSE
