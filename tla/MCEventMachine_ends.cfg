\* Two channels polled one at a time; the chain answers no execute.
CONSTANTS
    n1 = n1
    n2 = n2
    e1 = e1
    e2 = e2
    e3 = e3
    NoEvent = NoEvent
    Names = {n1, n2}
    Events = {e1, e3}
    NameOf <- MCNameOf
    Timed = {e3}
    EndBlocks = {1, 2}
    MayMove = {"prepare"}
    MayRaise = {}
    CoroNumber = 1
    Timeout = 1
    RetryTimeout = 1
    LastRegister = 1
    MaxSkip = 1
    MaxBlock = 11
SPECIFICATION FairSpec
PROPERTIES EventEnds
\* The chain stops at its last block.
CHECK_DEADLOCK FALSE
