\* Three environments, liveness included.
CONSTANTS
    a = a
    b = b
    Founder = a
    Partner = b
    Total = 2
    Deposit = 1
    Environments <- MCEnvironments
SPECIFICATION LiveSpec
INVARIANTS
    PaidIsAgreed
PROPERTY AgreedCloses
\* Channels are closed, or given up.
CHECK_DEADLOCK FALSE
