\* Four wallets, from no fault to two.
CONSTANTS
    N = 4
    Amount <- Fees
    Free <- Plenty
    Day = 2
    MaxNow = 2
    Environments <- MCEnvironments
SPECIFICATION LiveSpec
INVARIANTS
    Conserved
    ForwardIsCovered
    PaidCanClaim
    IncomingOutlives
PROPERTY PaymentArrives
\* The payment has arrived, or stopped.
CHECK_DEADLOCK FALSE
