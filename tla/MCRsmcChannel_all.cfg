\* Six environments, from orderly to hostile.
CONSTANTS
    Founder = founder
    Partner = partner
    Deposit <- MCDeposit
    Payments = {1, 2}
    MaxNonce = 5
    Environments <- MCEnvironments
SPECIFICATION Spec
INVARIANTS
    Conserved
    CloserNeverConvicted
    PayeeCanSettle
    AgreeOnConfirmed
    BookIsSigned
PROPERTIES
    ConfirmedStays
\* The bound on the nonces stops the payments.
CHECK_DEADLOCK FALSE
