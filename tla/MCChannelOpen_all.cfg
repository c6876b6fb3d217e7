\* Seven environments, liveness included.
CONSTANTS
    a = a
    b = b
    c1 = c1
    c2 = c2
    c3 = c3
    Wallets = {a, b}
    Channels = {c1, c2, c3}
    FounderOf <- MCFounderOf
    PartnerOf <- MCPartnerOf
    Deposit <- MCDeposit
    Environments <- MCEnvironments
SPECIFICATION LiveSpec
INVARIANTS
    OpenedIsFunded
    FundedIsSigned
    AllowanceIsNeeded
PROPERTY AgreedOpens
\* Channels are opened, or given up.
CHECK_DEADLOCK FALSE
