\* Two threads of a wallet with two channels.
CONSTANTS
    console = console
    handler = handler
    c1 = c1
    c2 = c2
    r1 = r1
    r2 = r2
    None = None
    Threads = {console, handler}
    Channels = {c1, c2}
    Rows = {r1, r2}
    MaxNonce = 2
SPECIFICATION Spec
INVARIANT TypeOK
PROPERTY Implements
SYMMETRY Alike
\* The next nonce is out of the bound, or every trade was deleted.
CHECK_DEADLOCK FALSE
