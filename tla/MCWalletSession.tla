-------------------------- MODULE MCWalletSession --------------------------
(* Instances of WalletSession for TLC: a wallet file p, and q to be made. *)
EXTENDS WalletSession

CONSTANTS p, q

Env(height, does, fs, max, last, conn) ==
    [files |-> [x \in Paths |-> IF x = p THEN height ELSE NoFile], commands |-> does,
     faults |-> fs, maxFaults |-> max, lastBlock |-> last, connected |-> conn]

\* The connection to the node breaks, or cannot be opened; the gateway starts
\* again; blocks come while wallets change; the node does not answer; the
\* process is killed; the console is locked.
Faulty ==
    {Env(FirstBlock, {"open", "create", "close"}, {"drop", "refuse"}, 2, FirstBlock, {"up", "none"}),
     Env(FirstBlock, {"open", "quit"}, {"drop"}, 2, FirstBlock, {"up"}),
     Env(FirstBlock, {"open", "close", "enable"}, {"gateway"}, 2, FirstBlock, {"up"}),
     Env(2, {"open", "create"}, {}, 0, MaxBlock, {"up"}),
     Env(2, {"open", "create", "quit"}, {"node"}, 1, FirstBlock, {"up"}),
     Env(FirstBlock, {"open", "close"}, {"kill"}, 1, FirstBlock, {"none"}),
     Env(FirstBlock, {"open", "create", "lock"}, {}, 0, FirstBlock, {"up"})}
=============================================================================
