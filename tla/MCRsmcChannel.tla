---------------------------- MODULE MCRsmcChannel ----------------------------
(* A small instance of RsmcChannel for TLC. *)
EXTENDS RsmcChannel

\* Two units each: room for several payments in both directions.
MCDeposit == [w \in Wallets |-> 2]

Env(patient, amounts, fs, max, last) ==
    [patient |-> patient, payments |-> amounts, faults |-> fs,
     maxFaults |-> max, lastNonce |-> last]

\* Payments one after the other, three messages lost, or four lost or not sent;
\* payments of any amount at any time; payments at any time, messages lost and
\* the gateway out of reach; any two faults, at any time and with patient users.
MCEnvironments ==
    {Env(TRUE, {1, 2}, {"lost"}, 3, 5),
     Env(TRUE, {1, 2}, {"lost", "unsent"}, 4, 4),
     Env(FALSE, {1, 2}, {}, 0, 4),
     Env(FALSE, {1}, {"lost", "unsent"}, 2, 4),
     Env(FALSE, {1}, {"lost", "reordered", "unsent", "crash"}, 2, 3),
     Env(TRUE, {1}, {"lost", "reordered", "unsent", "crash"}, 2, 4)}
=============================================================================
