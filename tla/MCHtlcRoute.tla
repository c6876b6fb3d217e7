---------------------------- MODULE MCHtlcRoute ----------------------------
(* A small instance of HtlcRoute for TLC. *)
EXTENDS HtlcRoute

\* Every wallet of the way keeps a fee of one unit.
Fees == [i \in Hops |-> 1 + N - i]

\* Enough to lock the amount and, as the code wants, to own it once more.
Plenty == [i \in Hops |-> [payer |-> 2 * Fees[i], payee |-> Fees[i]]]

Env(founders, fs, max) == [foundedBy |-> founders, faults |-> fs, maxFaults |-> max]

\* Every channel was opened by its payer; the first one by its payee.
ByPayer == [i \in Hops |-> "payer"]
FirstByPayee == [i \in Hops |-> IF i = 1 THEN "payee" ELSE "payer"]

\* Nothing goes wrong, one thing of any kind, two sends.
MCEnvironments ==
    {Env(ByPayer, {}, 0),
     Env(FirstByPayee, {"lost", "unsent", "closed", "onchain"}, 1),
     Env(ByPayer, {"unsent"}, 2)}
=============================================================================
