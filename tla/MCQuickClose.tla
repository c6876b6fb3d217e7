---------------------------- MODULE MCQuickClose ----------------------------
(* A small instance of QuickClose for TLC: a founded the channel with b. *)
EXTENDS QuickClose

CONSTANTS a, b

Env(calm, cs, ps, fs, max) ==
    [calm |-> calm, closes |-> cs, pays |-> ps, faults |-> fs, maxFaults |-> max]

\* Two closings and a payment between them, and four faults; payments while the
\* channel is being closed; one closing, a payment and a transaction that fails.
MCEnvironments ==
    {Env(TRUE, 2, 1, {"lost", "unsent", "timeout", "txfails", "crash"}, 4),
     Env(FALSE, 2, 2, {"lost", "unsent", "timeout"}, 2),
     Env(FALSE, 1, 1, {"txfails"}, 1)}
=============================================================================
