---------------------------- MODULE MCChannelOpen ----------------------------
(* A small instance of ChannelOpen for TLC: a founds c1 and c3 with b, and b *)
(* founds c2 with a.                                                         *)
EXTENDS ChannelOpen

CONSTANTS a, b, c1, c2, c3

MCFounderOf == [c \in Channels |-> IF c = c2 THEN b ELSE a]
MCPartnerOf == [c \in Channels |-> IF c = c2 THEN a ELSE b]

\* The partner puts in less.
MCDeposit == [c \in Channels |-> [w \in Wallets |-> IF w = MCFounderOf[c] THEN 2 ELSE 1]]

Rich == [w \in Wallets |-> 4]

\* Enough for the deposits of one channel a founds, not of two.
Poor == [w \in Wallets |-> IF w = a THEN 3 ELSE 2]

Env(cs, fs, max) == [opens |-> cs, tokens |-> Rich, faults |-> fs, maxFaults |-> max]

\* Two channels in opposite directions and any fault; two channels of one
\* founder whose events time out, and two of one who owns the deposit of one; a
\* founder who owns less; one channel and any four faults; and what liveness is
\* asked of.
MCEnvironments ==
    {Env({c1, c2}, {"lost", "unsent", "unread", "txfails", "timeout", "crash"}, 1),
     Env({c1, c3}, {"timeout"}, 2),
     [Env({c1, c3}, {"timeout"}, 1) EXCEPT !.tokens = Poor],
     [Env({c1}, {"txfails", "timeout"}, 1) EXCEPT !.tokens = [w \in Wallets |-> 1]],
     Env({c1}, {"lost", "unsent", "unread", "txfails", "timeout", "crash"}, 4),
     Env({c1}, {"txfails", "timeout"}, 1),
     Env({c1, c2}, {"txfails"}, 1)}
=============================================================================
