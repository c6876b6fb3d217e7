----------------------------- MODULE MCDispute -----------------------------
(* Small instances of Dispute for TLC: a founded the channel with b. *)
EXTENDS Dispute

CONSTANTS a, b, h1

Trade(kind, x, y) ==
    [kind |-> kind, founderBalance |-> x, partnerBalance |-> y, payer |-> a,
     amount |-> 0, time |-> 0, hash |-> NoHash]

LockTrade(kind, x, y, until) ==
    [Trade(kind, x, y) EXCEPT !.amount = 1, !.time = until, !.hash = h1]

\* A lock that has been paid, and a payment.
Mixed == <<Trade("found", 3, 1), LockTrade("htlc", 2, 1, 9), LockTrade("claim", 2, 2, 0),
           Trade("rsmc", 1, 3)>>

\* a locked one token for b, and it was paid off the chain.
Claimed == SubSeq(Mixed, 1, 3)

Close(n) == [do |-> "close", nonce |-> n, debug |-> n # 0]
Unlock == [do |-> "unlock", hash |-> h1]

Asked(ofA, ofB) == [w \in Wallets |-> IF w = a THEN ofA ELSE ofB]

Env(asked, tools, late, fs, max) ==
    [requests |-> asked, ownTools |-> tools, lag |-> late, faults |-> fs, maxFaults |-> max]

\* a closes with any trade, or gives its own nonce to be compared.
StaleClose == Asked({Close(n) : n \in 0 .. 5} \cup {[Close(3) EXCEPT !.debug = FALSE]}, {})

\* Everything at most a block late: a closes; b unlocks, with tools of its
\* own, or closes.  Nothing late: both close.
Timely ==
    {Env(StaleClose, {}, 1, {}, 0),
     Env(Asked({}, {Close(0), Unlock}), {b}, 1, {}, 0),
     Env(Asked({Close(0), Close(1)}, {Close(0), Close(1)}), {}, 0, {}, 0)}

\* Both close, b also with the first trade, b may unlock, however late anything
\* is, with a fault.
Late == {Env(Asked({Close(0)}, {Close(0), Close(1), Unlock}), {b}, 9, {"unsent", "crash"}, 1)}

\* Only a closes.
OneCloses == {Env(StaleClose, {}, 1, {}, 0)}
=============================================================================
