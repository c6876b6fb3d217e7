----------------------------- MODULE HtlcRoute -----------------------------
(***************************************************************************)
(* One payment over a route of wallets 1 .. N: the Htlc and HtlcSign       *)
(* messages that lock the amount hop by hop, the RResponse that carries    *)
(* the secret back (wallet/transaction/htlc.py), the Rsmc messages that    *)
(* turn each lock into a payment (wallet/transaction/rsmc.py), and the way *)
(* the secret takes when a hop is unlocked on the chain instead            *)
(* (ChannelPunishHtlcUnlockEvent, Channel.force_release_htlc).             *)
(*                                                                         *)
(* Hop i is the channel between wallet i, its payer, and wallet i + 1, its *)
(* payee.  Each of these two sides keeps its own state of the channel, its *)
(* own book and its own rows.  Every wallet handles messages one at a      *)
(* time, in the order they come.                                           *)
(*                                                                         *)
(* One payment is one hash: a channel sees one HTLC trade and the RSMC     *)
(* trades under its hash.  Nonces and resigning, which need another        *)
(* payment in the same channel, are left to RsmcChannel.                   *)
(***************************************************************************)
EXTENDS Integers, Sequences

CONSTANTS
    N,           \* the wallets of the route are 1 .. N
    Amount,      \* Amount[i]: what hop i pays, the fees taken off on the way
    Free,        \* Free[i]: what each side of hop i can spend at first
    Day,         \* HtlcMessage._block_per_day
    MaxNow,      \* bound: the last block of a behaviour
    Environments \* the routes, and what goes wrong on them

Hops == 1 .. N - 1
Sides == {"payer", "payee"}

\* foundedBy[i]: the side that opened the channel of hop i; faults: what goes
\* wrong ("onchain" is an unlock on the chain), at most maxFaults times.
Environment ==
    [foundedBy : [Hops -> Sides],
     faults : SUBSET {"lost", "unsent", "closed", "onchain"}, maxFaults : Nat]

ASSUME RouteAssumption ==
    /\ N \in Nat /\ N > 2
    /\ Amount \in [Hops -> Nat \ {0}]
    /\ \A i \in Hops \ {1} : Amount[i] <= Amount[i - 1]
    /\ Free \in [Hops -> [Sides -> Nat]]
    /\ Day \in Nat \ {0} /\ MaxNow \in Nat
    /\ Environments \subseteq Environment

VARIABLES
    now,      \* the block count
    chan,     \* chan[i][s]: the state of the channel in the table of side s
    book,     \* book[i][s]: free balances, and what the payer has locked
    htlc,     \* htlc[i][s]: the HTLC trade in the table of side s
    rsmc,     \* rsmc[i][s][f]: the RSMC trade under the hash in which f pays
    net,      \* net[w]: the messages on their way to wallet w
    claimed,  \* claimed[i]: who has unlocked hop i on the chain
    notice,   \* notice[i]: whether the other side's monitor must still hear of it
    faults,   \* how many faults have happened
    env       \* the environment of this behaviour, fixed by Init

tables == <<chan, book, htlc, rsmc>>
chain == <<now, claimed, notice>>
system == <<tables, net, chain, faults>>
vars == <<system, env>>

Opp(s) == IF s = "payer" THEN "payee" ELSE "payer"

WalletAt(i, s) == IF s = "payer" THEN i ELSE i + 1

Balances == [Sides -> Int]

NoTrade == [state |-> "none"]

\* next is the field channel: the hop the secret, or the lock, goes on to.
HtlcTrade ==
    [state : {"init", "confirming", "confirmed"}, signed : BOOLEAN, rcode : BOOLEAN,
     delay : Nat, next : 0 .. N - 1]

\* bal, delay and good only matter to some kinds; good: a signature is over
\* the secret, not over the default hash and rcode.
Message ==
    [kind : {"Htlc", "HtlcSign0", "HtlcSign1", "RResponse", "Rsmc", "Sign0", "Sign1"},
     hop : Hops, to : Sides, bal : Balances, delay : Nat, good : BOOLEAN]

TypeOK ==
    /\ now \in 0 .. MaxNow
    /\ chan \in [Hops -> [Sides -> {"OPENED", "SETTLED"}]]
    /\ book \in [Hops -> [Sides -> [free : Balances, lock : Int]]]
    /\ htlc \in [Hops -> [Sides -> HtlcTrade \cup {NoTrade}]]
    /\ rsmc \in [Hops -> [Sides -> [Sides -> {"none", "init", "confirming", "confirmed"}]]]
    /\ net \in [1 .. N -> Seq(Message)]
    /\ claimed \in [Hops -> Sides \cup {"nobody"}]
    /\ notice \in [Hops -> BOOLEAN]
    /\ env \in Environments
    /\ faults \in 0 .. env.maxFaults

Init ==
    /\ now = 0
    /\ chan = [i \in Hops |-> [s \in Sides |-> "OPENED"]]
    /\ book = [i \in Hops |-> [s \in Sides |-> [free |-> Free[i], lock |-> 0]]]
    /\ htlc = [i \in Hops |-> [s \in Sides |-> NoTrade]]
    /\ rsmc = [i \in Hops |-> [s \in Sides |-> [f \in Sides |-> "none"]]]
    /\ net = [w \in 1 .. N |-> <<>>]
    /\ claimed = [i \in Hops |-> "nobody"]
    /\ notice = [i \in Hops |-> FALSE]
    /\ faults = 0
    /\ env \in Environments

-----------------------------------------------------------------------------
(* Balances (calculate_balance_after_payment, check_balance and            *)
(* update_balance_for_channel in wallet/transaction/message.py).           *)

\* The payment is compared with the free balance, for a lock and for the
\* payment that spends a lock alike.
CanPay(b, s, p) == p <= b.free[s]

Locked(b, p) == [free |-> [b.free EXCEPT !["payer"] = @ - p], lock |-> b.lock + p]

\* Mutant of Unlocked: the payee is paid, the lock stays.
UnlockedTwice(b, p) == [free |-> [b.free EXCEPT !["payee"] = @ + p], lock |-> b.lock]

Unlocked(b, p) == [free |-> [b.free EXCEPT !["payee"] = @ + p], lock |-> b.lock - p]

\* The balances of a payment of a lock, whichever side pays.
Paying(b, from, p) == [b.free EXCEPT ![Opp(from)] = @ + p]

\* What update_balance_for_channel writes for it: nothing when the payer of
\* this payment has not locked that much.
Paid(b, from, p) == IF from = "payer" /\ b.lock >= p THEN Unlocked(b, p) ELSE b

\* Mutant of Delay: the wallets passed are not taken off the router.
DelayUncut(i) == now + Day * (N - 1)

\* get_unlocked_block_height, for a router that starts with wallet i.
Delay(i) == now + Day * (N - i)

-----------------------------------------------------------------------------
(* Messages.                                                               *)

Msg(kind, i, to) ==
    [kind |-> kind, hop |-> i, to |-> to, bal |-> [s \in Sides |-> 0], delay |-> 0, good |-> FALSE]

\* Wallet w takes its next message.
Takes(w, kind) == net[w] # <<>> /\ Head(net[w]).kind = kind

\* What is on its way once w has taken its message.
Rest(w) == [net EXCEPT ![w] = Tail(@)]

\* m is sent, if at all, and added to the list of the wallet it is for.
SentIf(happens, boxes, m) ==
    IF happens THEN [boxes EXCEPT ![WalletAt(m.hop, m.to)] = Append(@, m)] ELSE boxes

Fault(kind, happens) ==
    /\ happens => kind \in env.faults /\ faults < env.maxFaults
    /\ faults' = faults + IF happens THEN 1 ELSE 0

Opened(i, s) == chan[i][s] = "OPENED"

\* HtlcMessage.create raises before it sends unless this holds.
CanCreate(i) == Opened(i, "payer") /\ CanPay(book[i]["payer"], "payer", Amount[i])

HtlcRequest(i) ==
    [Msg("Htlc", i, "payee") EXCEPT !.bal = Locked(book[i]["payer"], Amount[i]).free,
                                    !.delay = Delay(i)]

\* The row HtlcMessage.create adds.
Created(i, from) ==
    [state |-> "init", signed |-> FALSE, rcode |-> FALSE, delay |-> Delay(i), next |-> from]

\* The console of wallet 1 (Channel.transfer); bound: once.
Transfer ==
    /\ htlc[1]["payer"] = NoTrade
    /\ CanCreate(1)
    /\ net' = SentIf(TRUE, net, HtlcRequest(1))
    /\ htlc' = [htlc EXCEPT ![1]["payer"] = Created(1, 0)]
    /\ UNCHANGED <<chan, book, rsmc, chain, faults>>

-----------------------------------------------------------------------------
(* Locking a hop.                                                          *)

\* Mutant of Signed: the peer's signatures are checked and not saved.
SignedUnsaved(row) == [row EXCEPT !.state = "confirming"]

\* The update of a trade the peer has signed.
Signed(row) == [row EXCEPT !.state = "confirming", !.signed = TRUE]

Agrees(i, s, bal) ==
    /\ Opened(i, s)
    /\ CanPay(book[i][s], "payer", Amount[i])
    /\ bal = Locked(book[i][s], Amount[i]).free

\* HtlcMessage.handle: the answer leaves before the row is written.
HandleHtlc(w, unsent) ==
    LET m == Head(net[w])
        ok == Agrees(m.hop, "payee", m.bal) IN
    /\ Takes(w, "Htlc")
    /\ net' = SentIf(ok /\ ~unsent, Rest(w), [m EXCEPT !.kind = "HtlcSign0", !.to = "payer"])
    /\ htlc' = IF ok /\ ~unsent
               THEN [htlc EXCEPT ![m.hop]["payee"] =
                       [state |-> "confirming", signed |-> FALSE, rcode |-> FALSE,
                        delay |-> m.delay, next |-> m.hop]]
               ELSE htlc
    /\ Fault("unsent", unsent)
    /\ UNCHANGED <<chan, book, rsmc, chain>>

\* handle_partner_response: the trade is written before the answer leaves,
\* the book after it.
HandleHtlcSign0(w, unsent) ==
    LET m == Head(net[w])
        i == m.hop
        ok == Agrees(i, "payer", m.bal) /\ htlc[i]["payer"] # NoTrade IN
    /\ Takes(w, "HtlcSign0")
    /\ htlc' = IF ok THEN [htlc EXCEPT ![i]["payer"] = Signed(@)] ELSE htlc
    /\ net' = SentIf(ok /\ ~unsent, Rest(w), [m EXCEPT !.kind = "HtlcSign1", !.to = "payee"])
    /\ book' = IF ok /\ ~unsent THEN [book EXCEPT ![i]["payer"] = Locked(@, Amount[i])] ELSE book
    /\ Fault("unsent", unsent)
    /\ UNCHANGED <<chan, rsmc, chain>>

\* handle_founder_response and trigger_htlc_to_next_jump: the lock is written,
\* then the payment goes on, or the last wallet answers with the secret.
HandleHtlcSign1(w, unsent) ==
    LET m == Head(net[w])
        i == m.hop
        ok == Opened(i, "payee") /\ htlc[i]["payee"] # NoTrade
        last == w = N
        goesOn == ok /\ ~unsent /\ (last \/ CanCreate(w))
        signed == [htlc EXCEPT ![i]["payee"] = Signed(@)] IN
    /\ Takes(w, "HtlcSign1")
    /\ book' = IF ok THEN [book EXCEPT ![i]["payee"] = Locked(@, Amount[i])] ELSE book
    /\ net' = SentIf(goesOn, Rest(w), IF last THEN Msg("RResponse", i, "payer") ELSE HtlcRequest(w))
    /\ htlc' = IF ~ok THEN htlc
               ELSE IF ~goesOn THEN signed
               ELSE IF last THEN [signed EXCEPT ![i]["payee"].rcode = TRUE]
               ELSE [signed EXCEPT ![w]["payer"] = Created(w, i), ![i]["payee"].next = w]
    /\ Fault("unsent", unsent)
    /\ UNCHANGED <<chan, rsmc, chain>>

-----------------------------------------------------------------------------
(* The way back.                                                           *)

\* The side a wallet has on the hop next to hop i, of which it is side s.
NextSide(s) == Opp(s)

\* RResponse.handle: the secret is stored and acknowledged, then the lock is
\* paid, then the previous wallet is told.  Each of the three sends may fail;
\* a failed acknowledgement ends the handler, the others are swallowed.
HandleRResponse(w, unsent) ==
    LET m == Head(net[w])
        i == m.hop
        s == m.to
        row == htlc[i][s]
        ok == Opened(i, s) /\ row # NoTrade
        pays == ok /\ unsent \notin {"ack", "pay"} /\ CanPay(book[i][s], s, Amount[i])
        tells == ok /\ unsent # "ack" /\ row.next \notin {0, i}
        stored == [htlc EXCEPT ![i][s].rcode = TRUE]
        pay == [Msg("Rsmc", i, Opp(s)) EXCEPT !.bal = Paying(book[i][s], s, Amount[i])]
        tell == Msg("RResponse", row.next, s) IN
    /\ Takes(w, "RResponse")
    /\ net' = SentIf(tells /\ unsent # "notify", SentIf(pays, Rest(w), pay), tell)
    /\ htlc' = IF ~ok THEN htlc
               ELSE IF ~tells THEN stored
               ELSE [stored EXCEPT ![row.next][NextSide(s)].rcode = TRUE]
    /\ rsmc' = IF pays /\ rsmc[i][s][s] = "none" THEN [rsmc EXCEPT ![i][s][s] = "init"] ELSE rsmc
    /\ Fault("unsent", unsent # "no")
    /\ UNCHANGED <<chan, book, chain>>

\* Side s of hop i takes part in a payment of the lock by side f.
AgreesToPay(i, s, f, bal) ==
    /\ Opened(i, s)
    /\ CanPay(book[i][s], f, Amount[i])
    /\ bal = Paying(book[i][s], f, Amount[i])

\* RsmcMessage.handle under a hash: the payee signs with the rcode of its own
\* HTLC row (get_rcode).
HandleRsmc(w, unsent) ==
    LET m == Head(net[w])
        i == m.hop
        s == m.to
        ok == AgreesToPay(i, s, Opp(s), m.bal) /\ htlc[i][s] # NoTrade /\ ~unsent IN
    /\ Takes(w, "Rsmc")
    /\ net' = SentIf(ok, Rest(w),
                     [m EXCEPT !.kind = "Sign0", !.to = Opp(s), !.good = htlc[i][s].rcode])
    /\ rsmc' = IF ok THEN [rsmc EXCEPT ![i][s][Opp(s)] = "confirming"] ELSE rsmc
    /\ Fault("unsent", unsent)
    /\ UNCHANGED <<chan, book, htlc, chain>>

\* confirm_payment
Confirmed(i, s) == htlc' = [htlc EXCEPT ![i][s].state = "confirmed"]

\* RsmcSign, payer's side: refused unless signed over the secret.
HandleSign0(w, unsent) ==
    LET m == Head(net[w])
        i == m.hop
        s == m.to
        ok == AgreesToPay(i, s, s, m.bal) /\ m.good IN
    /\ Takes(w, "Sign0")
    /\ rsmc' = IF ok THEN [rsmc EXCEPT ![i][s][s] = "confirmed"] ELSE rsmc
    /\ net' = SentIf(ok /\ ~unsent, Rest(w), [m EXCEPT !.kind = "Sign1", !.to = Opp(s)])
    /\ IF ok /\ ~unsent
       THEN /\ Confirmed(i, s)
            /\ book' = [book EXCEPT ![i][s] = Paid(@, s, Amount[i])]
       ELSE UNCHANGED <<htlc, book>>
    /\ Fault("unsent", unsent)
    /\ UNCHANGED <<chan, chain>>

\* RsmcSign, payee's side.
HandleSign1(w) ==
    LET m == Head(net[w])
        i == m.hop
        s == m.to IN
    /\ Takes(w, "Sign1")
    /\ net' = Rest(w)
    /\ IF Opened(i, s)
       THEN /\ rsmc' = [rsmc EXCEPT ![i][s][Opp(s)] = "confirmed"]
            /\ Confirmed(i, s)
            /\ book' = [book EXCEPT ![i][s] = Paid(@, Opp(s), Amount[i])]
       ELSE UNCHANGED <<rsmc, htlc, book>>
    /\ UNCHANGED <<chan, chain, faults>>

-----------------------------------------------------------------------------
(* On the chain.                                                           *)

\* What its tables tell wallet w of the secret; the last wallet made it.
Knows(w) ==
    \/ w = N
    \/ w \in Hops /\ htlc[w]["payer"] # NoTrade /\ htlc[w]["payer"].rcode
    \/ w - 1 \in Hops /\ htlc[w - 1]["payee"] # NoTrade /\ htlc[w - 1]["payee"].rcode

\* ChannelHtlcUnlockEvent and withdraw: the payee with the secret until the
\* lock expires, the payer from then on, with both signatures of the lock.
Unlock(i, s) ==
    /\ claimed[i] = "nobody"
    /\ htlc[i][s] # NoTrade /\ htlc[i][s].signed
    /\ IF s = "payee" THEN Knows(i + 1) /\ now < htlc[i][s].delay ELSE now >= htlc[i][s].delay
    /\ claimed' = [claimed EXCEPT ![i] = s]
    /\ notice' = [notice EXCEPT ![i] = TRUE]
    /\ Fault("onchain", TRUE)
    /\ UNCHANGED <<tables, net, now>>

\* Mutant of Notified: the secret read from the chain is thrown away.
NotifiedUnstored(i) ==
    /\ notice[i]
    /\ notice' = [notice EXCEPT ![i] = FALSE]
    /\ chan' = [chan EXCEPT ![i][Opp(claimed[i])] = "SETTLED"]
    /\ UNCHANGED <<book, htlc, rsmc, net, now, claimed, faults>>

\* monitorWithdraw at the other side, and its event: a lock already paid is
\* punished; otherwise the secret, if there is one, is stored, and told on the
\* channel of the row: to the wallet that opened it.
Notified(i) ==
    LET s == Opp(claimed[i])
        row == htlc[i][s]
        punishes == \E f \in Sides : rsmc[i][s][f] = "confirmed"
        learns == claimed[i] = "payee" /\ ~punishes
        tells == learns /\ row.next # 0 IN
    /\ notice[i]
    /\ notice' = [notice EXCEPT ![i] = FALSE]
    /\ htlc' = IF learns THEN [htlc EXCEPT ![i][s].rcode = TRUE] ELSE htlc
    /\ net' = SentIf(tells, net, Msg("RResponse", row.next, env.foundedBy[row.next]))
    /\ chan' = IF learns \/ punishes THEN [chan EXCEPT ![i][s] = "SETTLED"] ELSE chan
    /\ UNCHANGED <<book, rsmc, now, claimed, faults>>

\* ChannelSettleHtlcUnlockEvent at the side that unlocked; its timer is left
\* out: it may run at any block.
Settled(i) ==
    /\ claimed[i] # "nobody"
    /\ Opened(i, claimed[i])
    /\ chan' = [chan EXCEPT ![i][claimed[i]] = "SETTLED"]
    /\ UNCHANGED <<book, htlc, rsmc, net, chain, faults>>

-----------------------------------------------------------------------------
(* What else happens.                                                      *)

Lose(w) ==
    /\ net[w] # <<>>
    /\ net' = Rest(w)
    /\ Fault("lost", TRUE)
    /\ UNCHANGED <<tables, chain>>

\* Somebody closes the channel of hop i, and side s hears of it.
Closed(i, s) ==
    /\ Opened(i, s)
    /\ chan' = [chan EXCEPT ![i][s] = "SETTLED"]
    /\ Fault("closed", TRUE)
    /\ UNCHANGED <<book, htlc, rsmc, net, chain>>

Tick ==
    /\ now < MaxNow
    /\ now' = now + 1
    /\ UNCHANGED <<tables, net, claimed, notice, faults>>

\* _handlemessage, nothing going wrong.
Handle(w) ==
    \/ HandleHtlc(w, FALSE) \/ HandleHtlcSign0(w, FALSE) \/ HandleHtlcSign1(w, FALSE)
    \/ HandleRResponse(w, "no")
    \/ HandleRsmc(w, FALSE) \/ HandleSign0(w, FALSE) \/ HandleSign1(w)

Unsent(w) ==
    \/ HandleHtlc(w, TRUE) \/ HandleHtlcSign0(w, TRUE) \/ HandleHtlcSign1(w, TRUE)
    \/ \E which \in {"ack", "pay", "notify"} : HandleRResponse(w, which)
    \/ HandleRsmc(w, TRUE) \/ HandleSign0(w, TRUE)

Next ==
    /\ UNCHANGED env
    /\ \/ Transfer \/ Tick
       \/ \E w \in 1 .. N : Handle(w) \/ Unsent(w) \/ Lose(w)
       \/ \E i \in Hops :
             Notified(i) \/ Settled(i) \/ \E s \in Sides : Unlock(i, s) \/ Closed(i, s)

Spec == Init /\ [][Next]_vars

\* The message threads never stop, the event machine runs what it is told,
\* and the user pays.
Fairness ==
    /\ WF_system(Transfer)
    /\ \A w \in 1 .. N : WF_system(Handle(w))
    /\ \A i \in Hops : WF_system(Notified(i))

LiveSpec == Spec /\ Fairness

-----------------------------------------------------------------------------
(* Correctness.                                                            *)

\* Every book keeps what the channel started with, none of it negative: no
\* message, in whatever order the wallets handle theirs, pays a lock that is not
\* there or locks what is not free.
Conserved ==
    \A i \in Hops, s \in Sides :
        LET b == book[i][s] IN
        /\ b.lock >= 0 /\ \A v \in Sides : b.free[v] >= 0
        /\ b.free["payer"] + b.free["payee"] + b.lock = Free[i]["payer"] + Free[i]["payee"]

\* A wallet that locks an amount towards the next wallet holds both signatures
\* of a lock towards itself.
ForwardIsCovered ==
    \A i \in Hops \ {1} :
        htlc[i]["payer"] # NoTrade =>
            htlc[i - 1]["payee"] # NoTrade /\ htlc[i - 1]["payee"].signed

\* A route set up within a day gives every wallet in it more time to claim
\* from the previous wallet than it gives the next one.
IncomingOutlives ==
    \A i \in Hops \ {1} :
        (now < Day /\ htlc[i]["payer"] # NoTrade) =>
            htlc[i - 1]["payee"].delay > htlc[i]["payer"].delay

\* A wallet whose lock was paid, off the chain or on it (from the moment its
\* monitor has told it), can claim what is locked towards itself: it has the
\* secret and both signatures, whatever was lost, not sent or closed.
PaidCanClaim ==
    \A i \in Hops \ {1} :
        (rsmc[i]["payer"]["payer"] = "confirmed" \/ (claimed[i] = "payee" /\ ~notice[i]))
        => Knows(i) /\ htlc[i - 1]["payee"].signed

\* A payment over wallets with enough to spend arrives, when nothing goes
\* wrong: every hop is paid.
PaymentArrives ==
    env.faults = {} ~>
        [](\A i \in Hops : /\ rsmc[i]["payee"]["payer"] = "confirmed"
                           /\ book[i]["payee"].lock = 0)
=============================================================================
