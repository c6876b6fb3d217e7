----------------------------- MODULE RsmcChannel -----------------------------
(***************************************************************************)
(* The off-chain half of a channel that is OPENED: the payments two        *)
(* wallets negotiate with Rsmc and RsmcSign messages                       *)
(* (wallet/transaction/rsmc.py and the resign machinery of                 *)
(* wallet/transaction/message.py), over the trade table each wallet keeps  *)
(* for the channel (wallet/channel/channel.py, model/transaction_model.py).*)
(*                                                                         *)
(* In each wallet a console thread starts payments and one message thread  *)
(* handles messages one at a time (wallet/prompt.py).  The console records *)
(* its payment only after the message has left, so the peer's answer can   *)
(* be handled first.  The gateway between the wallets is external: it may  *)
(* lose and reorder messages, and be out of reach when a wallet calls it.  *)
(*                                                                         *)
(* A commitment is the state its signature covers; an optional value is a  *)
(* set with at most one element.  Error answers change nothing at the      *)
(* wallet that receives them (rollback_resource is empty): left out.       *)
(* Only plain payments are modelled: no hash lock, no HTLC trade.          *)
(***************************************************************************)
EXTENDS Integers, FiniteSets, SequencesExt

CONSTANTS
    Founder, Partner,  \* the two wallets of the channel
    Deposit,           \* Deposit[w]: what w put into the channel
    Payments,          \* the amounts the users pay
    MaxNonce,          \* bound: no trade is negotiated beyond this nonce
    Environments       \* what users and network may do, see Environment

Wallets == {Founder, Partner}

\* patient: the users pay only when no message is under way; faults: what goes
\* wrong; maxFaults and lastNonce bound how often it does, and the trades.
Environment ==
    [patient : BOOLEAN, payments : SUBSET Payments,
     faults : SUBSET {"lost", "reordered", "unsent", "crash"},
     maxFaults : Nat, lastNonce : 1 .. MaxNonce]

ASSUME RsmcAssumption ==
    /\ Founder # Partner
    /\ Deposit \in [Wallets -> Nat]
    /\ Payments \subseteq Nat \ {0}
    /\ MaxNonce \in Nat \ {0}
    /\ Environments \subseteq Environment

VARIABLES
    trades,    \* trades[w]: the trade table of w for this channel, by nonce
    balance,   \* balance[w]: the channel balance in w's channel table
    pending,   \* pending[w]: the payment w's console has sent and not yet recorded
    net,       \* net[w]: the messages on their way to w, its MessageList included
    faults,    \* how many faults have happened
    env        \* the environment of this behaviour, fixed by Init

vars == <<trades, balance, pending, net, faults, env>>

Nonces == 1 .. MaxNonce

Other(w) == IF w = Founder THEN Partner ELSE Founder

\* The value of an optional value that has one.
The(S) == CHOOSE x \in S : TRUE

\* balance and peer_balance of a trade, both balances of a message.
Balances == [Wallets -> Nat]

\* The values a signature covers besides channel, nonce and default hash lock.
Commitment == [payer : Wallets, bal : Balances]

Trade ==
    [role : {"FOUNDER", "PARTNER"}, bal : Balances, commitment : SUBSET Commitment,
     peer_commitment : SUBSET Commitment,
     state : {"init", "confirming", "confirmed"}]

\* A nonce that has no row in the trade table.
NoTrade == [state |-> "none"]

ResignBody == [nonce : Nonces, sig : SUBSET Commitment]

\* role is the RoleIndex of an RsmcSign, -1 for an Rsmc; nego the ResetTxNonce.
Message ==
    [role : {-1, 0, 1}, nonce : Nonces, nego : SUBSET Nonces,
     payment : Payments, bal : Balances, sig : SUBSET Commitment, resign : SUBSET ResignBody]

TypeOK ==
    /\ trades \in [Wallets -> [Nonces -> Trade \cup {NoTrade}]]
    /\ balance \in [Wallets -> Balances]
    /\ pending \in [Wallets -> SUBSET ([nonce : Nonces, trade : Trade])]
    /\ net \in [Wallets -> Seq(Message)]
    /\ env \in Environments
    /\ faults \in 0 .. env.maxFaults

\* The founding trade, confirmed when the deposit event finds the deposits on
\* the chain.
FoundingTrade(w) ==
    [role |-> IF w = Founder THEN "FOUNDER" ELSE "PARTNER", bal |-> Deposit,
     commitment |-> {[payer |-> Founder, bal |-> Deposit]},
     peer_commitment |-> {[payer |-> Founder, bal |-> Deposit]},
     state |-> "confirmed"]

Init ==
    /\ trades = [w \in Wallets |->
                   [n \in Nonces |-> IF n = 1 THEN FoundingTrade(w) ELSE NoTrade]]
    /\ balance = [w \in Wallets |-> Deposit]
    /\ pending = [w \in Wallets |-> {}]
    /\ net = [w \in Wallets |-> <<>>]
    /\ faults = 0
    /\ env \in Environments

-----------------------------------------------------------------------------
(* Queries on a trade table ts.                                            *)

Recorded(ts) == {n \in Nonces : ts[n] # NoTrade}

\* confirmed_onchain belongs to HTLC trades.
IsConfirmed(t) == t.state = "confirmed"

LatestNonce(ts) == Max(Recorded(ts))

LatestValid(ts) == Max({n \in Nonces : IsConfirmed(ts[n]) \/ ts[n].state = "confirming"})

LatestConfirmed(ts) == Max({n \in Nonces : IsConfirmed(ts[n])})

\* The payer of trade t in the table of w.
PayerOf(w, t) == IF t.role = "FOUNDER" THEN w ELSE Other(w)

\* calculate_balance_after_payment; its guard is CanPay.
CanPay(bal, payer, p) == p <= bal[payer]

AfterPayment(bal, payer, p) == [bal EXCEPT ![payer] = @ - p, ![Other(payer)] = @ + p]

\* check_balance: the balances of a message are those the payment leads to.
Matches(b, payer, p, bal) == CanPay(b, payer, p) /\ bal = AfterPayment(b, payer, p)

\* Mutant of Paid: the payee is not credited.
PaidByPayerOnly(b, payer, p) == IF p <= b[payer] THEN [b EXCEPT ![payer] = @ - p] ELSE b

\* update_balance_for_channel, which gives up on a negative balance.
Paid(b, payer, p) ==
    IF \A v \in Wallets : AfterPayment(b, payer, p)[v] >= 0 THEN AfterPayment(b, payer, p) ELSE b

\* rsmc_trade: a trade nobody has signed yet.
UnsignedTrade(role, bal) ==
    [role |-> role, bal |-> bal, commitment |-> {}, peer_commitment |-> {}, state |-> "init"]

\* Mutant of NonceAgrees: the payer takes any nonce the payee negotiates.
NonceTaken(ts, nonce) == TRUE

\* validate_negotiated_nonce
NonceAgrees(ts, nonce) == LatestValid(ts) + 1 = nonce

\* validate_transaction
PreviousConfirmed(ts, nonce) == IsConfirmed(ts[nonce - 1])

\* Mutant of Confirm: the peer's signature is not kept.
ConfirmStateOnly(ts, nonce, sig) ==
    IF ts[nonce] = NoTrade THEN ts ELSE [ts EXCEPT ![nonce].state = "confirmed"]

\* The updates of a trade that exists; update_trade ignores the others.
Confirm(ts, nonce, sig) ==
    IF ts[nonce] = NoTrade THEN ts
    ELSE [ts EXCEPT ![nonce].peer_commitment = sig, ![nonce].state = "confirmed"]

\* Mutant of SignState: the balances of the trade are not updated.
SignStateOnly(ts, nonce, bal, sig) ==
    IF ts[nonce] = NoTrade THEN ts
    ELSE [ts EXCEPT ![nonce].commitment = sig, ![nonce].state = "confirming"]

SignState(ts, nonce, bal, sig) ==
    IF ts[nonce] = NoTrade THEN ts
    ELSE [ts EXCEPT ![nonce].bal = bal, ![nonce].commitment = sig, ![nonce].state = "confirming"]

-----------------------------------------------------------------------------
(* Resigning: a payee that signed a trade and never got the payer's        *)
(* signature asks for it with its next message.                            *)

AwaitsPayer(t) == t.state = "confirming" /\ t.role = "PARTNER"

\* Mutant of ResignRequest: the payee never asks.
NoResignRequest(ts) == {}

\* create_resign_message_body(is_resign_response = False)
ResignRequest(ts) ==
    LET n == LatestValid(ts) IN
    IF AwaitsPayer(ts[n]) /\ ts[n].peer_commitment = {}
    THEN {[nonce |-> n, sig |-> ts[n].commitment]} ELSE {}

\* What that call writes: a trade both have signed is confirmed.
SettleHeld(ts) ==
    LET n == LatestValid(ts) IN
    IF AwaitsPayer(ts[n]) /\ ts[n].peer_commitment # {}
    THEN [ts EXCEPT ![n].state = "confirmed"] ELSE ts

\* handle_resign_body: the checks that raise.
ResignAccepted(w, ts, r) ==
    /\ ts[r.nonce] # NoTrade
    /\ \/ IsConfirmed(ts[r.nonce])
       \/ r.sig = {[payer |-> PayerOf(w, ts[r.nonce]), bal |-> ts[r.nonce].bal]}

\* handle_resign_body: the trade it writes, the balance it writes.
Resigned(w, ts, r) ==
    LET t == ts[r.nonce]
        own == {[payer |-> PayerOf(w, t), bal |-> t.bal]} IN
    IF IsConfirmed(t) THEN ts
    ELSE [ts EXCEPT ![r.nonce] =
            [t EXCEPT !.commitment = IF @ = {} THEN own ELSE @,
                      !.peer_commitment = r.sig,
                      !.state = "confirmed"]]

\* Mutant of ResignedBalance: the channel balance is not written.
ResignedBalanceUnwritten(ts, b, r) == b

ResignedBalance(ts, b, r) == IF IsConfirmed(ts[r.nonce]) THEN b ELSE ts[r.nonce].bal

\* create_resign_message_body(is_resign_response = True): the payer's answer.
ResignAck(ts, r) ==
    LET t == ts[r.nonce] IN
    IF t.role = "FOUNDER" /\ t.state = "confirmed" /\ t.peer_commitment # {}
    THEN {[nonce |-> r.nonce, sig |-> t.commitment]} ELSE {}

\* A wallet's tables after the resign body of a message; the tables themselves
\* when the message has none.
TradesAfter(w, ts, resign) == IF resign = {} THEN ts ELSE Resigned(w, ts, The(resign))

BalanceAfter(ts, b, resign) ==
    IF resign = {} THEN b ELSE ResignedBalance(ts, b, The(resign))

AckAfter(ts, resign) == IF resign = {} THEN {} ELSE ResignAck(ts, The(resign))

-----------------------------------------------------------------------------
(* How a call of the gateway ends: "sent" when the caller runs to its end, *)
(* "unsent" when the gateway cannot be reached, which raises in send and   *)
(* skips the rest of the caller, and "crash" when the wallet dies after    *)
(* its answer has left, with what its console had pending.                 *)

Outcomes == {"sent"} \cup (env.faults \cap {"unsent", "crash"})

Fault(happens) ==
    /\ happens => faults < env.maxFaults
    /\ faults' = faults + IF happens THEN 1 ELSE 0

-----------------------------------------------------------------------------
(* The payer's console.                                                    *)

\* RsmcMessage.create up to the send, or all of it when the send raises.
Pay(w, p, how) ==
    LET ts    == trades[w]
        nonce == LatestNonce(ts) + 1
        valid == ts[LatestValid(ts)]
        base  == IF valid.state = "confirming" THEN valid.bal ELSE balance[w]
        bal   == AfterPayment(base, w, p) IN
    /\ pending[w] = {}
    /\ env.patient => \A v \in Wallets : net[v] = <<>> /\ pending[v] = {}
    /\ nonce <= env.lastNonce
    /\ CanPay(base, w, p)
    /\ trades' = [trades EXCEPT ![w] = SettleHeld(ts)]
    /\ IF how = "unsent" THEN UNCHANGED <<net, pending>>
       ELSE /\ net' = [net EXCEPT ![Other(w)] = Append(@,
                         [role |-> -1, nonce |-> nonce, nego |-> {}, payment |-> p,
                          bal |-> bal, sig |-> {}, resign |-> ResignRequest(ts)])]
            /\ pending' = [pending EXCEPT ![w] =
                             {[nonce |-> nonce, trade |-> UnsignedTrade("FOUNDER", bal)]}]
    /\ Fault(how = "unsent")
    /\ UNCHANGED balance

\* Channel.add_trade: refused without an error when the nonce has a row.
RecordPayment(w) ==
    \E r \in pending[w] :
        /\ trades' = [trades EXCEPT ![w][r.nonce] = IF @ = NoTrade THEN r.trade ELSE @]
        /\ pending' = [pending EXCEPT ![w] = {}]
        /\ UNCHANGED <<balance, net, faults>>

-----------------------------------------------------------------------------
(* The message thread of w takes the message at place i of net[w].         *)

\* What every handler does: the message leaves the list, the answers enter
\* the peer's.
Answer(w, i, how, answers) ==
    /\ net' = [net EXCEPT ![w] = RemoveAt(@, i),
                          ![Other(w)] = @ \o IF how = "unsent" THEN <<>> ELSE answers]
    /\ pending' = IF how = "crash" THEN [pending EXCEPT ![w] = {}] ELSE pending
    /\ Fault(i # 1 \/ how # "sent")

Write(w, ts, b) ==
    /\ trades' = [trades EXCEPT ![w] = ts]
    /\ balance' = [balance EXCEPT ![w] = b]

\* A message whose resign body is refused changes nothing.
RefuseResign(w, i) ==
    /\ \E r \in net[w][i].resign : ~ResignAccepted(w, trades[w], r)
    /\ Answer(w, i, "sent", <<>>)
    /\ UNCHANGED <<trades, balance>>

\* RsmcMessage.handle at the payee, resign body accepted or absent.
HandleRsmc(w, i, how) ==
    LET m == net[w][i]
        ts      == trades[w]
        asks    == m.resign # {}
        after   == IF asks THEN TradesAfter(w, ts, m.resign) ELSE SettleHeld(ts)
        b       == BalanceAfter(ts, balance[w], m.resign)
        request == IF asks THEN {} ELSE ResignRequest(ts)
        nonce   == 1 + IF asks THEN The(m.resign).nonce ELSE LatestValid(ts)
        own     == IF request = {} THEN {[payer |-> Other(w), bal |-> m.bal]} ELSE {}
        trade   == [UnsignedTrade("PARTNER", m.bal) EXCEPT
                      !.commitment = own,
                      !.state = IF request = {} THEN "confirming" ELSE "init"] IN
    /\ nonce <= env.lastNonce
    /\ \A r \in m.resign : ResignAccepted(w, ts, r)
    /\ IF request = {} /\ ~Matches(b, Other(w), m.payment, m.bal)
       THEN Answer(w, i, how, <<>>) /\ Write(w, after, b)
       ELSE /\ Answer(w, i, how,
                 <<[role |-> 0, nonce |-> m.nonce,
                   nego |-> {nonce} \ {m.nonce}, payment |-> m.payment, bal |-> m.bal, sig |-> own,
                   resign |-> IF asks THEN AckAfter(after, m.resign) ELSE request]>>)
            /\ Write(w, IF how = "sent" THEN [after EXCEPT ![nonce] = trade] ELSE after, b)

\* Without the payee's signature the balances of a payment follow the resigned
\* trade.
ResignedBalances(ts, resign) == {ts[r.nonce].bal : r \in resign}

\* The payer's rows when the payee negotiated another nonce than its own.
Renegotiated(ts, own, nonce, bal) ==
    IF nonce = own THEN ts
    ELSE [ts EXCEPT ![nonce] = UnsignedTrade("FOUNDER", bal),
                    ![own] = IF nonce < own THEN NoTrade ELSE @]

\* The payer signs its row of the nonce unless a resign signed it before, stores
\* the payee's signature when m brings one, and answers.
SignPayment(w, i, how, m, nonce, bal, table, b, ack) ==
    LET own    == IF table[nonce].commitment = {} THEN {[payer |-> w, bal |-> bal]}
                  ELSE table[nonce].commitment
        signed == [table EXCEPT ![nonce].commitment = own] IN
    IF \/ table[nonce] = NoTrade
       \/ table[nonce].commitment = {} /\ ~Matches(b, w, m.payment, bal)
    THEN Answer(w, i, how, <<>>) /\ Write(w, table, b)
    ELSE /\ Answer(w, i, how,
              <<[role |-> 1, nonce |-> nonce, nego |-> {}, payment |-> m.payment,
                bal |-> bal, sig |-> IF m.sig = {} THEN {} ELSE own, resign |-> ack]>>)
         /\ IF m.sig = {} THEN Write(w, signed, b)
            ELSE Write(w, Confirm(signed, nonce, m.sig),
                       IF how = "sent" THEN Paid(b, w, m.payment) ELSE b)

\* handle_partner_response: the payer takes the payee's RsmcSign.
HandlePartnerResponse(w, i, how) ==
    LET m == net[w][i]
        ts    == trades[w]
        after == TradesAfter(w, ts, m.resign)
        b     == BalanceAfter(ts, balance[w], m.resign)
        nonce == IF m.nego = {} THEN m.nonce ELSE The(m.nego)
        bases == IF m.sig = {} THEN ResignedBalances(after, m.resign) ELSE {}
        bal   == IF bases = {} THEN m.bal
                 ELSE AfterPayment(The(bases), w, m.payment) IN
    /\ \A r \in m.resign : ResignAccepted(w, ts, r)
    /\ IF (\E x \in bases : ~CanPay(x, w, m.payment)) \/ ~NonceAgrees(after, nonce)
       THEN Answer(w, i, how, <<>>) /\ Write(w, after, b)
       ELSE SignPayment(w, i, how, m, nonce, bal,
                        Renegotiated(after, m.nonce, nonce, bal), b, AckAfter(after, m.resign))

\* handle_founder_response: the payee takes the payer's RsmcSign.
HandleFounderResponse(w, i, how) ==
    LET m     == net[w][i]
        ts    == trades[w]
        after == TradesAfter(w, ts, m.resign)
        b     == BalanceAfter(ts, balance[w], m.resign)
        sig   == {[payer |-> Other(w), bal |-> m.bal]}
        signs == /\ m.sig = {}
                 /\ PreviousConfirmed(after, m.nonce)
                 /\ Matches(b, Other(w), m.payment, m.bal) IN
    /\ \A r \in m.resign : ResignAccepted(w, ts, r)
    /\ \/ /\ m.sig = sig
          /\ Answer(w, i, how, <<>>)
          /\ Write(w, Confirm(after, m.nonce, sig),
                   IF how = "crash" THEN b ELSE Paid(b, Other(w), m.payment))
       \/ /\ signs
          /\ Answer(w, i, how, <<[m EXCEPT !.role = 0, !.sig = sig, !.resign = {}]>>)
          /\ Write(w, SignState(after, m.nonce, m.bal, sig), b)
       \/ /\ m.sig # sig /\ ~signs
          /\ Answer(w, i, how, <<>>)
          /\ Write(w, after, b)

Handle(w, i, how) ==
    \/ RefuseResign(w, i)
    \/ net[w][i].role = -1 /\ HandleRsmc(w, i, how)
    \/ net[w][i].role = 0 /\ HandlePartnerResponse(w, i, how)
    \/ net[w][i].role = 1 /\ HandleFounderResponse(w, i, how)

-----------------------------------------------------------------------------
(* Outside the handlers.                                                   *)

Lose(w, i) ==
    /\ "lost" \in env.faults
    /\ Fault(TRUE)
    /\ net' = [net EXCEPT ![w] = RemoveAt(@, i)]
    /\ UNCHANGED <<trades, balance, pending>>

\* The wallet dies between the send and the record of its console.
CrashConsole(w) ==
    /\ "crash" \in env.faults
    /\ Fault(TRUE)
    /\ pending[w] # {}
    /\ pending' = [pending EXCEPT ![w] = {}]
    /\ UNCHANGED <<trades, balance, net>>

Next ==
    /\ UNCHANGED env
    /\ \E w \in Wallets :
        \/ \E p \in env.payments, how \in Outcomes \ {"crash"} : Pay(w, p, how)
        \/ RecordPayment(w)
        \/ CrashConsole(w)
        \/ \E i \in DOMAIN net[w] :
              \/ (i = 1 \/ "reordered" \in env.faults) /\ \E how \in Outcomes : Handle(w, i, how)
              \/ Lose(w, i)

Spec == Init /\ [][Next]_vars

-----------------------------------------------------------------------------
(* Correctness.                                                            *)

Total == Deposit[Founder] + Deposit[Partner]

\* No message overtakes another, no wallet dies.
InOrder == env.faults \subseteq {"lost", "unsent"}

\* Moreover a send never raises, and the users wait for their payments.
Orderly == env.faults \subseteq {"lost"} /\ env.patient

\* Whatever the network, the gateway and the users do, each wallet's book of
\* the channel (Channel.balance, written by update_balance_for_channel and by
\* handle_resign_body) holds two balances that are not negative and add up to
\* what was deposited: no message applied twice creates or destroys assets.
Conserved ==
    \A w \in Wallets :
        /\ \A v \in Wallets : balance[w][v] >= 0
        /\ balance[w][Founder] + balance[w][Partner] = Total

\* A wallet that closes with its latest confirmed trade (latest_confirmed_trade
\* in force_release_rsmc) cannot be contradicted by its peer: the peer holds at
\* most one confirmed trade more, the last one, whose payer confirms first;
\* unless a message overtakes another or a wallet dies: then a confirmed trade
\* may be signed anew under its nonce.
CloserNeverConvicted ==
    InOrder => \A w \in Wallets :
        LatestConfirmed(trades[w]) <= LatestConfirmed(trades[Other(w)]) + 1

\* A trade both wallets hold as confirmed is the same trade for both: the
\* signature each of them gave is the one the other keeps, although they may
\* have given it twice, under a negotiated nonce, or on a resign request;
\* unless a message overtakes another or a wallet dies, and where users wait for
\* a payment to end: a payee that is asked twice under one nonce signs the second
\* payment over the first one.
AgreeOnConfirmed ==
    (InOrder /\ env.patient) => \A n \in Nonces :
        (\A w \in Wallets : IsConfirmed(trades[w][n]))
        => \A w \in Wallets : trades[w][n].commitment = trades[Other(w)][n].peer_commitment

\* The balance a wallet shows and pays from is the one its peer's signature
\* covers on its latest confirmed trade, so what the user sees is what closing
\* the channel returns, however many answers were lost and resigned.  Asked of
\* orderly environments: handle_founder_response writes the balance after the
\* trade, and a crash in between leaves them apart.
BookIsSigned ==
    Orderly => \A w \in Wallets :
        LET t == trades[w][LatestConfirmed(trades[w])] IN
        \A s \in t.peer_commitment : s.bal = balance[w]

\* What a payee holds for a confirmed trade is what closeChannel wants: both
\* signatures, over the very balances its row keeps, which are the ones
\* force_release_rsmc sends to the contract: where users wait for a payment to
\* end and no wallet dies, between an answer and the row it is about, whatever
\* else goes wrong.
PayeeCanSettle ==
    (env.patient /\ "crash" \notin env.faults) => \A w \in Wallets, n \in Nonces :
        LET t == trades[w][n] IN
        (t.state = "confirmed" /\ t.role = "PARTNER") =>
            /\ t.commitment = {[payer |-> PayerOf(w, t), bal |-> t.bal]}
            /\ t.peer_commitment = t.commitment

\* A confirmed trade is never touched again: no late, resigned or renegotiated
\* answer overwrites or deletes what a wallet may have to settle with, as long
\* as messages arrive in the order they were sent.
ConfirmedStays ==
    [][InOrder => \A w \in Wallets, n \in Nonces :
         IsConfirmed(trades[w][n]) => trades'[w][n] = trades[w][n]]_vars
=============================================================================
