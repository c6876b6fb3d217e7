------------------------------ MODULE Dispute ------------------------------
(***************************************************************************)
(* Closing a channel alone and what follows: the console's force close and *)
(* unlock, the notifications of the contract and the timers they set       *)
(* (wallet/connection/websocket.py), the events both wallets run           *)
(* (wallet/event/offchain_event.py), the trade they choose                 *)
(* (Channel.force_release_rsmc, Channel.force_release_htlc), and the       *)
(* contract itself, an instance of TrinityContract.                        *)
(*                                                                         *)
(* The payments are over: Trades holds what both partners have signed, and *)
(* the wallets differ by at most the last trade (RsmcChannel).  A channel  *)
(* has one place in a wallet's event machine (EventMachine), and an        *)
(* account one transaction under way: a second one has the same nonce and  *)
(* the same price, and the node refuses it.  Nothing here runs into the    *)
(* timeout of an event: it is longer than a behaviour.                     *)
(***************************************************************************)
EXTENDS Integers, Sequences, FiniteSets

CONSTANTS
    Founder, Peer,     \* the two partners of the channel
    NoAddr, NoHash,
    Ch,                \* its id
    Hashes,            \* the hash locks of its HTLC trades
    Trades,            \* Trades[n]: the trade of nonce n, signed by both
    Window,            \* settleTimeout
    HtlcWindow,        \* htlcSettlePeriod
    MaxBlock,          \* bound: the last block
    LastRequest,       \* bound: the last block in which a user asks
    MaxRequests,       \* bound: how often each user may ask
    Environments       \* what the users ask, and what is late or goes wrong

Wallets == {Founder, Peer}
Other(w) == IF w = Founder THEN Peer ELSE Founder
Nonces == 1 .. Len(Trades)

Kinds == {"found", "rsmc", "htlc", "claim"}

Request == [do : {"close"}, nonce : Nat, debug : BOOLEAN] \cup [do : {"unlock"}, hash : Hashes]

\* requests[w]: what the user of w may ask; ownTools: who calls withdrawSettle
\* by other means; lag: how many blocks a wallet or a transaction may be late;
\* faults: what goes wrong, at most maxFaults times.
Environment ==
    [requests : [Wallets -> SUBSET Request], ownTools : SUBSET Wallets, lag : Nat,
     faults : SUBSET {"unsent", "crash"}, maxFaults : Nat]

ASSUME DisputeAssumption ==
    /\ Founder # Peer /\ NoAddr \notin Wallets /\ NoHash \notin Hashes
    /\ Trades \in Seq([kind : Kinds, founderBalance : Nat, partnerBalance : Nat,
                       payer : Wallets, amount : Nat, time : Nat, hash : Hashes \cup {NoHash}])
    /\ 1 \in Nonces
    /\ \A n \in Nonces : Trades[n].kind = "found" <=> n = 1
    /\ \A n \in Nonces : Trades[n].kind \in {"htlc", "claim"} => Trades[n].hash \in Hashes
    /\ {Window, HtlcWindow, MaxBlock, LastRequest, MaxRequests} \subseteq Nat
    /\ Environments \subseteq Environment

-----------------------------------------------------------------------------
(* The documents of the trades, and the contract.                          *)

Total == Trades[1].founderBalance + Trades[1].partnerBalance

Doc(n) ==
    [ch |-> Ch, nonce |-> n, founderBalance |-> Trades[n].founderBalance,
     partnerBalance |-> Trades[n].partnerBalance]

\* An HTLC trade is signed over the default hash and secret, the payment that
\* spends it over its own.
TxDoc(n) ==
    [ch |-> Ch, nonce |-> n, founderBalance |-> Trades[n].founderBalance,
     partnerBalance |-> Trades[n].partnerBalance,
     opens |-> IF Trades[n].kind = "claim" THEN Trades[n].hash ELSE NoHash]

LockDoc(n) ==
    [ch |-> Ch, sender |-> Trades[n].payer, receiver |-> Other(Trades[n].payer),
     lockTime |-> Trades[n].time, lockAmount |-> Trades[n].amount, lockHash |-> Trades[n].hash]

Of(kind) == {n \in Nonces : Trades[n].kind = kind}

VARIABLES
    block, paused, settleTimeout, htlcSettlePeriod, channelNumber,
    info, locks, wallet, allowance, held, net,
    chan,      \* chan[w]: the state in w's channel table
    final,     \* final[w]: the trades in state confirmed or confirmed_onchain
    event,     \* event[w]: the event of the channel in w's event machine
    timers,    \* timers[w]: the websocket's events by block, in their order
    notices,   \* notices[w]: contract events on their way to w
    height,    \* height[w]: the block up to which w has run its timers
    pool,      \* pool[w]: the transaction of w that is not mined
    left,      \* how many requests and faults the bounds leave
    env        \* the environment of this behaviour, fixed by Init

contract == <<block, paused, settleTimeout, htlcSettlePeriod, channelNumber,
              info, locks, wallet, allowance, held, net>>
system == <<contract, chan, final, event, timers, notices, height, pool, left>>
vars == <<system, env>>

Contract == INSTANCE TrinityContract WITH
    Addr <- Wallets,
    Channels <- {Ch},
    Founder <- [c \in {Ch} |-> Founder],
    Peer <- [c \in {Ch} |-> Peer],
    CommonDocs <- {Doc(n) : n \in Of("found")},
    TxDocs <- {TxDoc(n) : n \in Nonces \ Of("found")},
    LockDocs <- {LockDoc(n) : n \in Of("htlc")},
    Periods <- {Window, HtlcWindow},
    Approvals <- {},
    Supply <- [a \in Wallets |-> 0]

NoEvent == [do |-> "none"]
NoTx == [fn |-> "none"]

Event ==
    [do : {"close"}, nonce : Nat, debug : BOOLEAN, at : Nat]
      \cup [do : {"unlock", "punish", "paylock"}, hash : Hashes, at : Nat]
      \cup [do : {"answer"}, nonce : Nat, at : Nat]
      \cup [do : {"end"}, at : Nat]

Tx ==
    [fn : {"close", "update"}, nonce : Nonces, signed : BOOLEAN, at : Nat]
      \cup [fn : {"withdraw", "paylock"}, hash : Hashes, at : Nat]
      \cup [fn : {"settle"}, at : Nat]

TypeOK ==
    /\ Contract!TypeOK
    /\ chan \in [Wallets -> {"OPENED", "SETTLING", "SETTLED"}]
    /\ final \in [Wallets -> SUBSET Nonces]
    /\ event \in [Wallets -> Event \cup {NoEvent}]
    /\ timers \in [Wallets -> Seq(Event)]
    /\ \A w \in Wallets : \A i \in DOMAIN notices[w] :
          notices[w][i].what \in {"closed", "settled", "withdraw", "updated", "unlocked"}
    /\ height \in [Wallets -> 0 .. block]
    /\ pool \in [Wallets -> Tx \cup {NoTx}]
    /\ left \in [Wallets \cup {"fault"} -> Nat]
    /\ env \in Environments

\* The wallet w holds every trade up to nonce top; an HTLC trade is confirmed
\* with the payment that spends it.
FinalUpTo(top) ==
    {n \in 1 .. top : Trades[n].kind = "htlc" =>
        \E m \in Of("claim") : m <= top /\ Trades[m].hash = Trades[n].hash}

Init ==
    /\ block = 0 /\ paused = FALSE
    /\ settleTimeout = Window /\ htlcSettlePeriod = HtlcWindow
    /\ channelNumber = 1
    /\ info = [c \in {Ch} |-> Contract!NewChannel(Total)]
    /\ locks = [c \in {Ch} |-> [h \in Hashes |-> Contract!NoLock]]
    /\ wallet = [a \in Wallets |-> 0] /\ allowance = [a \in Wallets |-> 0]
    /\ held = Total /\ net = [c \in {Ch} |-> Total]
    /\ chan = [w \in Wallets |-> "OPENED"]
    /\ \E top \in [Wallets -> {Len(Trades) - 1, Len(Trades)} \ {0}] :
          final = [w \in Wallets |-> FinalUpTo(top[w])]
    /\ event = [w \in Wallets |-> NoEvent]
    /\ timers = [w \in Wallets |-> <<>>]
    /\ notices = [w \in Wallets |-> <<>>]
    /\ height = [w \in Wallets |-> 0]
    /\ pool = [w \in Wallets |-> NoTx]
    /\ env \in Environments
    /\ left = [x \in Wallets \cup {"fault"} |-> IF x = "fault" THEN env.maxFaults ELSE MaxRequests]

-----------------------------------------------------------------------------
(* Choosing a trade (force_release_rsmc).                                  *)

\* latest_confirmed_trade
Latest(w) == CHOOSE n \in final[w] : \A m \in final[w] : m <= n

\* Mutant of NoNeed: the comparison with the peer's nonce the other way round.
NoNeedReversed(w, nonce) == nonce <= Latest(w)

\* "No need update transaction"
NoNeed(w, nonce) == nonce # 0 /\ (nonce = Latest(w) \/ nonce > Latest(w) + 1)

\* What the contract call is given as hash and secret: those of the row, which
\* an HTLC trade was not signed with; none for trade 1.
Call(fn, n) ==
    [fn |-> fn, nonce |-> n, signed |-> Trades[n].kind # "htlc", at |-> block]

-----------------------------------------------------------------------------
(* Sending: a call that is not sent is not a "success".                    *)

Use(x) == left[x] > 0 /\ left' = [left EXCEPT ![x] = @ - 1]

Sends(w, tx) ==
    /\ pool[w] = NoTx
    /\ pool' = [pool EXCEPT ![w] = tx]
    /\ UNCHANGED left

\* The node refuses it: one of the account is under way, or it is out of reach.
Unsent(w) ==
    /\ IF pool[w] # NoTx THEN UNCHANGED left ELSE "unsent" \in env.faults /\ Use("fault")
    /\ UNCHANGED pool

Set(w, state) == chan' = [chan EXCEPT ![w] = state]

Done(w) == event' = [event EXCEPT ![w] = NoEvent]

\* The event stays in its stage and is executed again in a later poll.
Stays(w) == event' = [event EXCEPT ![w].at = block + 1]

Idle(w) == UNCHANGED <<pool, left>>

-----------------------------------------------------------------------------
(* The events (offchain_event.py), from prepare to the end or the failure. *)

ForceSettle(w) ==
    LET e == event[w]
        n == IF e.debug THEN e.nonce ELSE Latest(w) IN
    /\ e.do = "close"
    /\ \/ /\ ~e.debug /\ NoNeed(w, e.nonce)
          /\ Set(w, "SETTLING") /\ Stays(w) /\ Idle(w)
       \/ e.debug /\ n \notin Nonces /\ Stays(w) /\ Idle(w) /\ UNCHANGED chan
       \/ /\ IF e.debug THEN n \in Nonces ELSE ~NoNeed(w, e.nonce)
          /\ \/ Sends(w, Call("close", n)) /\ Set(w, "SETTLED") /\ Done(w)
             \/ Unsent(w) /\ Stays(w) /\ UNCHANGED chan

\* The hash of trade 1 is left out, and the call fails before it is sent:
\* update_close_channel expects that trade under nonce 0.
UpdateSettle(w) ==
    LET e == event[w] IN
    /\ e.do = "answer"
    /\ \/ NoNeed(w, e.nonce) /\ Set(w, "SETTLING") /\ Idle(w)
       \/ /\ ~NoNeed(w, e.nonce)
          /\ \/ Latest(w) # 1 /\ Sends(w, Call("update", Latest(w))) /\ Set(w, "SETTLED")
             \/ Latest(w) # 1 /\ Unsent(w) /\ UNCHANGED chan
             \/ Latest(w) = 1 /\ Idle(w) /\ UNCHANGED chan
    /\ Done(w)

EndSettle(w) ==
    /\ event[w].do = "end"
    /\ \/ Sends(w, [fn |-> "settle", at |-> block]) /\ Set(w, "SETTLED")
       \/ Unsent(w) /\ UNCHANGED chan
    /\ Done(w)

\* ChannelHtlcUnlockEvent
HtlcUnlock(w) ==
    LET h == event[w].hash IN
    /\ event[w].do = "unlock"
    /\ \/ Sends(w, [fn |-> "withdraw", hash |-> h, at |-> block]) /\ Done(w)
       \/ Unsent(w) /\ Stays(w)
    /\ UNCHANGED chan

\* force_release_htlc: the confirmed payments of the lock h.
Claims(w, h) == {n \in Of("claim") \cap final[w] : Trades[n].hash = h}

\* ChannelPunishHtlcUnlockEvent: without a confirmed payment of the lock the
\* secret is kept and passed on (HtlcRoute), which counts as a success.
PunishHtlcUnlock(w) ==
    LET claims == Claims(w, event[w].hash) IN
    /\ event[w].do = "punish"
    /\ \/ /\ claims = {} /\ Set(w, "SETTLED") /\ Idle(w)
       \/ /\ claims # {}
          /\ \E n \in claims :
                \/ Sends(w, Call("update", n)) /\ Set(w, "SETTLED")
                \/ Unsent(w) /\ UNCHANGED chan
    /\ Done(w)

\* ChannelSettleHtlcUnlockEvent gives the private key for the invoker: no
\* address can be made of it, and withdrawSettle is never sent.
SettleHtlcUnlock(w) ==
    /\ event[w].do = "paylock"
    /\ IF info[Ch].total > 0 THEN UNCHANGED chan ELSE Set(w, "SETTLED")
    /\ Done(w)
    /\ Idle(w)

\* A round of the event machine.
RunEvent(w) ==
    /\ event[w] # NoEvent /\ event[w].at <= block
    /\ \/ ForceSettle(w) \/ UpdateSettle(w) \/ EndSettle(w)
       \/ HtlcUnlock(w) \/ PunishHtlcUnlock(w) \/ SettleHtlcUnlock(w)
    /\ UNCHANGED <<contract, final, timers, notices, height>>

-----------------------------------------------------------------------------
(* The console, the websocket thread, a restart.                           *)

\* Mutant of AddTimer: a block early.
AddTimerEarly(w, end, e) ==
    timers' = [timers EXCEPT ![w] = Append(@, [e EXCEPT !.at = end - 1])]

AddTimer(w, end, e) ==
    timers' = [timers EXCEPT ![w] = Append(@, [e EXCEPT !.at = end])]

\* channel_force_close, channel_htlc_unlock: at the next block.
Ask(w, r) ==
    /\ block <= LastRequest
    /\ Use(w)
    /\ AddTimer(w, block + 1,
                IF r.do = "close"
                THEN [do |-> "close", nonce |-> r.nonce, debug |-> r.debug, at |-> 0]
                ELSE [do |-> "unlock", hash |-> r.hash, at |-> 0])
    /\ UNCHANGED <<contract, chan, final, event, notices, height, pool>>

\* register_event and trigger_start_event: an event of the channel that waits
\* is replaced.
Register(w, e) == event' = [event EXCEPT ![w] = e]

\* monitorCloseChannel: the peer's close is answered at once, the own one
\* ended at the end of the window.
MonitorCloseChannel(w, m) ==
    /\ m.what = "closed"
    /\ IF m.invoker # w
       THEN /\ Register(w, [do |-> "answer", nonce |-> m.nonce, at |-> block])
            /\ UNCHANGED timers
       ELSE /\ AddTimer(w, m.end, [do |-> "end", at |-> 0])
            /\ UNCHANGED event
    /\ UNCHANGED <<chan, final>>

\* Mutant of MonitorWithdraw: the peer's unlock waits for the end of its period too.
MonitorWithdrawLate(w, m) ==
    /\ m.what = "withdraw"
    /\ AddTimer(w, m.end, [do |-> IF m.invoker # w THEN "punish" ELSE "paylock",
                           hash |-> m.hash, at |-> 0])
    /\ UNCHANGED <<event, chan, final>>

MonitorWithdraw(w, m) ==
    /\ m.what = "withdraw"
    /\ IF m.invoker # w
       THEN /\ Register(w, [do |-> "punish", hash |-> m.hash, at |-> block])
            /\ UNCHANGED timers
       ELSE /\ AddTimer(w, m.end, [do |-> "paylock", hash |-> m.hash, at |-> 0])
            /\ UNCHANGED event
    /\ UNCHANGED <<chan, final>>

MonitorSettle(w, m) ==
    /\ m.what = "settled"
    /\ Set(w, "SETTLED")
    /\ UNCHANGED <<event, timers, final>>

MonitorWithdrawUpdate(w, m) ==
    /\ m.what = "updated"
    /\ IF m.invoker # w /\ info[Ch].total = 0 THEN Set(w, "SETTLED") ELSE UNCHANGED chan
    /\ UNCHANGED <<event, timers, final>>

\* The HTLC trade becomes confirmed_onchain.
MonitorWithdrawSettle(w, m) ==
    /\ m.what = "unlocked"
    /\ final' = [final EXCEPT ![w] = @ \cup {n \in Of("htlc") : Trades[n].hash = m.hash}]
    /\ UNCHANGED <<event, timers, chan>>

HandleEvent(w) ==
    /\ notices[w] # <<>>
    /\ LET m == Head(notices[w]) IN
       \/ MonitorCloseChannel(w, m) \/ MonitorWithdraw(w, m) \/ MonitorSettle(w, m)
       \/ MonitorWithdrawUpdate(w, m) \/ MonitorWithdrawSettle(w, m)
    /\ notices' = [notices EXCEPT ![w] = Tail(@)]
    /\ UNCHANGED <<contract, height, pool, left>>

\* The loop of handle over the blocks that have passed: each timer of the next
\* block takes the channel's place in the event machine.
TimerEvent(w) ==
    LET due == SelectSeq(timers[w], LAMBDA t : t.at = height[w] + 1) IN
    /\ height[w] < block
    /\ due # <<>>
    /\ Register(w, [Head(due) EXCEPT !.at = block])
    /\ LET i == CHOOSE i \in DOMAIN timers[w] :
                    /\ timers[w][i] = Head(due)
                    /\ \A j \in DOMAIN timers[w] : timers[w][j] = Head(due) => i <= j
       IN timers' = [timers EXCEPT ![w] = SubSeq(@, 1, i - 1) \o SubSeq(@, i + 1, Len(@))]
    /\ UNCHANGED <<contract, chan, final, notices, height, pool, left>>

SeeBlock(w) ==
    /\ height[w] < block
    /\ \A i \in DOMAIN timers[w] : timers[w][i].at # height[w] + 1
    /\ height' = [height EXCEPT ![w] = @ + 1]
    /\ UNCHANGED <<contract, chan, final, event, timers, notices, pool, left>>

\* Events and timers live in memory.
Crash(w) ==
    /\ "crash" \in env.faults /\ Use("fault")
    /\ event' = [event EXCEPT ![w] = NoEvent]
    /\ timers' = [timers EXCEPT ![w] = <<>>]
    /\ height' = [height EXCEPT ![w] = block]
    /\ UNCHANGED <<contract, chan, final, notices, pool>>

-----------------------------------------------------------------------------
(* The chain.                                                              *)

Emit(m) == notices' = [w \in Wallets |-> Append(notices[w], m)]

\* closeChannel
CloseMined(w, tx) ==
    /\ tx.fn = "close" /\ tx.signed
    /\ IF tx.nonce = 1 THEN Contract!CloseChannel(Doc(1), w)
                      ELSE Contract!CloseChannel(TxDoc(tx.nonce), w)
    /\ Emit([what |-> "closed", invoker |-> w, nonce |-> tx.nonce,
             end |-> block + settleTimeout, at |-> block])

\* updateTransaction against a close has no event the websocket knows, against
\* a withdrawal it has.
UpdateMined(w, tx) ==
    /\ tx.fn = "update" /\ tx.signed
    /\ \/ /\ info[Ch].settler = w
          /\ Contract!UpdateTransaction(TxDoc(tx.nonce))
          /\ UNCHANGED notices
       \/ /\ \E h \in Hashes : TxDoc(tx.nonce).opens = h /\ locks[Ch][h].verifier = w
          /\ Contract!UpdateHTLC(TxDoc(tx.nonce))
          /\ Emit([what |-> "updated", invoker |-> w, at |-> block])

\* settleTransaction
SettleMined(w, tx) ==
    /\ tx.fn = "settle"
    /\ info[Ch].closer = w
    /\ Contract!SettleTransaction(Ch)
    /\ Emit([what |-> "settled", at |-> block])

\* withdraw
WithdrawMined(w, tx) ==
    /\ tx.fn = "withdraw"
    /\ \E n \in Of("htlc") : Trades[n].hash = tx.hash /\ Contract!Withdraw(LockDoc(n), w)
    /\ Emit([what |-> "withdraw", invoker |-> w, hash |-> tx.hash,
             end |-> block + htlcSettlePeriod, at |-> block])

\* withdrawSettle
PayLockMined(w, tx) ==
    /\ tx.fn = "paylock"
    /\ locks[Ch][tx.hash].withdrawer = w
    /\ Contract!WithdrawSettle(Ch, tx.hash)
    /\ Emit([what |-> "unlocked", hash |-> tx.hash, at |-> block])

\* What the contract does with the transaction tx of w, and the event it emits.
Executes(w, tx) ==
    \/ CloseMined(w, tx) \/ UpdateMined(w, tx) \/ SettleMined(w, tx)
    \/ WithdrawMined(w, tx) \/ PayLockMined(w, tx)

\* A transaction is mined in a later block than the one it was sent in; one
\* that the contract does not accept changes nothing.
Mine(w) ==
    /\ pool[w] # NoTx
    /\ pool[w].at < block
    /\ \/ Executes(w, pool[w])
       \/ ~ ENABLED Executes(w, pool[w]) /\ UNCHANGED <<contract, notices>>
    /\ pool' = [pool EXCEPT ![w] = NoTx]
    /\ UNCHANGED <<chan, final, event, timers, height, left>>

\* withdrawSettle called without the wallet.
PayLockDirectly(w, h) ==
    /\ w \in env.ownTools
    /\ Executes(w, [fn |-> "paylock", hash |-> h, at |-> block])
    /\ UNCHANGED <<chan, final, event, timers, height, pool, left>>

\* Nothing is more than lag blocks late; a transaction needs a block in any case.
InTime(w) ==
    /\ height[w] + env.lag >= block
    /\ notices[w] # <<>> => Head(notices[w]).at + env.lag > block
    /\ event[w] # NoEvent => event[w].at + env.lag > block
    /\ pool[w] # NoTx => pool[w].at + 1 + env.lag > block

NextBlock ==
    /\ \A w \in Wallets : InTime(w)
    /\ Contract!NextBlock
    /\ UNCHANGED <<chan, final, event, timers, notices, height, pool, left>>

-----------------------------------------------------------------------------
Next ==
    /\ UNCHANGED env
    /\ \/ \E w \in Wallets :
             \/ \E r \in env.requests[w] : Ask(w, r)
             \/ RunEvent(w) \/ HandleEvent(w) \/ TimerEvent(w) \/ SeeBlock(w) \/ Crash(w)
             \/ Mine(w)
             \/ \E h \in Hashes : PayLockDirectly(w, h)
       \/ NextBlock

\* The threads of a running wallet go on, transactions that pay are mined,
\* blocks come.
Fairness ==
    /\ \A w \in Wallets :
          /\ WF_system(RunEvent(w)) /\ WF_system(HandleEvent(w))
          /\ WF_system(TimerEvent(w)) /\ WF_system(SeeBlock(w))
          /\ WF_system(Mine(w))
    /\ WF_system(NextBlock)

Spec == Init /\ [][Next]_vars

FairSpec == Spec /\ Fairness
-----------------------------------------------------------------------------
(* Properties.                                                             *)

BalanceOf(n, w) == IF w = Founder THEN Trades[n].founderBalance ELSE Trades[n].partnerBalance

\* What w must at least get when its partner may choose among the trades from
\* nonce n on.
Share(n, w) == CHOOSE x \in {BalanceOf(m, w) : m \in n .. Len(Trades)} :
                  \A m \in n .. Len(Trades) : x <= BalanceOf(m, w)

Gets(w) == wallet'[w] - wallet[w]

PaidOut == info[Ch].status = "CLOSING" /\ ~info'[Ch].exist

\* The settler gets what its newest trade, or one after it, gives it.
SettlerKeeps == LET y == info[Ch].settler IN Gets(y) >= Share(Latest(y), y)

\* Whatever trade a partner closes with, the other one gets no less than its
\* newest trade, or one after it, gives it: "if partner nonce is larger than
\* closer, then jugement closer have submitted invalid data, withdraw closer
\* assets to partner".
NewestWins == [][PaidOut => SettlerKeeps]_vars

Asks(w, what) == \E r \in env.requests[w] : r.do = what

\* That is so when the settler does not close itself and its newest trade is
\* not the payment of a lock: the notification, the choice of the trade, the
\* transaction and the contract's rule meet the settle window
\* (monitorCloseChannel, force_release_rsmc, updateTransaction, settleTransaction).
PlainNewestWins ==
    [][PaidOut /\ ~Asks(info[Ch].settler, "close")
               /\ Trades[Latest(info[Ch].settler)].kind = "rsmc" => SettlerKeeps]_vars

\* A partner that closes with its newest trade loses nothing to the answer of the
\* other, who may hold a trade more or less, nor to a late, repeated or lost
\* step of its own wallet.
HonestCloserKeeps ==
    [][PaidOut /\ info[Ch].closingNonce >= Latest(info[Ch].closer) =>
          Gets(info[Ch].closer) >= Share(info[Ch].closingNonce, info[Ch].closer)]_vars

\* A channel one partner closes is paid out: by the answer, or by the closer's
\* timer at the end of the window, when wallets do what is due in the block it
\* is due in and nobody unlocks, which takes the place of the closer's event.
CloseEnds ==
    /\ info[Ch].status = "CLOSING"
    /\ env.lag = 0
    /\ \A w \in Wallets : ~Asks(w, "unlock")
    ~> ~info[Ch].exist

\* A lock that has been paid off the chain is not paid again on it: the payer, who
\* holds that payment, takes the channel before the withdrawal is over
\* (monitorWithdraw, ChannelPunishHtlcUnlockEvent).
PaidLockIsPunished ==
    [][\A h \in Hashes :
          /\ locks[Ch][h].withdrawer # NoAddr
          /\ locks'[Ch][h].withdrawer = NoAddr
          /\ Claims(locks[Ch][h].verifier, h) # {}
          => Gets(locks[Ch][h].verifier) = info[Ch].total]_vars
=============================================================================
