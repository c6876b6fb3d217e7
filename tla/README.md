# Formal models of trinity-eth

trinity-eth is a payment-channel wallet in Python (`wallet/`, `model/`,
`blockchain/`) together with the Solidity contracts that hold the deposits
(`contract/Trinity_Eth_Logic.sol`, `contract/Trinity_Eth_Data.sol`). Two wallets
lock tokens in the contract, exchange signed balances off the chain, and either
close together or one closes alone and the other may answer within a window.
This directory holds TLA+ models of that, the TLC configurations that check
them on small instances, and TLAPS proofs for every instance.

## 1. Inventory

| Component | State it keeps | Operations | Hard behaviour | What makes it correct |
|---|---|---|---|---|
| Channel contract (`contract/Trinity_Eth_*.sol`) | one record per channel id, five lock mappings per id, `channelNumber`, two owner-set periods, the token balance | deposit, updateDeposit, withdrawBalance, quickCloseChannel, closeChannel, updateTransaction (RSMC and HTLC branch), settleTransaction, withdraw, withdrawSettle, pause | calls of both partners and of the owner in any order, deleted ids funded again, mappings that `delete` does not clear, block windows | no token of a channel is left behind or paid twice, a dispute ends as the documents say |
| RSMC payments (`wallet/transaction/rsmc.py`, resigning in `message.py`) | none of its own: trade rows and balance of the channel | Rsmc, RsmcSign as payer and payee, resign request and answer, nonce negotiation | both users pay at once, the answer overtakes the record, lost, reordered or unsent messages, crash between send and save | both wallets agree on confirmed trades, book = signed balance, the latest confirmed trade is never an old one |
| Channel book (`wallet/channel/`, `model/`) | trade table by nonce, channel row, payment table | add, update, delete, latest_nonce, latest_valid_trade, latest_confirmed_trade | one table object whose collection is switched per call, used by several threads | a write lands in its own channel |
| Message thread and gateway (`wallet/prompt.py`, `wallet/Interface/`) | `MessageList`, in memory | pop one message, call its handler; `send_message` posts synchronously | filled by RPC threads; a post that fails raises in the middle of a handler | messages of a channel are handled one at a time |
| Event machine (`wallet/event/event.py`) | queue of events by channel name, list of names to poll, tasks started in this round, stage and start block of each event | register, trigger, get, put back, time out, retry | callers, the websocket and the monitor share the queue; at most 8 tasks per call; 30-block timeouts and one retry with 20 more blocks; a stage may raise | no event is forgotten, displaced by an older one or failed early; every event ends |
| Channel opening (`founder.py`, `channel_event.py`, `web3client.py`) | trade 1, channel state INIT to OPENED, the event with the ids of its transactions | Founder, FounderSign, approve and deposit as event stages, a retry at a higher price | both wallets run their own event; the partner approves, the founder deposits; all channels of a wallet share its allowance and its transaction nonce | a channel is OPENED only when the contract holds both deposits; nobody deposits into a channel that cannot be closed alone; allowances do not pile up |
| Cooperative close (`settle.py`, `channel_event.py`) | trade 0, channel state CLOSING and CLOSED | Settle, SettleSign, quick-close event | payments under way while closing, both users closing, a closing that was given up and one more | the contract pays the balances of both books, and what was agreed on is closed |
| HTLC payments (`htlc.py`, `rsmc.py`, `channel.py`) | HTLC trades, lock part of the balance, the secret in the rows of two channels | Htlc, HtlcSign, RResponse, the Rsmc that spends a lock, next hop, unlock on the chain | routes over several channels, decreasing expiries, the secret travelling back over two ways, sends that fail in between | no hop pays forward without being able to claim backward |
| Dispute events (`offchain_event.py`, `contract_event.py`, `connection/websocket.py`) | timers by block, registered events | force close, unlock, the CloseChannel, Withdraw and Settle notifications and the calls they cause | notification delivered once, answer within the window, one name for all events of a channel, a choice among trades | a peer's old state is answered in time, an honest closer loses nothing, a paid lock is not paid twice, a close ends |
| Block monitor (`blockchain/monitor.py`) | wallet height, chain height | poll, drive the events | skipped blocks, rounds that end before all events had a turn, wallets that change in the middle of one | every event is polled again and again; the wallet's height reaches the chain's |
| Wallet process (`lightwallet/`, `wallet/prompt.py`, `wallet/connection/websocket.py`, `wallet/Interface/tcp.py`) | the open wallet and its file, four references to it kept by four threads, the connections to the full node and to the gateway | open, create, close, lock, quit, reconnect, join the gateway | connections break while wallets change, two threads reconnect at once, the gateway restarts, a command fails half way | node and gateway know the wallet that is open; quit ends all threads |

How they interact: the console and the message thread read and write the channel
book and send messages through the gateway; handlers of Founder and Settle
register events; the block monitor and the websocket thread advance events,
which call the contract; the contract's logs come back through the websocket.
The console opens and closes the wallet all of them work with. Statistics tables,
helpers and the earlier contracts are listed in `PROJECT.json` with the reason
they are left out.

The hazards of this code, each at its line, are in `PROJECT.json` under
`hazards`, with the properties that cover them.

## 2. Plan

In order, the most important first:

1. `TrinityContract` (done): the contract, its safety, its proofs.
2. `RsmcChannel` (done): plain payments between two wallets with faults.
3. `EventMachine` (done): queue, name list, monitor and websocket threads,
   timeouts and the retry; its proofs.
4. `ChannelOpen` (done): Founder, FounderSign, and the deposit events of both
   wallets with allowances, replaced transactions and retries.
5. `QuickClose` (done): Settle, SettleSign and the close event, with payments in
   between.
6. `HtlcRoute` (done): a payment over a route, the secret going back over
   messages or over the chain.
7. `Dispute` (done): console, websocket, timers and the dispute events composed
   with `TrinityContract`.
8. `TradeTable` and `TradeBooks` (done): the table object that the threads of a
   wallet share for all channels, the books it stands for, and the refinement
   between them, checked and proved.
9. `WalletSession` (done): the threads of a wallet process and the wallet they
   work with, from its opening to quit.
10. `PaymentChannel` (open): two balances and a sequence of agreed transfers,
   implemented by `RsmcChannel` under patient users; the mapping takes the
   highest trade both hold.
11. Proofs (done): the types and the safety of `EventMachine`, `ChannelOpen`,
    `QuickClose` and `HtlcRoute`, and of `RsmcChannel` the books (`Conserved`), the
    payee's row (`PayeeCanSettle`) and what the tables of both wallets say of each
    other (`AgreeOnConfirmed`, `BookIsSigned`; `CloserNeverConvicted` and
    `ConfirmedStays` for users who wait), and of `Dispute` what an honest closer gets
    from the contract it instantiates. What may go wrong is a constant set of
    environments, so that one proof covers every environment.
12. Proofs (open): `CloserNeverConvicted` and `ConfirmedStays` for users who do
    not wait; what a settler gets in `Dispute`, which depends on delays.

`Dispute` composes: it holds an instance of `TrinityContract` and calls its
actions. The other modules meet at interfaces that are stated in both:
`QuickClose` keeps of a payment the state checks and the books of `RsmcChannel`;
`Dispute` starts where `RsmcChannel!CloserNeverConvicted` leaves off, with wallets
whose newest trades differ by at most one; `ChannelOpen` uses the contract's
`Deposit`, `QuickClose` its `QuickCloseChannel`; `EventMachine` says when the
events of the other modules have a turn; `WalletSession` says that the monitor, the
websocket and the gateway, which the other modules take for granted, come back
after a failure and work for the wallet that is open.

## 3. Modules

### Environments

Six modules (`RsmcChannel`, `ChannelOpen`, `QuickClose`, `HtlcRoute`, `Dispute`,
`WalletSession`) have a variable `env` that the initial state takes from the constant
`Environments` and no step changes: how the users behave, what may be lost, not
sent, time out or stop, and how often. One run explores all environments of its
MC module. A property that the code only promises to users who wait, or when no
message overtakes another, has that as its premise (`Orderly`, `InOrder`,
`env.calm`, `OneClosing`, ...), where a reader can see it.

### TrinityContract

One action is one transaction; whatever reverts in Solidity (a failed `require`,
SafeMath `assert`, a token transfer without funds) is a conjunct of the guard.
Logic and data contract are one module, because every public call of the first
runs the second to its end in the same transaction.

| Model | Code |
|---|---|
| `info[c]` (record `ChannelData`) | `trinityData.channelInfo[id]` |
| `locks[c][h]` (record `TimeLock`) | `timeLockVerifier`, `timeLockWithdrawer`, `lockAmount`, `lockTime`, `withdrawn_locks`; outlives `DeleteChannel` |
| `channelNumber`, `settleTimeout`, `htlcSettlePeriod`, `paused`, `block` | the variables of those names, `block.number` |
| `wallet`, `allowance`, `held` | the ERC20 token (external), a standard token that reverts a failed transfer |
| `net[c]` | auxiliary: tokens collected for `c` minus tokens paid for `c` |
| `CommonDocs`, `TxDocs`, `LockDocs` | what both partners have signed, i.e. what `verifyCommonTransaction`, `verifyTransaction` and `verifyTimelock` accept |

Signatures are modelled by those sets: a call is possible with a document only
if both partners signed it, and wallets sign only for their own channels.
`opens` says whether a document carries the secret of its hash lock, which is
what selects the HTLC branch of `updateTransaction`. Quantities are natural
numbers: `add256` reverts on overflow and no supply of tokens reaches it.

### RsmcChannel

| Model | Code |
|---|---|
| `trades[w][n]` | the row of nonce `n` in the trade table of wallet `w` |
| `balance[w]` | the balance column of the channel in the channel table of `w` |
| `pending[w]` | the console of `w` has sent an Rsmc and not yet called `add_trade` |
| `net[w]` | messages travelling to `w`, with its `MessageList` |
| `Pay`, `RecordPayment` | `RsmcMessage.create` up to the send, and after it |
| `HandleRsmc` | `RsmcMessage.handle` (payee) |
| `HandlePartnerResponse` (its second half `SignPayment`), `HandleFounderResponse` | the two roles of `RsmcResponsesMessage.handle` |
| `ResignRequest`, `Resigned`, `ResignedBalance`, `ResignAck`, `SettleHeld` | `create_resign_message_body`, `handle_resign_body` |
| `Lose`, reordering, `"unsent"` | the gateway, external |
| `"crash"`, `CrashConsole` | the wallet stops between two of its writes |

A handler is one action because a single thread runs all handlers of a wallet;
the console is another thread, whose send and record are two actions. Inside a
handler the model cuts at the gateway call, the point where it can fail: the
parameter `how` says whether the handler ends, stops in the send, or the wallet
stops after it. The channel is open in both wallets from the start. Error
answers change nothing at their receiver (`rollback_resource` does nothing) and
are left out, as are hash locks and HTLC trades, which `HtlcRoute` has.

### EventMachine

| Model | Code |
|---|---|
| `event[e]` (stage, `retry`, `start`) | `event_stage` with its iterator, `retry`, `start_time` of an `EventBase`; `_event_timeout` is `Timeout`, and `RetryTimeout` more after the retry |
| `queue`, `order` | `__event_queue`, `__event_ordered_list` |
| `caller[e]` | how far the thread that creates `e` has come: `register_event` and `trigger_start_event` are two calls, each under the lock |
| `mon` | the monitor thread: place in `monitorblock`, the height it read and the one before, `total_task_per_poll`, tasks left of this `handle`, the event in hand and `old_stage` |
| `ws` | `old_block` of the websocket thread and the events it is about to hand over |
| `timers[b]` | the entry of its `__monitor_queue` for the end block `b`: the events to hand over when `b` has passed, by age |
| `BeginPoll`, `Handle`, `EndPoll` | a round of `monitorblock`; a round may end before every name had a turn, because its 15 seconds are over |
| `GetEvent`, `RunStage`, `PutBack` | `__coroutine_handler`: between these steps other threads may take the lock |
| `MonitorDies` | the thread ends for good: `get_block_count` raises at the start of a round (`monitor.py:87`), or a round took longer than its 15 seconds and the negative time left cannot be slept (`monitor.py:131`) |
| `StageRaises` | an exception in a stage, which `ucoro` catches: what follows in the coroutine is skipped |
| `RegisterTimer`, `TimerEvent` | `register_event` and the loop over the blocks passed in the websocket's `handle` |
| `NextBlock` | the chain, external |

Here a stage moves on, stays or raises, and a run chooses which stages may do
which; what the stages of each event do is in `ChannelOpen`, `QuickClose` and
`Dispute`. The list `order` may hold a name whose event has gone; `GetEvent`
drops it, as the code does by way of an exception.

### ChannelOpen

| Model | Code |
|---|---|
| `chan[w][c]`, `row[w][c]` | state of the channel, and the trade of nonce 1 with the signatures in it |
| `event[w][c]`, `tx[w][c]` | the `ChannelDepositEvent` of wallet `w`: stage, retry, and what became of the transactions whose ids it keeps (`approved_result`, `deposit_result`) |
| `allowance[w]`, `funded` | the token's allowance for the contract; the channels the contract holds |
| `DoChannelCreate`, `Affords`, `Tokens` | `do_channel_create`, with what both wallets own on the chain at that moment |
| `Create`, `HandleFounder`, `HandleFounderSign` | `FounderMessage.create`, `.handle`, `FounderResponsesMessage.handle` |
| `Approve`, `Prepared`, `SendDeposit`, `Executed` | the stages prepare and execute, cut where one of them goes on or waits; an allowance the node does not tell counts as 0 (`"unread"`), and the wallet approves |
| `Opened`, `Confirm`; stage `"confirm"` | terminate: the state OPENED, and then the confirmed trade, are two writes of the database; other threads and the end of the wallet come in between, other events of the wallet do not (`Idle`) |
| `Submit` | `contruct_transaction`: the nonce is that of the mined transactions, so a second transaction of a wallet is refused by the node, or takes the place of the first when it pays more (`gwei_for_retry`) |
| `Timeout` | `timeout_handler`: one retry, which keeps the ids, then the error stage |

`approve` ends in `increaseApproval`, which adds. A timeout may come at any
moment: 30 blocks are not counted here, `EventMachine` counts them.

### QuickClose

| Model | Code |
|---|---|
| `chan[w]`, `book[w]`, `row[w]` | state and balance of the channel, the trade of nonce 0 |
| `Create`, `HandleSettle`, `HandleSettleSign` | `SettleMessage.create`, `.handle`, `SettleResponseMessage.handle` |
| `AddRow` | `add_or_update_quick_settle_trade`, which only ever adds |
| `Register` | `register_quick_close_event`: the younger event of a channel displaces the older |
| `Prepared`, `SendClose`, `Executed`, `Ended`, `Timeout` | the stages of `ChannelQuickSettleEvent` and its `error_handler` |
| `Pay`, `HandleRsmc`, `HandleSign0`, `HandleSign1` | a payment of one unit, as far as it touches the channel's state and books |
| `pool[w]`, `Mine` | the transaction of `w` that is under way; the contract's `quickCloseChannel` |

### HtlcRoute

Hop `i` is the channel between wallets `i` and `i + 1`. Every side of a hop has
its own state, book and rows.

| Model | Code |
|---|---|
| `book[i][s]` | balance of the channel as side `s` keeps it, the lock part of the payer included |
| `htlc[i][s]` | the HTLC trade: signed or not, the secret, its expiry, and the field `channel`, which names the hop to go on to |
| `rsmc[i][s][f]` | the RSMC trade under the hash in which side `f` pays |
| `Transfer`, `HandleHtlc`, `HandleHtlcSign0`, `HandleHtlcSign1` | `HtlcMessage` and `HtlcResponsesMessage`, with `trigger_htlc_to_next_jump` in the last |
| `HandleRResponse` | `RResponse.handle`: store, acknowledge, pay the lock, tell the previous wallet; each of the three sends may fail |
| `HandleRsmc`, `HandleSign0`, `HandleSign1` | the RSMC messages when they spend a lock |
| `Unlock`, `Notified`, `Settled` | the unlock on the chain, and what the events of both wallets do about it |
| `Delay` | `get_unlocked_block_height` |

### Dispute

| Model | Code |
|---|---|
| `Contract` | an instance of `TrinityContract` for one channel, deposited, over the documents the trades give |
| `Trades`, `final[w]` | the trades both have signed; those of them that are `confirmed` or `confirmed_onchain` in the table of `w` |
| `event[w]` | the event of the channel in `w`'s event machine: one name, so one place |
| `timers[w]`, `notices[w]`, `height[w]` | `__monitor_queue`, contract events on their way, the block up to which the websocket thread has run its timers |
| `pool[w]` | the transaction of `w` that is under way |
| `Ask` | `channel_force_close`, `channel_htlc_unlock` at the console |
| `MonitorCloseChannel`, `MonitorWithdraw`, ... | the handlers of those names in `websocket.py` |
| `ForceSettle`, `UpdateSettle`, `EndSettle`, `HtlcUnlock`, `PunishHtlcUnlock`, `SettleHtlcUnlock` | the events of `offchain_event.py`, with `force_release_rsmc` and `force_release_htlc` |
| `Mine` | a transaction is executed by the contract, in a later block than it was sent in, and emits its event |
| `InTime` | bound on delays: no block comes while something is more than `env.lag` blocks late |

### WalletSession

A wallet object is a place in the sequence `objects`; references to objects are
these places, so that one thread can go on with an object another has left.

| Model | Code |
|---|---|
| `objects[o]` | a `Wallet`: its file, its `BlockHeight` (absent until it is read or recorded), its `Url`, and in which form it holds the hash of its password |
| `files[p]` | the height stored in wallet file `p`, which is emptied before it is written |
| `ui`, `job` | `Wallet`, `Channel`, `locked`, `go_on` of the prompt, and how far its thread is with a command |
| `live`, `mon`, `ws.wallet`, `reactor.wallet` | `CurrentLiveWallet.Wallet`, the class `EventMonitor`, `ws_instance.wallet`, the wallet `connectionMade` looked up |
| `Command`, `Save`, `Write`, `Leave`, `Load`, `InitWallet`, `StartMonitor`, `Notify`, `RetryEnable` | `do_open`, `do_create`, `do_close_wallet` of the two prompts, cut where another thread may come in between or the command may fail |
| `Make`, `Record` | `Wallet.Create` and the height of a new wallet |
| `Quit`, `QuitWebsocket`, `QuitMonitor`, `Stop`, `MessageThread` | `quit`, thread after thread, and the loop of `handlemaessage`; `reactor.stop()` is taken to stop the reactor at once |
| `Toolbar` | `get_bottom_toolbar`, which reads the wallet's height and so clears `Wallet_Change` |
| `Lock`, `Unlock` | the lock of the console and `ValidatePassword` |
| `BeginRound`, `Tick` | `monitorblock` with `update_block_height` and `update_wallet_block_height`, and the two exceptions that end it |
| `BeginHandle`, `CheckListening`, `Receive` | `handle` and `receive` of the websocket thread |
| `CloseConnection`, `CreateClient`, `NotifyAgain` | `reconnect`, by either thread |
| `TcpConnect`, `Join` | `connectionMade` and the reconnecting factory of `tcp.py` |
| `GatewayStops`, `ConnectionBreaks`, `NextBlock`, `Restart` | outside the wallet, and its kill |

What the node and the gateway know (`ws.told`, `gw.wallet`) is external. What is
said over the connections is in the other modules.

### TradeTable and TradeBooks

`APITransaction` keeps one table object in its class; naming a channel sets the
collection of that object, and the operation that follows works on whatever
collection is set. `TradeTable` has these as two steps (`SetCollection`,
`Operate`). `TradeBooks` is what the threads may rely on: a book per channel and
operations of one step, on the book of the thread's own channel. Only a thread
that has gone `astray` works on some other book; it goes astray (`Reach`) when
another thread reaches for a different channel. The mapping takes a collection to
the book it stands for (`BookOf`), and `astray` to the history variable `overtaken`:
the threads that named their channel before another named a different one, and have
not worked on it yet. The abstract specification the protocol modules take for
granted is that of a wallet in which no thread is overtaken. Both modules have the
two compound operations of the code, the next nonce followed by an add, and a
lookup followed by an add or an update, as several steps. `DBManager.add` looks the
table up three times; only the last, `insert_one`, says where the row goes, since a
collection that has its index is not changed by the two before.

### MC modules

`MC...` modules give the constants small values. The definitions named "Mutant
of ..." in the component modules are plausible bugs in the definition that
follows them; they are not part of the specification.

## 4. Runs

| Run | Instance | What it shows |
|---|---|---|
| `contract` | two channels of the same partners on one token balance, three payment documents, one lock, 4 blocks | the amounts frozen by closeChannel cover the total (`ClosingCovers`) and never change (`ClosingFrozen`); a lock id is spent once for ever, also across delete and a new deposit (`LockSpentForever`); nothing is left behind (`NothingLeftBehind`); the count is sound (`CountNeverAbove`); the only step that pays more than it books is a settlement whose total a lock payment lowered (`OnlyStaleSettleOverpays`) |
| `rsmc` | six environments: patient users with two amounts, three messages lost (nonces to 5) or four lost or not sent (nonces to 4); eager users with two amounts and no fault, with one amount and messages lost or unsent; eager and patient users with any two faults | no asset is created or destroyed in a book (`Conserved`) in all of them; the latest confirmed nonces of the wallets differ by at most one (`CloserNeverConvicted`), a confirmed trade is never touched again (`ConfirmedStays`), a payee can settle with its row (`PayeeCanSettle`), confirmed on both sides means the same trade (`AgreeOnConfirmed`), and the book is what the peer signed (`BookIsSigned`) in those their premises name |
| `event_queue` | two events of one channel, one of them timed, every outcome of a stage, 8 blocks | an event that is queued and triggered will be polled (`TriggeredIsOrdered`); it fails only after the blocks of both attempts (`FailsLate`); it leaves the machine only when it is over, when its stage raised, or for a younger event (`LeavesEnded`); a timer whose block is to come is handed over (`TimerFires`) |
| `event_ends` | two channels polled one at a time, transactions never mined, no stage that raises, a monitor thread that may die, 11 blocks | as long as the monitor thread lives, every triggered event leaves the machine (`EventEnds`): nothing starves, both timeouts are seen |
| `open` | one or two of three channels between two wallets, in seven environments | what is OPENED is funded and signed by both, and its founding trade is confirmed but between the two writes of terminate or after a stop there (`OpenedIsFunded`); deposits enter only channels whose first trade both hold with both signatures (`FundedIsSigned`); an allowance is at most what the channels still need (`AllowanceIsNeeded`); channels get opened, with the trade confirmed, by both (`AgreedOpens`) |
| `close` | two closings, payments between or during them, up to four faults of five kinds | the contract pays balances both books have shown together, and the books of the moment if nobody pays meanwhile (`PaidIsAgreed`); what one wallet starts and both sign is closed for both (`AgreedCloses`) |
| `route` | four wallets, fees, any one fault or two failed sends, 2 blocks of a 2-block day | books are conserved (`Conserved`); whoever locks forward holds a lock backward (`ForwardIsCovered`) that expires later (`IncomingOutlives`), and whoever paid can claim (`PaidCanClaim`); without faults the payment arrives (`PaymentArrives`) |
| `dispute_timely` | four trades (one of them an HTLC that is paid), windows of 4 blocks, everything at most a block late | a close with any trade pays the other at least what its newest trade gives (`PlainNewestWins`); a lock that was paid is not paid on the chain (`PaidLockIsPunished`); closes end (`CloseEnds`) |
| `dispute_late` | the same trades, windows of one block, any delay, one restart or one call not sent | who closes with its newest trade loses nothing (`HonestCloserKeeps`) |
| `table` | console and message thread on two channels, 2 rows, 2 nonces | the table is a book per channel with operations of one step, on the own channel's book unless the other thread named the other channel in between (`Implements`) |
| `session` | two wallet files, two wallets after each other, blocks 4 to 6, seven environments: connections that break or cannot be opened, a gateway that restarts, blocks during changes, a node that does not answer, a kill, a lock | however two threads reconnect, the node hears of the open wallet (`NodeKnows`); a gateway that restarted learns of it (`GatewayKnows`); the monitor brings its wallet to the chain's height (`CatchesUp`); quit ends all threads (`QuitEnds`) |
| `dispute_claim` | three trades, the newest paid a lock | violated: a stale close wins, because the answer goes into the wrong branch of updateTransaction |

Bounds. `MaxBlock = 4` with periods of one block lets a settle window and a lock period
open and end, in both orders. One lock and documents with the nonces 1 to 4 (1 in the
common documents) reach every branch of the dispute: an answer older than the close,
equal, next and newer. Two channels are enough for one to be paid from the other. In the
payments, nonce 1 is the founding trade; nonces to 3 let two payments meet, nonces to 5
let a payment resign its predecessor and be resigned itself. In the event machine
`CoroNumber` is 1 where the code has 8, so that two channels compete for a task as nine
do in the code; timeouts are 1 block and 1 or 3 more, long enough for an event to be
polled before, at and after its timeout; `MaxSkip` lets the chain grow by up to two
blocks between two rounds. Two channels of one founder, or of opposite founders, are
enough to share an allowance and a pending transaction in every way two events can. Two
closings let the second meet the row of the first. Four wallets are the shortest route
with a wallet whose neighbours are both between the ends; three units of fee make every
hop's amount different. In a dispute, four trades with an HTLC in the middle let a
wallet hold a trade more or less than its partner, close with an older one, and own or
lack the payment of the lock; `MaxBlock` is large enough for a close asked in the last
block allowed to run out its window in `dispute_timely`, and for a close, its window and
the settlement in `dispute_late`. In a session, two objects are the open wallet and the
one a thread may still hold; heights from 4 to 6 with `Far` 3 and `Recent` 2 (2010 and
2000 in the code) let a wallet be level, near and far behind; two faults let a
connection break again while it is opened again, and a gateway stop while a wallet
joins. `dispute_timely`, `dispute_late`, `close`, `open`, `route`, `rsmc` and `session`
leave out the type invariant of their module, which holds there too. All runs have
`CHECK_DEADLOCK FALSE`: blocks, nonces and requests are bounded, so behaviours end.

What the runs do not claim. Eager users may reach states in which a confirmed trade is
signed anew once messages are reordered or a wallet crashes, and in which the wallets
hold different trades as confirmed without any fault; a payee that crashes may be left
with a row its signatures do not cover; and a trade confirmed while the gateway was out
of reach leaves the book behind the signature: hence the premises in `RsmcChannel`, of
which section 7 names the cases. `EventEnds` does not say that an event succeeds, nor
anything of events whose monitor thread has died, and `LeavesEnded` names the two ways
an unfinished event is lost. `AgreedOpens`, `AgreedCloses` and `CloseEnds` are asked of
wallets whose monitor thread lives. `Implements` does not say that a thread which was
overtaken reaches its own book. `TimerFires` says nothing of a notification that is
handled after its own block, nor of two timers of one block. `AgreedOpens` is asked of
one channel when its events may time out: of two channels that share an allowance, the
retry of one can leave the other waiting for ever. `PlainNewestWins` is asked of a
settler that does not close itself, whose close would displace the event that answers.
`NodeKnows` and `CatchesUp` except a thread that an unanswered call has ended,
`GatewayKnows` is asked while one wallet file is used, and `QuitEnds` excepts a wallet
whose opening failed half way: see Known disagreements.

Fairness. The contract, the payments and the table have safety properties only and
assume none. Elsewhere it is weak fairness of whole threads: a wallet's message thread
(`Message`, `Handle`) and its monitor thread (`Turn`, `RunEvent`) are loops that never
wait for each other (that the monitor may die is in `EventMachine` and `WalletSession`,
whose properties except it, and in no other module), the websocket thread handles its
notifications and blocks and the reactor its connection, the console ends a command it
began, a caller that registered an event triggers it in its next statement, a
transaction the node accepted is mined, and blocks come. `Turn` and `Mined` are one
condition per wallet, not one per channel: that some event of a wallet gets on is less
than the polling of every name promises. An event that sends while another transaction
of its account is pending gets nothing, so a turn counts as one only when nothing is
pending. No stage is fair in `event_ends`, where a transaction may never be mined and
the code promises an end only by its timeouts. No user is made to open, close or pay,
except that the route of `PaymentArrives` starts with a payment.

## 5. Proofs

`TrinityContractProofs` proves, for any accounts, channels, hashes, documents,
periods and supply that satisfy `PartiesAssumption`, `DocsAssumption` and
`BoundsAssumption`:

| Theorem | States |
|---|---|
| `TypeCorrect` | `Spec => []TypeOK` |
| `DisputeCovered` | `Spec => []ClosingCovers` |
| `NothingStranded` | `Spec => []NothingLeftBehind` |
| `CountSound` | `Spec => []CountNeverAbove` |
| `LockSpentOnce` | `Spec => LockSpentForever` |
| `DisputeFrozen` | `Spec => ClosingFrozen` |
| `OverpaysOnlyStale` | `Spec => OnlyStaleSettleOverpays` |

The argument. `TypeOK` is inductive by itself: each subtraction is guarded, as SafeMath
guards it. `NothingLeftBehind` is not: a settlement pays the amounts `closeChannel`
froze, so they must cover the total (`ClosingCovers`), and a lock claimed on a deleted
id must find a zero total there (`LiveOrGone`). The three together are `AllGood`, stated
per channel (`ChannelGood`); the inductive invariant is `IInv == TypeOK /\ AllGood`. A
step writes one channel, so the lemma `OneChannel` reduces each action to the channel it
names. `CountNeverAbove` uses the cardinality facts of FiniteSetTheorems: a deletion
removes at most one element of `Existing`, and a creation adds one. `LockSpentForever`
follows from the guards of the two actions that write `locks`. `ClosingFrozen` holds of
each step under `TypeOK`: between the close and the deletion nothing but the total is
written, and both the answer and the settlement delete the channel.
`OnlyStaleSettleOverpays` compares what each step pays with what it takes off the total;
only the settlement pays amounts that were written earlier.

`EventMachineProofs` proves, for any channels, events, coroutines, timeouts and
blocks that satisfy `MachineAssumption`, with any choice of stages that move or
raise:

| Theorem | States |
|---|---|
| `CoreCorrect` | `Spec => []CoreOK` |
| `TypeCorrect` | `Spec => []TypeOK` |
| `NoneForgotten` | `Spec => []TriggeredIsOrdered` |
| `ErrorsAreLate` | `Spec => []FailsLate` |
| `NoneDropped` | `Spec => LeavesEnded` |

The argument. `CoreOK` is `TypeOK` without the websocket's list and without the
bound of `tasks`; two of its parts carry the rest: the queue holds an event only
under its own channel, and the monitor has an event in hand exactly while it
runs one. `TriggeredIsOrdered` is inductive with it: a name leaves the list only
together with its event, and comes back with it. `FailsLate` is not: the error
stage follows the second timeout, so `TimesOutLate` (a retried event in the
timeout stage has used up the blocks of both attempts) is carried along.
`LeavesEnded` is a property of each step under `CoreOK`. The rest of the types
needs two facts more: an event is in one entry of `__monitor_queue` at most, since it
registers once, and what the websocket thread is about to hand over is the
concatenation of entries, each a sequence of timed events.

`TradeTableProofs` proves, for any threads, channels, rows and nonces that
satisfy `TradeTableAssumption`:

| Theorem | States |
|---|---|
| `TypeCorrect` | `Spec => []TypeOK` |
| `TableImplementsBooks` | `Spec => Implements` |

The argument. A collection
never has two documents of one nonce (`Clean`), so a document is what its book
holds under its nonce (`BookHolds`), and adding, updating and deleting a document
do to the book what the operations of `TradeBooks` do (`InsertAdds`,
`UpdateUpdates`, `DeleteDeletes`); the first document of the sorted collection is
the newest trade (`LatestIsNewest`, by the well-founded order of the naturals).
What ties the two levels together is `OnOwn`: a thread that has named its channel
and was not overtaken finds the table's collection to be that channel. Naming a
channel is the `Reach` of `TradeBooks`, and every operation is the abstract one on
the book of the collection that is set (`OperateMaps`), which under `OnOwn` is the
thread's own or, for a thread astray, some channel's (`NextMaps`).

`RsmcChannelProofs` proves, for any deposits, amounts, bound on the nonces and
environments that satisfy `RsmcAssumption`:

| Theorem | States |
|---|---|
| `TypeCorrect` | `Spec => []TypeOK` |
| `BooksConserved` | `Spec => []Conserved` |
| `PayeeSettles` | `Spec => []PayeeCanSettle` |

The argument. A book is written from a resigned row or by a payment, a row from a
message, a message from a row or a book: so all of them must add up to what was
deposited (`CBal`), and the invariant `IInv` types tables, messages and pending rows
with such balances. The founding trade stays confirmed, since no message is about
nonce 1 (`Tables`, `PaidNonces`); hence there is a latest valid trade to compute
from (`LatestFacts`). `PayeeCanSettle` needs the second invariant `PInv`, which
holds where its premise does (`Careful`): one message at a time (`OneAtATime`),
which therefore is about the one row of the payee that waits for a signature
(`Told`, `Waiting`), rows of a payee signed for the balances they keep
(`PayeeSigned`), and a resign body that never names the row its message is about.
What resigning leaves of a table is `Kept`.

It goes on, under the same assumption, with what the tables of both wallets say of
each other:

| Theorem | States |
|---|---|
| `WalletsAgree` | `Spec => []AgreeOnConfirmed` |
| `BookSigned` | `Spec => []BookIsSigned` |
| `PatientCloserNeverConvicted` | `Spec /\ env.patient => []CloserNeverConvicted` |
| `PatientConfirmedStays` | `Spec /\ env.patient => ConfirmedStays` |

The first two have the users who wait in their own premise. The last two are the
properties restricted to such users: for the others, who may have several
messages under way, they are model-checked only.

The argument. None of the four is inductive: whether an answer is accepted, and
what it makes of a row, depends on what the other wallet keeps and on what is said
in the message. The invariant `AInv`, which holds for users who wait, with no
message overtaking another and no crash (`Patient`), has three parts.

- `AllPaired` relates the two tables. Each is valid up to a nonce (`Line`); only a
  payee that awaits its payer's signature is ahead, by one (`Ahead`); of a trade
  valid at both, one is the payer and both have signed the same (`Agree`). A payer
  may have signed a row before its payee (`Early`), which happens when the answer
  to its resign request was accepted and its own signature still travels or is
  lost; then the payee has signed the same, or still awaits the payer on the row
  before, or the wallets keep different balances, and the payee signs nothing more.
  In orderly environments the balance is the one the peer's signature covers on the
  last confirmed row (`Books`).
- `AllTold` says what the one message under way says of both tables, for each of
  its three kinds (`PaymentSays`, `AnswerSays`, `SignatureSays`): which row it is
  about, who has signed that, and which row its resign body names.
- `ConsolesFresh`: the row the console is about to record is one nobody signed.

The part about resigning is in two lemmas, used by all handlers: `RequestTaken`
(the receiver of a resign request signs the payer's row, and confirms it) and
`AckTaken` (the payee confirms with the answer). Then there is one lemma for each
handler and way through it: a payment the payee agrees to or refuses
(`RsmcAsked`, `RsmcUnasked`), an answer without or with a signature
(`AnswerUnsigned`, `AnswerSigned`), the payer's signature that confirms or only
asks (`SignatureConfirms`, `SignatureAsks`), and the steps of console and gateway
(`PayAgreed`, `RecordPaymentAgreed`, `RefuseResignAgreed`, `LoseAgreed`). That no step
touches a confirmed row (`NextKeeps`) follows from the same invariant.

`ChannelOpenProofs` proves, for any accounts, channels, deposits, bounds and
environments that satisfy the assumptions of `ChannelOpen`:

| Theorem | States |
|---|---|
| `TypeCorrect` | `Spec => []TypeOK` |
| `OpenedFunded` | `Spec => []OpenedIsFunded` |
| `FundedSigned` | `Spec => []FundedIsSigned` |
| `AllowanceNeeded` | `Spec => []AllowanceIsNeeded` |

The argument follows a channel through its states. Before it has a row nothing is
known of it (`FreshOK`); an answer of the partner under way means that the partner
holds the first trade with both signatures (`AnswerOK`); the founder sends a
deposit only after it took that answer, so a deposit that is sent, mined or in the
contract belongs to a channel whose first trade both hold (`DepositOK`, `EventOK`);
and OPENED is written only by an event that read the deposit from the contract, which
nothing takes away there (`OpenedOK`). What the second write of terminate adds is a
second invariant, `CInv`, on top of the first: an event that works on has opened nothing
yet, one between the two writes has opened its channel, one that is over has confirmed
the trade as well, and no other trade is confirmed (`ConfirmOK`); Founder and FounderSign
are handled before that, once (`OnceOK`).

For the allowance the inductive invariant is an equation over all channels of a
wallet (`AInv`): the allowance and the deposits taken for its funded channels are
together the deposits of the channels whose approval was mined (`AllowanceOK`), and
it approves for its own channels only (`OwnOK`). An approval is mined once for a
channel, because a retry replaces the one that waits and none is sent after one that
was mined (`ApproveAllowance`); a mined deposit takes both sides' parts together
(`MineAllowance`). The sums are the library's, which takes a set apart with a
recursive function that TLA+ only chooses: the lemmas show that this function exists
and is unique (`SumsExist`, `SumsUnique`) and that any part of a set can be taken off
its sum (`PutParts`). Each is by a smallest counterexample (`Smallest`), which the
well-foundedness of strict subsets of a finite set gives; hence `ChannelsFinite`.

`QuickCloseProofs` proves, for any deposits, amounts, bounds and environments that
satisfy the assumption of `QuickClose`:

| Theorem | States |
|---|---|
| `TypeCorrect` | `Spec => []TypeOK` |
| `PaysAgreed` | `Spec => []PaidIsAgreed` |

The argument. Balances are agreed when both books have shown them together
(`Agreed`); all balances that can reach the contract are: those of a closing
message, of a row, of a signature, of a transaction (`MsgsOK`, `EventOK`, `PoolOK`,
`PaidOK`). A closing takes them from a book that equals the other's, except while
the one payment message is under way (`NetOK`, `BooksOK`). For users who do not pay
while somebody closes, `QuietOK` says that the books stand still meanwhile
(`StaysQuiet`), so what is paid is what they show.

`HtlcRouteProofs` proves, for any number of wallets, fees, amounts, days and
environments that satisfy the assumption of `HtlcRoute`:

| Theorem | States |
|---|---|
| `TypeCorrect` | `Spec => []TypeOK` |
| `BooksConserved` | `Spec => []Conserved` |
| `Covered` | `Spec => []ForwardIsCovered` |
| `Outlives` | `Spec => []IncomingOutlives` |
| `PaidClaims` | `Spec => []PaidCanClaim` |

The argument. Messages travel between neighbours, and a hop is locked by one
message at a time (`NetOK`: `Addressed`, `Unique`). A message that locks a hop finds
the hop before it locked with a longer expiry and the fee on top (`LockingOK`), one
that pays it back finds the hop locked (`PayingOK`); the rows of both ends say the
same (`PayerRowOK`, `PayeeRowOK`), whoever knows the secret got it over a hop that
was locked (`SecretOK`), and the books follow the rows (`BooksOK`). `Grows` says that
rows only grow, so that what a message relies on is still there when it arrives.

`DisputeProofs` proves, for any trades, windows, bounds and environments that satisfy
`DisputeAssumption`:

| Theorem | States |
|---|---|
| `CloserKeeps` | `NoLockBefore` implies `Spec /\ []NoneWithdraws => HonestCloserKeeps` |

The two premises are where the property has its limits. Without `NoneWithdraws` (no lock
is being withdrawn while the channel closes) the lock is paid from the same tokens.
Without `NoLockBefore` (the last trade is no payment made while the trade before it
held a lock open) it is false, see section 7. TLC shows both: the conclusion without
`NoLockBefore` fails on four trades, the proved form holds on the instance of the run
with requests of both users, and closings by an honest partner do occur there.

The argument. While a channel closes, the contract holds the balance of the trade the
closer sent (`ClosingOK`); transactions carry trades of the table (`TxOK`), and a wallet
never has fewer final trades than at the start (`FinalOK`), so that no payment is newer
than the closer's newest trade by more than one (`OneAhead`). Then there is one lemma
for each transaction of the contract: an answer pays the closer as an equal or newer
trade or as the one it closed with, and convicts nobody (`UpdateFacts`); the end of the
window pays what it closed with (`SettleFacts`); a lock cannot be paid
(`ExecutesFacts`). That the least balance exists, of which `Share` speaks, is the
well-founded order of the naturals (`ShareFacts`). The step `Mine` is split without
evaluating ENABLED: whether or not the contract refuses, it executes the transaction or
nothing.

Each inductive invariant was first checked by TLC on the instances of the runs or
larger ones.

Only model-checked so far: `CloserNeverConvicted` and `ConfirmedStays` where users
do not wait for a payment to end, so that several messages about several rows are
under way; `PlainNewestWins` and `PaidLockIsPunished` of `Dispute`, which need that a
wallet's transaction is executed in time, and so that the contract accepts it: the
ENABLED of `Dispute!Mine`. Out of reach of the prover and left to TLC in any case:
ENABLED, liveness under fairness (`EventEnds`, `TimerFires`, `AgreedOpens`,
`AgreedCloses`, `PaymentArrives`, `CloseEnds`, and all of `session`), and what
recursive definitions compute, but for the sum of deposits in `ChannelOpenProofs`; no
module declares a RECURSIVE operator.

## 6. Findings

One disagreement between the code and what its comments say, with a run that
exhibits it; the quotation is in `PROJECT.json`.

- `force_release_rsmc` answers with the hash and the secret of the newest row; if
  that row paid a lock, the contract takes the answer for an HTLC update and
  refuses it (`dispute_claim`).

## 7. Known disagreements

What the models do because the code does it, and the properties leave room for.
None of these has a run of its own.

Contract
- `settleTransaction` pays amounts frozen before a lock of the channel was paid
  (`Trinity_Eth_Logic.sol:774`): it takes the difference from the deposit of
  another channel, or is reverted when there is none, although the comment at line
  750 promises the closer its assets. `OnlyStaleSettleOverpays` says that this is the
  only step which pays more than it books.
- `channelNumber` is decremented a second time for an HTLC update on an id already
  deleted (`Trinity_Eth_Data.sol:381`), so it can fall below the number of
  channels; `CountNeverAbove` says it never rises above.

Payments
- `handle_partner_response` signs recomputed balances and keeps those of `create`
  in the row (`rsmc.py:465`).
- The nonce taken by the console may be used by the message thread before the
  console records its trade; the refused insert goes unnoticed (`rsmc.py:305`).
- A payee that is asked a second time under one nonce writes the new trade over
  its row, whatever the row's state (`rsmc.py:216`). Users who pay while a payment
  is under way can thus hold different trades as confirmed without any fault: a
  resign request makes the payee negotiate the nonce of a trade it is about to
  confirm, and it signs a second one over it. Hence the premise of
  `AgreeOnConfirmed`.
- Three messages that overtake each other, or four faults with a crash, let such
  users confirm a trade anew and get two confirmed trades apart: hence the premises
  of `CloserNeverConvicted` and `ConfirmedStays`.
- A payee writes its row after its answer has left (`rsmc.py:216`). If it dies in
  between, under a nonce for which it holds an older row of another amount, the
  payer's signature over the new balances confirms the old row, and neither
  closeChannel nor resigning accepts it: hence the premise of `PayeeCanSettle`.
- A trade table with two threads on two channels: a thread can write into the
  collection another has just named (`transaction_model.py:70`): the row is missing in
  one channel and stands in the other. `Implements` says that this happens to an
  overtaken thread only.

Opening and closing together
- Two channels can be created against the same tokens (`prompt.py:329`): the
  deposit of the second fails and is sent again until its event gives up, and its
  approvals stay.
- A payment completed between the signatures of a closing and CLOSING is not in
  what is paid out (`settle.py:148`).
- A second closing keeps the row of the first (`settle.py:107`); the signatures it
  gets are checked against that row, so it closes only if the balances are the
  same again.
- Closings of both users that cross end in refused calls (`settle.py:93`).
- The error stage writes OPENED although the transaction may still be mined
  (`channel_event.py:280`).
- OPENED and the confirmed founding trade are two writes (`channel_event.py:170` and
  171): a wallet that stops in between has an OPENED channel in which
  `latest_confirmed_trade` (`channel.py:320`) finds nothing, so that it cannot close
  alone (`channel.py:530`) although it holds both signatures.
- An allowance the node does not tell is 0 (`contract_event.py:126`): the wallet
  approves what was approved already.

Hash locks
- A payment that spends a lock is compared with the free balance, which the lock
  has left (`message.py:292`): a wallet needs the amount twice.
- The secret read from the chain is stored in the row of one channel
  (`channel.py:668`), told to the wallet that opened the channel
  (`channel.py:728`), and the HTLC trade keeps the default secret on the other:
  off the chain its payer refuses the signature.
- The expiry of a lock is never looked at when a Htlc message is handled
  (`htlc.py:125`).

Disputes
- The answer to a close is sent once (`offchain_event.py:120`), and not at all
  while another transaction of the account is under way.
- SETTLED is written when closeChannel was sent, not when it was mined
  (`offchain_event.py:72`).
- Timers of one channel for the same block replace each other
  (`websocket.py:239`).
- `ChannelSettleHtlcUnlockEvent` gives the private key for the invoker, and
  withdrawSettle is never sent (`offchain_event.py:297`).
- The trade to close with is the newest confirmed one, and an HTLC trade is
  confirmed only when it is spent. A payment over an open lock is accepted
  (`message.py:866`); a partner that has not confirmed it yet closes with a trade
  two nonces older than its peer's, whose answer convicts it (`channel.py:320`;
  `NoLockBefore` in `DisputeProofs`).
- closeChannel is refused after a lock was paid on the chain: the trades still add
  up to the old total (`channel.py:552`).

Wallet process
- `CurrentLiveWallet.Wallet` and `ws_instance.wallet` outlive a close
  (`prompt.py:213`): when the connection to the gateway comes back, the reactor joins
  with the closed wallet (`tcp.py:49`). `Channel` stays true, so that the next wallet
  passes `channel_opened` although it could not be enabled (`prompt.py:70`).
- A message queued for a closed wallet is handled with the wallet that is open by
  then, or with none (`message.py:193`).
- A round of the monitor that began with one wallet writes its count to the next,
  whose height can go back (`monitor.py:55`); only the first update after a change
  is left out.
- A wallet file without a height, as `Create` leaves it when the node does not
  answer the first block count, is not counted up when it is opened
  (`monitor.py:71`).
- An open or create that failed half way leaves a wallet without a height:
  saving it raises, so it cannot be closed, and quit never stops the reactor
  (`prompt.py:222`).
- The hash a created wallet keeps of its password is the hexadecimal form
  (`wallet.py:67`), which `ValidatePassword` compares with a digest: once locked, its
  console stays locked until it is left.
- A block count the node does not answer ends the monitor (`monitor.py:87`) or, at
  its start, the websocket thread (`websocket.py:180`). A round of the monitor that
  takes longer than 15 seconds ends it too: it sleeps a negative time
  (`monitor.py:131`). No event of the wallet is polled after that.
- The wallet file is emptied before it is written (`wallet.py:353`): a kill in
  between leaves a file that cannot be read.

## 8. Not modelled

- Payments that redeem a hash lock in a channel with other payments: the nonces
  and the resigning of HTLC trades (`RsmcChannel` has plain payments only,
  `HtlcRoute` one payment per channel). Their product is out of reach of an
  exhaustive run.
- What is not a protocol step: chain access (each call is an action of the
  contract here), statistics, address book and history tables, logging,
  the console's listings and conversions for display, the light wallet's key
  encryption, exports and transfers, superseded contracts and operator scripts.
- What nothing calls: `unregister_event`, `update_event`, `withdrawForPartner` and the
  other entries of the data contract that the logic contract leaves alone; the owner's
  `setToken` and `setDataContract`.

## 9. Running

    tlc -workers 2 -config MCDispute_timely.cfg MCDispute
    tlapm TradeTableProofs.tla

Each run finishes in three minutes; a proof module takes from half a minute to a few
minutes.
