-------------------------- MODULE TrinityContract --------------------------
(***************************************************************************)
(* The on-chain half of trinity-eth: TrinityContractCore                   *)
(* (contract/Trinity_Eth_Logic.sol) together with the storage contract it  *)
(* drives, TrinityContractData (contract/Trinity_Eth_Data.sol).            *)
(*                                                                         *)
(* One action is one transaction.  A failed require, a SafeMath assert or  *)
(* a failed token transfer reverts the whole transaction, so each of them  *)
(* is a conjunct of the action's guard.  The signature checks are          *)
(* modelled by the sets of documents both partners have signed: a          *)
(* document is a parameter of a call only if it belongs to those sets, and *)
(* the wallets sign documents of their own channels only.  The two owner   *)
(* functions that replace the token or the data contract are left out.     *)
(***************************************************************************)
EXTENDS Integers, FiniteSets

CONSTANTS
    Addr,        \* the accounts that call the contract
    NoAddr,      \* address(0)
    Channels,    \* channel ids
    Founder,     \* Founder[c], Peer[c]: the two partners of channel c
    Peer,
    Hashes,      \* hash locks
    NoHash,      \* a document whose secret does not open its lockHash
    CommonDocs,  \* documents accepted by verifyCommonTransaction
    TxDocs,      \* documents accepted by verifyTransaction
    LockDocs,    \* documents accepted by verifyTimelock
    Periods,     \* values the owner gives settleTimeout, htlcSettlePeriod
    Approvals,   \* amounts an account approves for the contract
    Supply,      \* the wallets at the start
    MaxBlock     \* bound: the last block of a behaviour

ASSUME PartiesAssumption ==
    /\ NoAddr \notin Addr
    /\ Founder \in [Channels -> Addr]
    /\ Peer \in [Channels -> Addr]
    /\ \A c \in Channels : Founder[c] # Peer[c]

ASSUME DocsAssumption ==
    /\ CommonDocs \subseteq [ch : Channels, nonce : Nat, founderBalance : Nat, partnerBalance : Nat]
    /\ TxDocs \subseteq [ch : Channels, nonce : Nat, founderBalance : Nat, partnerBalance : Nat,
                         opens : Hashes \cup {NoHash}]
    /\ LockDocs \subseteq [ch : Channels, sender : Addr, receiver : Addr, lockTime : Nat,
                           lockAmount : Nat, lockHash : Hashes]
    /\ \A d \in LockDocs : {d.sender, d.receiver} = {Founder[d.ch], Peer[d.ch]}
    /\ NoHash \notin Hashes

ASSUME BoundsAssumption ==
    /\ IsFiniteSet(Channels)
    /\ Periods \subseteq Nat
    /\ Approvals \subseteq Nat
    /\ Supply \in [Addr -> Nat]
    /\ MaxBlock \in Nat

VARIABLES
    block,             \* block.number
    paused,            \* Owner.paused of the logic contract
    settleTimeout,     \* trinityData.settleTimeout
    htlcSettlePeriod,  \* trinityData.htlcSettlePeriod
    channelNumber,     \* trinityData.channelNumber
    info,              \* trinityData.channelInfo
    locks,             \* the five mappings of ChannelData; delete does not clear them
    wallet,            \* token balance of each account
    allowance,         \* what the data contract may still draw from each account
    held,              \* token balance of the data contract
    net                \* auxiliary: tokens collected minus tokens paid for each channel

config == <<settleTimeout, htlcSettlePeriod, paused>>
token  == <<wallet, allowance, held, net>>
vars   == <<block, config, channelNumber, info, locks, token>>

Status == {"INIT", "OPENING", "CLOSING"}

ChannelData ==
    [closer : Addr \cup {NoAddr}, settler : Addr \cup {NoAddr}, total : Nat,
     closingNonce : Nat, expectedSettleBlock : Nat, closerBalance : Nat,
     settlerBalance : Nat, status : Status, exist : BOOLEAN]

TimeLock ==
    [verifier : Addr \cup {NoAddr}, withdrawer : Addr \cup {NoAddr},
     amount : Nat, time : Nat, withdrawn : BOOLEAN]

\* What reading channelInfo gives for an id never written, or deleted.
NoChannel ==
    [closer |-> NoAddr, settler |-> NoAddr, total |-> 0, closingNonce |-> 0,
     expectedSettleBlock |-> 0, closerBalance |-> 0, settlerBalance |-> 0,
     status |-> "INIT", exist |-> FALSE]

NoLock ==
    [verifier |-> NoAddr, withdrawer |-> NoAddr, amount |-> 0, time |-> 0, withdrawn |-> FALSE]

Existing == {c \in Channels : info[c].exist}

TypeOK ==
    /\ block \in Nat
    /\ paused \in BOOLEAN
    /\ settleTimeout \in Nat
    /\ htlcSettlePeriod \in Nat
    /\ channelNumber \in Nat
    /\ info \in [Channels -> ChannelData]
    /\ locks \in [Channels -> [Hashes -> TimeLock]]
    /\ wallet \in [Addr -> Nat]
    /\ allowance \in [Addr -> Nat]
    /\ held \in Nat
    /\ net \in [Channels -> Int]

Init ==
    /\ block = 0
    /\ paused = FALSE
    /\ settleTimeout \in Periods
    /\ htlcSettlePeriod \in Periods
    /\ channelNumber = 0
    /\ info = [c \in Channels |-> NoChannel]
    /\ locks = [c \in Channels |-> [h \in Hashes |-> NoLock]]
    /\ wallet = Supply
    /\ allowance = [a \in Addr |-> 0]
    /\ held = 0
    /\ net = [c \in Channels |-> 0]

-----------------------------------------------------------------------------
(* The ERC20 token.  transferFrom needs the balance and the allowance;     *)
(* transfer reverts when the contract holds too little.                    *)

Collect(c, a, x, b, y) ==
    /\ x <= wallet[a] /\ x <= allowance[a]
    /\ y <= wallet[b] /\ y <= allowance[b]
    /\ wallet' = [wallet EXCEPT ![a] = @ - x, ![b] = @ - y]
    /\ allowance' = [allowance EXCEPT ![a] = @ - x, ![b] = @ - y]
    /\ held' = held + (x + y)
    /\ net' = [net EXCEPT ![c] = @ + (x + y)]

Pay(c, a, x, b, y) ==
    /\ x + y <= held
    /\ wallet' = [wallet EXCEPT ![a] = @ + x, ![b] = @ + y]
    /\ held' = held - (x + y)
    /\ net' = [net EXCEPT ![c] = @ - (x + y)]
    /\ UNCHANGED allowance

Approve(a, n) ==
    /\ allowance' = [allowance EXCEPT ![a] = n]
    /\ UNCHANGED <<block, config, channelNumber, info, locks, wallet, held, net>>

\* Mutant of DeleteChannel: the channel count is forgotten.
DeleteChannelUncounted(c) ==
    /\ info' = [info EXCEPT ![c] = NoChannel]
    /\ UNCHANGED channelNumber

\* Mutant of DeleteChannel: the count is decremented without sub256.
DeleteChannelUnchecked(c) ==
    /\ channelNumber' = channelNumber - 1
    /\ info' = [info EXCEPT ![c] = NoChannel]

\* delete trinityData.channelInfo[c], with channelNumber.sub256(1)
DeleteChannel(c) ==
    /\ channelNumber >= 1
    /\ channelNumber' = channelNumber - 1
    /\ info' = [info EXCEPT ![c] = NoChannel]

-----------------------------------------------------------------------------
(* Funding and the cooperative exits.                                      *)

\* The ChannelData createChannel writes.
NewChannel(total) ==
    [closer |-> NoAddr, settler |-> NoAddr, total |-> total, closingNonce |-> 0,
     expectedSettleBlock |-> 0, closerBalance |-> 0, settlerBalance |-> 0,
     status |-> "OPENING", exist |-> TRUE]

Deposit(d) ==
    LET c == d.ch IN
    /\ ~paused
    /\ ~info[c].exist
    /\ Collect(c, Founder[c], d.founderBalance, Peer[c], d.partnerBalance)
    /\ info' = [info EXCEPT ![c] = NewChannel(d.founderBalance + d.partnerBalance)]
    /\ channelNumber' = channelNumber + 1
    /\ UNCHANGED <<block, config, locks>>

\* Mutant of UpdateDeposit: any channel with a status can be topped up.
UpdateDepositAnyStatus(d) ==
    LET c == d.ch IN
    /\ ~paused
    /\ info[c].status # "INIT"
    /\ Collect(c, Founder[c], d.founderBalance, Peer[c], d.partnerBalance)
    /\ info' = [info EXCEPT ![c].total = @ + (d.founderBalance + d.partnerBalance)]
    /\ UNCHANGED <<block, config, channelNumber, locks>>

UpdateDeposit(d) ==
    LET c == d.ch IN
    /\ ~paused
    /\ info[c].status = "OPENING"
    /\ Collect(c, Founder[c], d.founderBalance, Peer[c], d.partnerBalance)
    /\ info' = [info EXCEPT ![c].total = @ + (d.founderBalance + d.partnerBalance)]
    /\ UNCHANGED <<block, config, channelNumber, locks>>

WithdrawBalance(d) ==
    LET c == d.ch IN
    /\ ~paused
    /\ d.nonce = 0
    /\ info[c].status = "OPENING"
    /\ d.founderBalance + d.partnerBalance <= info[c].total
    /\ info' = [info EXCEPT ![c].total = @ - (d.founderBalance + d.partnerBalance)]
    /\ Pay(c, Founder[c], d.founderBalance, Peer[c], d.partnerBalance)
    /\ UNCHANGED <<block, config, channelNumber, locks>>

\* The balance the document gives to partner a of its channel.
BalanceOf(d, a) == IF a = Founder[d.ch] THEN d.founderBalance ELSE d.partnerBalance

OtherPartner(c, a) == IF a = Founder[c] THEN Peer[c] ELSE Founder[c]

Partners(c) == {Founder[c], Peer[c]}

\* Mutant of QuickCloseChannel: both partners are paid what the document says.
QuickCloseAsSigned(d, invoker) ==
    LET c == d.ch IN
    /\ ~paused
    /\ d.nonce = 0
    /\ invoker \in Partners(c)
    /\ info[c].status = "OPENING"
    /\ d.founderBalance + d.partnerBalance <= info[c].total
    /\ Pay(c, Founder[c], d.founderBalance, Peer[c], d.partnerBalance)
    /\ DeleteChannel(c)
    /\ UNCHANGED <<block, config, locks>>

\* The invoker is paid what the document says, the other partner the rest.
QuickCloseChannel(d, invoker) ==
    LET c == d.ch IN
    /\ ~paused
    /\ d.nonce = 0
    /\ invoker \in Partners(c)
    /\ info[c].status = "OPENING"
    /\ d.founderBalance + d.partnerBalance <= info[c].total
    /\ Pay(c, invoker, BalanceOf(d, invoker),
              OtherPartner(c, invoker), info[c].total - BalanceOf(d, invoker))
    /\ DeleteChannel(c)
    /\ UNCHANGED <<block, config, locks>>

-----------------------------------------------------------------------------
(* The unilateral close and the dispute.                                   *)

\* nonce 1 is the document of the founding deposit, the others are payments.
ClosingDocs == {d \in TxDocs : d.nonce \notin {0, 1}} \cup {d \in CommonDocs : d.nonce = 1}

\* Mutant of CloseChannel: a closing channel can be closed again.
CloseChannelAgain(d, invoker) ==
    LET c == d.ch IN
    /\ ~paused
    /\ invoker \in Partners(c)
    /\ info[c].exist
    /\ d.founderBalance + d.partnerBalance <= info[c].total
    /\ info' = [info EXCEPT ![c] =
                  [@ EXCEPT !.status = "CLOSING",
                            !.closer = invoker,
                            !.closingNonce = d.nonce,
                            !.closerBalance = BalanceOf(d, invoker),
                            !.settlerBalance = info[c].total - BalanceOf(d, invoker),
                            !.settler = OtherPartner(c, invoker),
                            !.expectedSettleBlock = block + settleTimeout]]
    /\ UNCHANGED <<block, config, channelNumber, locks, token>>

CloseChannel(d, invoker) ==
    LET c == d.ch IN
    /\ ~paused
    /\ invoker \in Partners(c)
    /\ info[c].status = "OPENING"
    /\ d.founderBalance + d.partnerBalance <= info[c].total
    /\ info' = [info EXCEPT ![c] =
                  [@ EXCEPT !.status = "CLOSING",
                            !.closer = invoker,
                            !.closingNonce = d.nonce,
                            !.closerBalance = BalanceOf(d, invoker),
                            !.settlerBalance = info[c].total - BalanceOf(d, invoker),
                            !.settler = OtherPartner(c, invoker),
                            !.expectedSettleBlock = block + settleTimeout]]
    /\ UNCHANGED <<block, config, channelNumber, locks, token>>

\* handleRSMCUpdateTx: a document as new as the closer's, or the next one,
\* fixes the closer's part; a newer one convicts the closer of an old state; an
\* older one leaves the amounts frozen by closeChannel.
SettlesAsSigned(d) ==
    d.nonce \in {info[d.ch].closingNonce, info[d.ch].closingNonce + 1}

ConvictsCloser(d) == d.nonce > info[d.ch].closingNonce + 1

\* Mutant of CloserShare: any newer document convicts the closer.
CloserShareStrict(d) ==
    LET i == info[d.ch] IN
    IF d.nonce = i.closingNonce THEN BalanceOf(d, i.closer)
    ELSE IF d.nonce > i.closingNonce THEN 0 ELSE i.closerBalance

CloserShare(d) ==
    LET i == info[d.ch] IN
    IF SettlesAsSigned(d) THEN BalanceOf(d, i.closer)
    ELSE IF ConvictsCloser(d) THEN 0 ELSE i.closerBalance

\* Mutant of SettlerShare: the closer's part is not taken off.
SettlerShareOfAll(d) == info[d.ch].total

SettlerShare(d) ==
    LET i == info[d.ch] IN
    IF SettlesAsSigned(d) THEN i.total - BalanceOf(d, i.closer)
    ELSE IF ConvictsCloser(d) THEN i.total ELSE i.settlerBalance

\* updateTransaction, RSMC branch: called by the settler.
UpdateTransaction(d) ==
    LET c == d.ch
        i == info[c] IN
    /\ ~paused
    /\ d.nonce # 0
    /\ d.opens = NoHash
    /\ i.status = "CLOSING"
    /\ d.founderBalance + d.partnerBalance <= i.total
    /\ Pay(c, i.closer, CloserShare(d), i.settler, SettlerShare(d))
    /\ DeleteChannel(c)
    /\ UNCHANGED <<block, config, locks>>

\* Called by the closer once the settle window is over.
SettleTransaction(c) ==
    LET i == info[c] IN
    /\ ~paused
    /\ i.status = "CLOSING"
    /\ i.expectedSettleBlock < block
    /\ Pay(c, i.closer, i.closerBalance, i.settler, i.settlerBalance)
    /\ DeleteChannel(c)
    /\ UNCHANGED <<block, config, locks>>

-----------------------------------------------------------------------------
(* Hash time locks.                                                        *)

WithdrawLocks(d, verifier, withdrawer) ==
    locks' = [locks EXCEPT ![d.ch][d.lockHash] =
                [verifier |-> verifier, withdrawer |-> withdrawer, amount |-> d.lockAmount,
                 time |-> block + htlcSettlePeriod, withdrawn |-> TRUE]]

\* withdraw: the only entry point that works while the contract is paused.
Withdraw(d, invoker) ==
    /\ ~locks[d.ch][d.lockHash].withdrawn
    /\ d.lockAmount <= info[d.ch].total
    /\ \/ /\ d.lockTime > block
          /\ invoker = d.receiver
          /\ WithdrawLocks(d, d.sender, d.receiver)
       \/ /\ d.lockTime <= block
          /\ invoker = d.sender
          /\ WithdrawLocks(d, d.receiver, d.sender)
    /\ UNCHANGED <<block, config, channelNumber, info, token>>

\* Mutant of PayLock: the claim mark is cleared with the rest of the lock.
PayLockCleared(c, h, receiver, amount, totalBalance) ==
    /\ Pay(c, receiver, amount, receiver, 0)
    /\ locks' = [locks EXCEPT ![c][h] = NoLock]
    /\ IF totalBalance = 0
       THEN DeleteChannel(c)
       ELSE /\ info' = [info EXCEPT ![c].total = totalBalance]
            /\ UNCHANGED channelNumber

\* The storage side of both ways a lock is paid (Data.withdrawSettle).
PayLock(c, h, receiver, amount, totalBalance) ==
    /\ Pay(c, receiver, amount, receiver, 0)
    /\ locks' = [locks EXCEPT ![c][h] = [NoLock EXCEPT !.withdrawn = locks[c][h].withdrawn]]
    /\ IF totalBalance = 0
       THEN DeleteChannel(c)
       ELSE /\ info' = [info EXCEPT ![c].total = totalBalance]
            /\ UNCHANGED channelNumber

WithdrawSettle(c, h) ==
    LET l == locks[c][h] IN
    /\ ~paused
    /\ l.withdrawn
    /\ l.withdrawer # NoAddr
    /\ l.time < block
    /\ l.amount > 0
    /\ l.amount <= info[c].total
    /\ PayLock(c, h, l.withdrawer, l.amount, info[c].total - l.amount)
    /\ UNCHANGED <<block, config>>

\* updateTransaction, HTLC branch: the document opens the lock, so the payer
\* of the lock takes everything the channel still holds.
UpdateHTLC(d) ==
    LET c == d.ch
        h == d.opens IN
    /\ ~paused
    /\ d.nonce # 0
    /\ h # NoHash
    /\ locks[c][h].withdrawn
    /\ locks[c][h].verifier # NoAddr
    /\ PayLock(c, h, locks[c][h].verifier, info[c].total, 0)
    /\ UNCHANGED <<block, config>>

-----------------------------------------------------------------------------
(* The owner, and time.                                                    *)

Pause ==
    /\ ~paused
    /\ paused' = TRUE
    /\ UNCHANGED <<block, settleTimeout, htlcSettlePeriod, channelNumber, info, locks, token>>

Unpause ==
    /\ paused
    /\ paused' = FALSE
    /\ UNCHANGED <<block, settleTimeout, htlcSettlePeriod, channelNumber, info, locks, token>>

SetSettleTimeout(n) ==
    /\ settleTimeout' = n
    /\ UNCHANGED <<block, paused, htlcSettlePeriod, channelNumber, info, locks, token>>

SetHtlcSettlePeriod(n) ==
    /\ htlcSettlePeriod' = n
    /\ UNCHANGED <<block, paused, settleTimeout, channelNumber, info, locks, token>>

NextBlock ==
    /\ block < MaxBlock
    /\ block' = block + 1
    /\ UNCHANGED <<config, channelNumber, info, locks, token>>

-----------------------------------------------------------------------------
Next ==
    \/ \E d \in CommonDocs : Deposit(d) \/ UpdateDeposit(d) \/ WithdrawBalance(d)
    \/ \E d \in CommonDocs, a \in Addr : QuickCloseChannel(d, a)
    \/ \E d \in ClosingDocs, a \in Addr : CloseChannel(d, a)
    \/ \E d \in TxDocs : UpdateTransaction(d) \/ UpdateHTLC(d)
    \/ \E c \in Channels : SettleTransaction(c)
    \/ \E d \in LockDocs, a \in Addr : Withdraw(d, a)
    \/ \E c \in Channels, h \in Hashes : WithdrawSettle(c, h)
    \/ \E a \in Addr, n \in Approvals : Approve(a, n)
    \/ Pause \/ Unpause
    \/ \E n \in Periods : SetSettleTimeout(n) \/ SetHtlcSettlePeriod(n)
    \/ NextBlock

Spec == Init /\ [][Next]_vars
-----------------------------------------------------------------------------
(* Safety.                                                                 *)

\* In a dispute closer and settler are the two different partners, and the two
\* amounts frozen by closeChannel cover what the channel still holds, whatever
\* lock payments happened meanwhile: no settlement can strand tokens.
ClosingCovers ==
    \A c \in Channels : info[c].status = "CLOSING" =>
        /\ {info[c].closer, info[c].settler} = Partners(c)
        /\ info[c].closerBalance + info[c].settlerBalance >= info[c].total

\* The contract never keeps tokens of a channel beyond the total it records;
\* once a channel is deleted everything it collected has been paid out
\* (every payment path of Trinity_Eth_Data.sol against every total update).
NothingLeftBehind ==
    \A c \in Channels : net[c] <= info[c].total

\* channelNumber never counts more channels than exist, although the HTLC
\* branch of updateTransaction deletes a channel without asking whether there
\* is one (handleHTLCUpdateTx).
CountNeverAbove == channelNumber <= Cardinality(Existing)

\* The only step that pays out other than it takes off the books is the settlement
\* of a closing channel whose frozen amounts exceed its total, that is, one
\* whose total a lock payment lowered after closeChannel.
OnlyStaleSettleOverpays ==
    [][\A c \in Channels : net'[c] - info'[c].total # net[c] - info[c].total =>
          /\ info[c].status = "CLOSING"
          /\ info[c].closerBalance + info[c].settlerBalance > info[c].total
          /\ ~info'[c].exist]_vars

\* The hash lock of a channel id is claimed and paid at most once, even if the
\* channel is deleted and its id funded again: a claimed lock stays claimed, a
\* paid one never gets a withdrawer or an amount again (withdrawn_locks).
LockSpentForever ==
    [][\A c \in Channels, h \in Hashes : locks[c][h].withdrawn =>
          locks'[c][h] \in {locks[c][h], [NoLock EXCEPT !.withdrawn = TRUE]}]_vars

\* From closeChannel on, who closed, with which nonce and amounts and until
\* which block the settler may answer never changes, whatever the owner does to
\* settleTimeout, until the channel is deleted.
ClosingFrozen ==
    [][\A c \in Channels : info[c].status = "CLOSING" =>
          \/ ~info'[c].exist
          \/ info'[c] = [info[c] EXCEPT !.total = info'[c].total]]_vars
=============================================================================
