----------------------- MODULE TrinityContractProofs -----------------------
(* Proofs about TrinityContract, for every set of documents, accounts and   *)
(* channels.                                                                *)
EXTENDS TrinityContract, FiniteSetTheorems, TLAPS

(* A document's fields, from the assumptions on the sets of documents. *)
LEMMA CommonDocFacts ==
    ASSUME NEW d \in CommonDocs
    PROVE  /\ d.ch \in Channels /\ d.nonce \in Nat
           /\ d.founderBalance \in Nat /\ d.partnerBalance \in Nat
  BY DocsAssumption

LEMMA TxDocFacts ==
    ASSUME NEW d \in TxDocs
    PROVE  /\ d.ch \in Channels /\ d.nonce \in Nat
           /\ d.founderBalance \in Nat /\ d.partnerBalance \in Nat
           /\ d.opens \in Hashes \cup {NoHash}
  BY DocsAssumption

LEMMA LockDocFacts ==
    ASSUME NEW d \in LockDocs
    PROVE  /\ d.ch \in Channels /\ d.sender \in Addr /\ d.receiver \in Addr
           /\ d.lockTime \in Nat /\ d.lockAmount \in Nat /\ d.lockHash \in Hashes
  BY DocsAssumption

LEMMA ClosingDocFacts ==
    ASSUME NEW d \in ClosingDocs
    PROVE  /\ d.ch \in Channels /\ d.nonce \in Nat
           /\ d.founderBalance \in Nat /\ d.partnerBalance \in Nat
  BY CommonDocFacts, TxDocFacts DEF ClosingDocs

LEMMA PartnerFacts ==
    ASSUME NEW c \in Channels
    PROVE  /\ Founder[c] \in Addr /\ Peer[c] \in Addr /\ Founder[c] # Peer[c]
           /\ Partners(c) \subseteq Addr
           /\ \A a \in Partners(c) : /\ OtherPartner(c, a) \in Partners(c)
                                     /\ {a, OtherPartner(c, a)} = Partners(c)
           /\ NoAddr \notin Addr
  BY PartiesAssumption DEF Partners, OtherPartner

(* The token operators keep the token part of the type invariant. *)
LEMMA CollectType ==
    ASSUME TypeOK, NEW c \in Channels, NEW a \in Addr, NEW b \in Addr, a # b,
           NEW x \in Nat, NEW y \in Nat, Collect(c, a, x, b, y)
    PROVE  /\ wallet' \in [Addr -> Nat] /\ allowance' \in [Addr -> Nat]
           /\ held' \in Nat /\ net' \in [Channels -> Int]
           /\ net' = [net EXCEPT ![c] = net[c] + (x + y)]
  <1>1. wallet' \in [Addr -> Nat]
    <2>1. wallet \in [Addr -> Nat] /\ x <= wallet[a] /\ y <= wallet[b]
      BY DEF Collect, TypeOK
    <2>2. wallet[a] - x \in Nat /\ wallet[b] - y \in Nat
      BY <2>1
    <2>3. wallet' = [wallet EXCEPT ![a] = wallet[a] - x, ![b] = wallet[b] - y]
      BY <2>1 DEF Collect
    <2> QED BY <2>1, <2>2, <2>3
  <1>2. allowance' \in [Addr -> Nat]
    <2>1. allowance \in [Addr -> Nat] /\ x <= allowance[a] /\ y <= allowance[b]
      BY DEF Collect, TypeOK
    <2>2. allowance[a] - x \in Nat /\ allowance[b] - y \in Nat
      BY <2>1
    <2>3. allowance' = [allowance EXCEPT ![a] = allowance[a] - x, ![b] = allowance[b] - y]
      BY <2>1 DEF Collect
    <2> QED BY <2>1, <2>2, <2>3
  <1>3. held' \in Nat /\ net' \in [Channels -> Int]
        /\ net' = [net EXCEPT ![c] = net[c] + (x + y)]
    BY DEF Collect, TypeOK
  <1> QED BY <1>1, <1>2, <1>3

LEMMA PayType ==
    ASSUME TypeOK, NEW c \in Channels, NEW a \in Addr, NEW b \in Addr,
           NEW x \in Nat, NEW y \in Nat, Pay(c, a, x, b, y)
    PROVE  /\ wallet' \in [Addr -> Nat] /\ allowance' \in [Addr -> Nat]
           /\ held' \in Nat /\ net' \in [Channels -> Int]
           /\ net' = [net EXCEPT ![c] = net[c] - (x + y)]
  <1>1. wallet' \in [Addr -> Nat]
    BY DEF Pay, TypeOK
  <1>2. allowance' \in [Addr -> Nat]
    BY DEF Pay, TypeOK
  <1>3. held' \in Nat /\ net' \in [Channels -> Int]
        /\ net' = [net EXCEPT ![c] = net[c] - (x + y)]
    BY DEF Pay, TypeOK
  <1> QED BY <1>1, <1>2, <1>3

(* What handleRSMCUpdateTx decides is a pair of amounts. *)
LEMMA ShareType ==
    ASSUME TypeOK, NEW d \in TxDocs,
           d.founderBalance + d.partnerBalance <= info[d.ch].total
    PROVE  CloserShare(d) \in Nat /\ SettlerShare(d) \in Nat
  <1> DEFINE i == info[d.ch]
  <1>1. /\ d.nonce \in Nat /\ d.founderBalance \in Nat /\ d.partnerBalance \in Nat
        /\ i \in ChannelData
    BY TxDocFacts DEF TypeOK
  <1>2. /\ i.total \in Nat /\ i.closerBalance \in Nat /\ i.settlerBalance \in Nat
        /\ i.closingNonce \in Nat
    BY <1>1 DEF ChannelData
  <1>3. /\ BalanceOf(d, i.closer) \in Nat
        /\ BalanceOf(d, i.closer) <= i.total
    BY <1>1, <1>2 DEF BalanceOf
  <1>4. i.total - BalanceOf(d, i.closer) \in Nat
    BY <1>2, <1>3
  <1> QED BY <1>1, <1>2, <1>3, <1>4 DEF CloserShare, SettlerShare
-----------------------------------------------------------------------------
(* Type correctness. *)

LEMMA NoChannelType == NoChannel \in ChannelData
  BY DEF NoChannel, ChannelData, Status

LEMMA NoLockType == NoLock \in TimeLock
  BY DEF NoLock, TimeLock

LEMMA DeleteType ==
    ASSUME TypeOK, NEW c \in Channels, DeleteChannel(c)
    PROVE  /\ info' \in [Channels -> ChannelData]
           /\ channelNumber' \in Nat
  BY NoChannelType DEF DeleteChannel, TypeOK

LEMMA LocksType ==
    ASSUME TypeOK, NEW c \in Channels, NEW h \in Hashes, NEW l \in TimeLock,
           locks' = [locks EXCEPT ![c][h] = l]
    PROVE  locks' \in [Channels -> [Hashes -> TimeLock]]
  BY DEF TypeOK

LEMMA TotalType ==
    ASSUME TypeOK, NEW c \in Channels, NEW n \in Nat,
           info' = [info EXCEPT ![c].total = n]
    PROVE  /\ info' \in [Channels -> ChannelData]
           /\ info' = [info EXCEPT ![c] = [info[c] EXCEPT !.total = n]]
  BY DEF TypeOK, ChannelData

LEMMA ClosingType ==
    ASSUME NEW i \in ChannelData, NEW a \in Addr, NEW b \in Addr,
           NEW n \in Nat, NEW x \in Nat, NEW y \in Nat, NEW t \in Nat
    PROVE  [i EXCEPT !.status = "CLOSING", !.closer = a, !.closingNonce = n,
                     !.closerBalance = x, !.settlerBalance = y, !.settler = b,
                     !.expectedSettleBlock = t] \in ChannelData
  <1> DEFINE i1 == [i EXCEPT !.status = "CLOSING"]
             i2 == [i1 EXCEPT !.closer = a]
             i3 == [i2 EXCEPT !.closingNonce = n]
             i4 == [i3 EXCEPT !.closerBalance = x]
             i5 == [i4 EXCEPT !.settlerBalance = y]
             i6 == [i5 EXCEPT !.settler = b]
             i7 == [i6 EXCEPT !.expectedSettleBlock = t]
  <1> HIDE DEF i1, i2, i3, i4, i5, i6, i7
  <1>1. i1 \in ChannelData
    BY DEF ChannelData, Status, i1
  <1>2. i2 \in ChannelData
    BY <1>1 DEF ChannelData, i2
  <1>3. i3 \in ChannelData
    BY <1>2 DEF ChannelData, i3
  <1>4. i4 \in ChannelData
    BY <1>3 DEF ChannelData, i4
  <1>5. i5 \in ChannelData
    BY <1>4 DEF ChannelData, i5
  <1>6. i6 \in ChannelData
    BY <1>5 DEF ChannelData, i6
  <1>7. i7 \in ChannelData
    BY <1>6 DEF ChannelData, i7
  <1> QED BY <1>7, Zenon DEF i1, i2, i3, i4, i5, i6, i7

LEMMA PayLockType ==
    ASSUME TypeOK, NEW c \in Channels, NEW h \in Hashes, NEW a \in Addr,
           NEW x \in Nat, NEW n \in Nat, PayLock(c, h, a, x, n)
    PROVE  /\ wallet' \in [Addr -> Nat] /\ allowance' \in [Addr -> Nat]
           /\ held' \in Nat /\ net' \in [Channels -> Int]
           /\ locks' \in [Channels -> [Hashes -> TimeLock]]
           /\ info' \in [Channels -> ChannelData] /\ channelNumber' \in Nat
           /\ net' = [net EXCEPT ![c] = net[c] - x]
  <1>1. /\ wallet' \in [Addr -> Nat] /\ allowance' \in [Addr -> Nat]
        /\ held' \in Nat /\ net' \in [Channels -> Int]
        /\ net' = [net EXCEPT ![c] = net[c] - (x + 0)]
    <2>1. Pay(c, a, x, a, 0)
      BY DEF PayLock
    <2> QED BY <2>1, PayType
  <1>2. [NoLock EXCEPT !.withdrawn = locks[c][h].withdrawn] \in TimeLock
    BY DEF NoLock, TimeLock, TypeOK
  <1>3. locks' \in [Channels -> [Hashes -> TimeLock]]
    BY <1>2, LocksType DEF PayLock
  <1>4. info' \in [Channels -> ChannelData] /\ channelNumber' \in Nat
    <2>1. CASE n = 0
      BY <2>1, DeleteType DEF PayLock
    <2>2. CASE n # 0
      <3>1. info' = [info EXCEPT ![c].total = n] /\ channelNumber' = channelNumber
        BY <2>2 DEF PayLock
      <3> QED BY <3>1, TotalType DEF TypeOK
    <2> QED BY <2>1, <2>2
  <1>5. net' = [net EXCEPT ![c] = net[c] - x]
    BY <1>1 DEF TypeOK
  <1> QED BY <1>1, <1>3, <1>4, <1>5

(* Every transaction keeps the types: one step per action of Next. *)
LEMMA TypeStep == TypeOK /\ ClosingCovers /\ [Next]_vars => TypeOK'
  <1> SUFFICES ASSUME TypeOK, ClosingCovers, [Next]_vars PROVE TypeOK'
    OBVIOUS
  <1> USE DEF config, token
  <1>1. ASSUME NEW d \in CommonDocs, Deposit(d) PROVE TypeOK'
    <2> DEFINE c == d.ch
    <2>1. /\ c \in Channels /\ d.founderBalance \in Nat /\ d.partnerBalance \in Nat
          /\ Founder[c] \in Addr /\ Peer[c] \in Addr /\ Founder[c] # Peer[c]
      BY CommonDocFacts, PartnerFacts
    <2>2. /\ wallet' \in [Addr -> Nat] /\ allowance' \in [Addr -> Nat]
          /\ held' \in Nat /\ net' \in [Channels -> Int]
      BY <2>1, <1>1, CollectType DEF Deposit
    <2>3. NewChannel(d.founderBalance + d.partnerBalance) \in ChannelData
      BY <2>1 DEF NewChannel, ChannelData, Status
    <2>4. info' \in [Channels -> ChannelData] /\ channelNumber' \in Nat
      BY <2>1, <2>3, <1>1 DEF Deposit, TypeOK
    <2> QED BY <2>2, <2>4, <1>1 DEF Deposit, TypeOK
  <1>2. ASSUME NEW d \in CommonDocs, UpdateDeposit(d) PROVE TypeOK'
    <2> DEFINE c == d.ch
    <2>1. /\ c \in Channels /\ d.founderBalance \in Nat /\ d.partnerBalance \in Nat
          /\ Founder[c] \in Addr /\ Peer[c] \in Addr /\ Founder[c] # Peer[c]
      BY CommonDocFacts, PartnerFacts
    <2>2. /\ wallet' \in [Addr -> Nat] /\ allowance' \in [Addr -> Nat]
          /\ held' \in Nat /\ net' \in [Channels -> Int]
      BY <2>1, <1>2, CollectType DEF UpdateDeposit
    <2>3. info[c].total + (d.founderBalance + d.partnerBalance) \in Nat
      BY <2>1 DEF TypeOK, ChannelData
    <2>4. info' = [info EXCEPT ![c].total = info[c].total + (d.founderBalance + d.partnerBalance)]
      BY <1>2 DEF UpdateDeposit
    <2>5. info' \in [Channels -> ChannelData]
      BY <2>1, <2>3, <2>4, TotalType
    <2> QED BY <2>2, <2>5, <1>2 DEF UpdateDeposit, TypeOK
  <1>3. ASSUME NEW d \in CommonDocs, WithdrawBalance(d) PROVE TypeOK'
    <2> DEFINE c == d.ch
    <2>1. /\ c \in Channels /\ d.founderBalance \in Nat /\ d.partnerBalance \in Nat
          /\ Founder[c] \in Addr /\ Peer[c] \in Addr
      BY CommonDocFacts, PartnerFacts
    <2>2. /\ wallet' \in [Addr -> Nat] /\ allowance' \in [Addr -> Nat]
          /\ held' \in Nat /\ net' \in [Channels -> Int]
      BY <2>1, <1>3, PayType DEF WithdrawBalance
    <2>3. info[c].total - (d.founderBalance + d.partnerBalance) \in Nat
      BY <2>1, <1>3 DEF TypeOK, ChannelData, WithdrawBalance
    <2>4. info' = [info EXCEPT ![c].total = info[c].total - (d.founderBalance + d.partnerBalance)]
      BY <1>3 DEF WithdrawBalance
    <2>5. info' \in [Channels -> ChannelData]
      BY <2>1, <2>3, <2>4, TotalType
    <2> QED BY <2>2, <2>5, <1>3 DEF WithdrawBalance, TypeOK
  <1>4. ASSUME NEW d \in CommonDocs, NEW a \in Addr, QuickCloseChannel(d, a) PROVE TypeOK'
    <2> DEFINE c == d.ch
    <2>1. /\ c \in Channels /\ d.founderBalance \in Nat /\ d.partnerBalance \in Nat
          /\ OtherPartner(c, a) \in Addr
      BY CommonDocFacts, PartnerFacts, <1>4 DEF QuickCloseChannel
    <2>2. BalanceOf(d, a) \in Nat /\ info[c].total - BalanceOf(d, a) \in Nat
      BY <2>1, <1>4 DEF BalanceOf, QuickCloseChannel, TypeOK, ChannelData
    <2>3. /\ wallet' \in [Addr -> Nat] /\ allowance' \in [Addr -> Nat]
          /\ held' \in Nat /\ net' \in [Channels -> Int]
      BY <2>1, <2>2, <1>4, PayType DEF QuickCloseChannel
    <2>4. info' \in [Channels -> ChannelData] /\ channelNumber' \in Nat
      BY <2>1, <1>4, DeleteType DEF QuickCloseChannel
    <2> QED BY <2>3, <2>4, <1>4 DEF QuickCloseChannel, TypeOK
  <1>5. ASSUME NEW d \in ClosingDocs, NEW a \in Addr, CloseChannel(d, a) PROVE TypeOK'
    <2> DEFINE c == d.ch
    <2>1. /\ c \in Channels /\ d.nonce \in Nat
          /\ d.founderBalance \in Nat /\ d.partnerBalance \in Nat
          /\ OtherPartner(c, a) \in Addr
      BY ClosingDocFacts, PartnerFacts, <1>5 DEF CloseChannel
    <2>2. BalanceOf(d, a) \in Nat /\ info[c].total - BalanceOf(d, a) \in Nat
      BY <2>1, <1>5 DEF BalanceOf, CloseChannel, TypeOK, ChannelData
    <2>3. block + settleTimeout \in Nat
      BY DEF TypeOK
    <2>4. [info[c] EXCEPT !.status = "CLOSING",
                          !.closer = a,
                          !.closingNonce = d.nonce,
                          !.closerBalance = BalanceOf(d, a),
                          !.settlerBalance = info[c].total - BalanceOf(d, a),
                          !.settler = OtherPartner(c, a),
                          !.expectedSettleBlock = block + settleTimeout] \in ChannelData
      BY <2>1, <2>2, <2>3, ClosingType DEF TypeOK
    <2>5. info' \in [Channels -> ChannelData]
      BY <2>1, <2>4, <1>5 DEF CloseChannel, TypeOK
    <2> QED BY <2>5, <1>5 DEF CloseChannel, TypeOK
  <1>6. ASSUME NEW d \in TxDocs, UpdateTransaction(d) PROVE TypeOK'
    <2> DEFINE c == d.ch
    <2>1. c \in Channels
      BY TxDocFacts
    <2>2. info[c].closer \in Addr /\ info[c].settler \in Addr
      BY <2>1, <1>6, PartnerFacts DEF UpdateTransaction, ClosingCovers
    <2>3. CloserShare(d) \in Nat /\ SettlerShare(d) \in Nat
      BY <1>6, ShareType DEF UpdateTransaction
    <2>4. /\ wallet' \in [Addr -> Nat] /\ allowance' \in [Addr -> Nat]
          /\ held' \in Nat /\ net' \in [Channels -> Int]
      BY <2>1, <2>2, <2>3, <1>6, PayType DEF UpdateTransaction
    <2>5. info' \in [Channels -> ChannelData] /\ channelNumber' \in Nat
      BY <2>1, <1>6, DeleteType DEF UpdateTransaction
    <2> QED BY <2>4, <2>5, <1>6 DEF UpdateTransaction, TypeOK
  <1>7. ASSUME NEW d \in TxDocs, UpdateHTLC(d) PROVE TypeOK'
    <2> DEFINE c == d.ch
               h == d.opens
    <2>1. c \in Channels /\ h \in Hashes
      BY TxDocFacts, <1>7 DEF UpdateHTLC
    <2>2. locks[c][h].verifier \in Addr /\ info[c].total \in Nat
      BY <2>1, <1>7 DEF UpdateHTLC, TypeOK, TimeLock, ChannelData
    <2>3. PayLock(c, h, locks[c][h].verifier, info[c].total, 0)
      BY <1>7 DEF UpdateHTLC
    <2> QED BY <2>1, <2>2, <2>3, <1>7, PayLockType DEF UpdateHTLC, TypeOK
  <1>8. ASSUME NEW c \in Channels, SettleTransaction(c) PROVE TypeOK'
    <2>1. info[c].closer \in Addr /\ info[c].settler \in Addr
      BY <1>8, PartnerFacts DEF SettleTransaction, ClosingCovers
    <2>2. info[c].closerBalance \in Nat /\ info[c].settlerBalance \in Nat
      BY DEF TypeOK, ChannelData
    <2>3. /\ wallet' \in [Addr -> Nat] /\ allowance' \in [Addr -> Nat]
          /\ held' \in Nat /\ net' \in [Channels -> Int]
      BY <2>1, <2>2, <1>8, PayType DEF SettleTransaction
    <2>4. info' \in [Channels -> ChannelData] /\ channelNumber' \in Nat
      BY <1>8, DeleteType DEF SettleTransaction
    <2> QED BY <2>3, <2>4, <1>8 DEF SettleTransaction, TypeOK
  <1>9. ASSUME NEW d \in LockDocs, NEW a \in Addr, Withdraw(d, a) PROVE TypeOK'
    <2>1. /\ d.ch \in Channels /\ d.sender \in Addr /\ d.receiver \in Addr
          /\ d.lockAmount \in Nat /\ d.lockHash \in Hashes
          /\ block + htlcSettlePeriod \in Nat
      BY LockDocFacts DEF TypeOK
    <2>2. \A v, w \in Addr : [verifier |-> v, withdrawer |-> w, amount |-> d.lockAmount,
                              time |-> block + htlcSettlePeriod, withdrawn |-> TRUE] \in TimeLock
      BY <2>1 DEF TimeLock
    <2>3. ASSUME NEW v \in Addr, NEW w \in Addr, WithdrawLocks(d, v, w)
          PROVE  locks' \in [Channels -> [Hashes -> TimeLock]]
      BY <2>1, <2>2, <2>3, LocksType DEF WithdrawLocks
    <2>4. locks' \in [Channels -> [Hashes -> TimeLock]]
      BY <2>1, <2>3, <1>9 DEF Withdraw
    <2> QED BY <2>4, <1>9 DEF Withdraw, TypeOK
  <1>10. ASSUME NEW c \in Channels, NEW h \in Hashes, WithdrawSettle(c, h) PROVE TypeOK'
    <2>1. /\ locks[c][h].withdrawer \in Addr /\ locks[c][h].amount \in Nat
          /\ info[c].total - locks[c][h].amount \in Nat
      BY <1>10 DEF WithdrawSettle, TypeOK, TimeLock, ChannelData
    <2>2. PayLock(c, h, locks[c][h].withdrawer, locks[c][h].amount,
                  info[c].total - locks[c][h].amount)
      BY <1>10 DEF WithdrawSettle
    <2> QED BY <2>1, <2>2, <1>10, PayLockType DEF WithdrawSettle, TypeOK
  <1>11. ASSUME NEW a \in Addr, NEW n \in Approvals, Approve(a, n) PROVE TypeOK'
    <2>1. n \in Nat
      BY BoundsAssumption
    <2> QED BY <2>1, <1>11 DEF Approve, TypeOK
  <1>12. CASE Pause
    BY <1>12 DEF Pause, TypeOK
  <1>14. CASE Unpause
    BY <1>14 DEF Unpause, TypeOK
  <1>15. CASE NextBlock
    BY <1>15 DEF NextBlock, TypeOK
  <1>16. CASE UNCHANGED vars
    BY <1>16 DEF vars, TypeOK
  <1>13. ASSUME NEW n \in Periods, SetSettleTimeout(n) \/ SetHtlcSettlePeriod(n) PROVE TypeOK'
    <2>1. n \in Nat
      BY BoundsAssumption
    <2> QED BY <2>1, <1>13 DEF SetSettleTimeout, SetHtlcSettlePeriod, TypeOK
  <1> QED BY <1>1, <1>2, <1>3, <1>4, <1>5, <1>6, <1>7, <1>8, <1>9, <1>10, <1>11, <1>12, <1>13,
         <1>14, <1>15, <1>16 DEF Next

-----------------------------------------------------------------------------
(* The inductive invariant.  NothingLeftBehind alone is not inductive: a    *)
(* settlement pays the amounts closeChannel froze, so they must cover the   *)
(* total (ClosingCovers), and a lock claimed on a deleted id must find a    *)
(* zero total there (LiveOrGone).                                           *)

\* Reading a dead id gives the zero record, so a dispute call never acts on a
\* deleted channel; a live channel is either open or closing
\* (the status checks of every entry point, and delete channelInfo).
LiveOrGone ==
    \A c \in Channels :
        /\ ~info[c].exist => info[c] = NoChannel
        /\ info[c].exist => info[c].status \in {"OPENING", "CLOSING"}

ChannelGood(c, i, n) ==
    /\ ~i.exist => i = NoChannel
    /\ i.exist => i.status \in {"OPENING", "CLOSING"}
    /\ i.status = "CLOSING" => /\ {i.closer, i.settler} = Partners(c)
                               /\ i.closerBalance + i.settlerBalance >= i.total
    /\ n <= i.total

AllGood == \A c \in Channels : ChannelGood(c, info[c], net[c])

LEMMA GoodMeaning == AllGood <=> LiveOrGone /\ ClosingCovers /\ NothingLeftBehind
  BY DEF AllGood, ChannelGood, LiveOrGone, ClosingCovers, NothingLeftBehind

(* A step that writes one channel needs to be checked there only. *)
LEMMA OneChannel ==
    ASSUME TypeOK, AllGood, NEW c \in Channels, NEW i, NEW n,
           info' = [info EXCEPT ![c] = i], net' = [net EXCEPT ![c] = n],
           ChannelGood(c, i, n)
    PROVE  AllGood'
  <1>1. info \in [Channels -> ChannelData] /\ net \in [Channels -> Int]
    BY DEF TypeOK
  <1> SUFFICES ASSUME NEW e \in Channels PROVE ChannelGood(e, info'[e], net'[e])
    BY DEF AllGood
  <1>2. CASE e = c
    BY <1>1, <1>2
  <1>3. CASE e # c
    BY <1>1, <1>3 DEF AllGood
  <1> QED BY <1>2, <1>3

LEMMA NoChannelGood ==
    ASSUME NEW c \in Channels, NEW n \in Int, n <= 0
    PROVE  ChannelGood(c, NoChannel, n)
  BY DEF ChannelGood, NoChannel

(* A deletion is sound when everything the channel holds is paid out. *)
LEMMA DeleteGood ==
    ASSUME TypeOK, AllGood, NEW c \in Channels, NEW x \in Nat,
           info' = [info EXCEPT ![c] = NoChannel],
           net' = [net EXCEPT ![c] = net[c] - x],
           x >= info[c].total
    PROVE  AllGood'
  <1>1. net[c] \in Int /\ info[c].total \in Nat /\ net[c] <= info[c].total
    BY DEF TypeOK, ChannelData, AllGood, ChannelGood
  <1>2. net[c] - x \in Int /\ net[c] - x <= 0
    BY <1>1
  <1> QED BY <1>2, NoChannelGood, OneChannel

(* The total and the net of a channel move together. *)
LEMMA TotalGood ==
    ASSUME TypeOK, AllGood, NEW c \in Channels, NEW m \in Nat, NEW n \in Int,
           info[c].exist,
           info' = [info EXCEPT ![c].total = m],
           net' = [net EXCEPT ![c] = n],
           m <= info[c].total \/ info[c].status = "OPENING",
           n - net[c] = m - info[c].total
    PROVE  AllGood'
  <1> DEFINE i == [info[c] EXCEPT !.total = m]
  <1>1. /\ info[c] \in ChannelData /\ ChannelGood(c, info[c], net[c])
        /\ info[c].total \in Nat /\ net[c] \in Int
        /\ info[c].closerBalance \in Nat /\ info[c].settlerBalance \in Nat
    BY DEF TypeOK, AllGood, ChannelData
  <1>2. info' = [info EXCEPT ![c] = i]
    BY TotalType
  <1>3. /\ i.total = m /\ i.exist = info[c].exist /\ i.status = info[c].status
        /\ i.closer = info[c].closer /\ i.settler = info[c].settler
        /\ i.closerBalance = info[c].closerBalance
        /\ i.settlerBalance = info[c].settlerBalance
    BY <1>1 DEF ChannelData
  <1>4. n <= m
    BY <1>1 DEF ChannelGood
  <1>5. i.status = "CLOSING" => i.closerBalance + i.settlerBalance >= i.total
    BY <1>1, <1>3 DEF ChannelGood
  <1> HIDE DEF i
  <1>6. ChannelGood(c, i, n)
    BY <1>1, <1>3, <1>4, <1>5 DEF ChannelGood
  <1> QED BY <1>2, <1>6, OneChannel

(* Paying a lock lowers the total by the payment, or empties the channel. *)
LEMMA PayLockGood ==
    ASSUME TypeOK, AllGood, NEW c \in Channels, NEW h \in Hashes, NEW a \in Addr,
           NEW x \in Nat, x <= info[c].total,
           PayLock(c, h, a, x, info[c].total - x)
    PROVE  AllGood'
  <1> DEFINE m == info[c].total - x
  <1>1. info[c].total \in Nat /\ net[c] \in Int /\ m \in Nat
    BY DEF TypeOK, ChannelData
  <1>2. net' = [net EXCEPT ![c] = net[c] - x]
    BY <1>1, PayLockType
  <1>3. CASE m = 0
    <2>1. info' = [info EXCEPT ![c] = NoChannel]
      BY <1>3 DEF PayLock, DeleteChannel
    <2>2. x >= info[c].total
      BY <1>1, <1>3
    <2> QED BY <1>2, <2>1, <2>2, DeleteGood
  <1>4. CASE m # 0
    <2>1. info' = [info EXCEPT ![c].total = m]
      BY <1>4 DEF PayLock
    <2>2. info[c].exist
      BY <1>1, <1>4 DEF AllGood, ChannelGood, NoChannel
    <2>3. net[c] - x \in Int /\ (net[c] - x) - net[c] = m - info[c].total /\ m <= info[c].total
      BY <1>1
    <2> HIDE DEF m
    <2> QED BY <1>1, <1>2, <2>1, <2>2, <2>3, TotalGood
  <1> QED BY <1>3, <1>4

(* Paying everything and deleting, for the three ways a channel is settled. *)
LEMMA SettledGood ==
    ASSUME TypeOK, AllGood, NEW c \in Channels, NEW a \in Addr, NEW b \in Addr,
           NEW x \in Nat, NEW y \in Nat, x + y >= info[c].total,
           Pay(c, a, x, b, y), DeleteChannel(c)
    PROVE  AllGood'
  <1>1. net' = [net EXCEPT ![c] = net[c] - (x + y)] /\ x + y \in Nat
    BY PayType
  <1> QED BY <1>1, DeleteGood DEF DeleteChannel

LEMMA GoodStep == TypeOK /\ AllGood /\ [Next]_vars => AllGood'
  <1> SUFFICES ASSUME TypeOK, AllGood, [Next]_vars PROVE AllGood'
    OBVIOUS
  <1>a. ClosingCovers /\ LiveOrGone
    BY GoodMeaning
  <1>u. ASSUME UNCHANGED <<info, net>> PROVE AllGood'
    BY <1>u DEF AllGood
  <1>1. ASSUME NEW d \in CommonDocs, Deposit(d) PROVE AllGood'
    <2> DEFINE c == d.ch
               t == d.founderBalance + d.partnerBalance
    <2>1. /\ c \in Channels /\ d.founderBalance \in Nat /\ d.partnerBalance \in Nat
          /\ Founder[c] \in Addr /\ Peer[c] \in Addr /\ Founder[c] # Peer[c]
      BY CommonDocFacts, PartnerFacts
    <2>2. net' = [net EXCEPT ![c] = net[c] + t]
      BY <2>1, <1>1, CollectType DEF Deposit
    <2>3. info' = [info EXCEPT ![c] = NewChannel(t)]
      BY <1>1 DEF Deposit
    <2>4. net[c] \in Int /\ net[c] <= 0 /\ t \in Nat
      <3>1. info[c] = NoChannel /\ net[c] <= info[c].total
        BY <2>1, <1>1 DEF Deposit, AllGood, ChannelGood
      <3> QED BY <2>1, <3>1 DEF NoChannel, TypeOK
    <2> HIDE DEF t
    <2>5. ChannelGood(c, NewChannel(t), net[c] + t)
      BY <2>4 DEF ChannelGood, NewChannel
    <2> QED BY <2>1, <2>2, <2>3, <2>5, OneChannel
  <1>2. ASSUME NEW d \in CommonDocs, UpdateDeposit(d) PROVE AllGood'
    <2> DEFINE c == d.ch
               t == d.founderBalance + d.partnerBalance
    <2>1. /\ c \in Channels /\ d.founderBalance \in Nat /\ d.partnerBalance \in Nat
          /\ Founder[c] \in Addr /\ Peer[c] \in Addr /\ Founder[c] # Peer[c]
      BY CommonDocFacts, PartnerFacts
    <2>2. net' = [net EXCEPT ![c] = net[c] + t]
      BY <2>1, <1>2, CollectType DEF UpdateDeposit
    <2>3. info' = [info EXCEPT ![c].total = info[c].total + t]
      BY <1>2 DEF UpdateDeposit
    <2>4. info[c].exist /\ info[c].status = "OPENING"
      BY <2>1, <1>2, <1>a DEF UpdateDeposit, LiveOrGone, NoChannel
    <2>5. /\ info[c].total \in Nat /\ net[c] \in Int
          /\ info[c].total + t \in Nat /\ net[c] + t \in Int
          /\ (net[c] + t) - net[c] = (info[c].total + t) - info[c].total
      BY <2>1 DEF TypeOK, ChannelData
    <2> HIDE DEF t
    <2> QED BY <2>1, <2>2, <2>3, <2>4, <2>5, TotalGood
  <1>3. ASSUME NEW d \in CommonDocs, WithdrawBalance(d) PROVE AllGood'
    <2> DEFINE c == d.ch
               t == d.founderBalance + d.partnerBalance
    <2>1. /\ c \in Channels /\ d.founderBalance \in Nat /\ d.partnerBalance \in Nat
          /\ Founder[c] \in Addr /\ Peer[c] \in Addr
      BY CommonDocFacts, PartnerFacts
    <2>2. net' = [net EXCEPT ![c] = net[c] - t]
      BY <2>1, <1>3, PayType DEF WithdrawBalance
    <2>3. info' = [info EXCEPT ![c].total = info[c].total - t] /\ t <= info[c].total
      BY <1>3 DEF WithdrawBalance
    <2>4. info[c].exist /\ info[c].status = "OPENING"
      BY <2>1, <1>3, <1>a DEF WithdrawBalance, LiveOrGone, NoChannel
    <2>5. /\ info[c].total \in Nat /\ net[c] \in Int
          /\ info[c].total - t \in Nat /\ net[c] - t \in Int
          /\ (net[c] - t) - net[c] = (info[c].total - t) - info[c].total
      BY <2>1, <2>3 DEF TypeOK, ChannelData
    <2> HIDE DEF t
    <2> QED BY <2>1, <2>2, <2>3, <2>4, <2>5, TotalGood
  <1>4. ASSUME NEW d \in CommonDocs, NEW a \in Addr, QuickCloseChannel(d, a) PROVE AllGood'
    <2> DEFINE c == d.ch
    <2>1. /\ c \in Channels /\ d.founderBalance \in Nat /\ d.partnerBalance \in Nat
          /\ OtherPartner(c, a) \in Addr
      BY CommonDocFacts, PartnerFacts, <1>4 DEF QuickCloseChannel
    <2>2. /\ BalanceOf(d, a) \in Nat /\ info[c].total - BalanceOf(d, a) \in Nat
          /\ BalanceOf(d, a) + (info[c].total - BalanceOf(d, a)) >= info[c].total
      BY <2>1, <1>4 DEF BalanceOf, QuickCloseChannel, TypeOK, ChannelData
    <2>3. /\ Pay(c, a, BalanceOf(d, a), OtherPartner(c, a), info[c].total - BalanceOf(d, a))
          /\ DeleteChannel(c)
      BY <1>4 DEF QuickCloseChannel
    <2> QED BY <2>1, <2>2, <2>3, SettledGood
  <1>5. ASSUME NEW d \in ClosingDocs, NEW a \in Addr, CloseChannel(d, a) PROVE AllGood'
    <2> DEFINE c == d.ch
               i == [info[c] EXCEPT !.status = "CLOSING",
                          !.closer = a,
                          !.closingNonce = d.nonce,
                          !.closerBalance = BalanceOf(d, a),
                          !.settlerBalance = info[c].total - BalanceOf(d, a),
                          !.settler = OtherPartner(c, a),
                          !.expectedSettleBlock = block + settleTimeout]
    <2>1. /\ c \in Channels /\ d.founderBalance \in Nat /\ d.partnerBalance \in Nat
          /\ a \in Partners(c) /\ {a, OtherPartner(c, a)} = Partners(c)
      BY ClosingDocFacts, PartnerFacts, <1>5 DEF CloseChannel
    <2>2. BalanceOf(d, a) \in Nat /\ info[c].total \in Nat /\ net[c] \in Int
      BY <2>1 DEF BalanceOf, TypeOK, ChannelData
    <2>3. /\ i.status = "CLOSING" /\ i.closer = a /\ i.settler = OtherPartner(c, a)
          /\ i.closerBalance = BalanceOf(d, a)
          /\ i.settlerBalance = info[c].total - BalanceOf(d, a)
          /\ i.total = info[c].total /\ i.exist = info[c].exist
      BY <2>1 DEF TypeOK, ChannelData
    <2>4. info' = [info EXCEPT ![c] = i]
      BY <1>5 DEF CloseChannel
    <2>5. net' = [net EXCEPT ![c] = net[c]]
      BY <1>5 DEF CloseChannel, token, TypeOK
    <2>6. info[c].exist /\ net[c] <= info[c].total
      BY <2>1, <1>5, <1>a DEF CloseChannel, LiveOrGone, NoChannel, AllGood, ChannelGood
    <2> HIDE DEF i
    <2>7. ChannelGood(c, i, net[c])
      BY <2>1, <2>2, <2>3, <2>6 DEF ChannelGood
    <2> QED BY <2>1, <2>4, <2>5, <2>7, OneChannel
  <1>6. ASSUME NEW d \in TxDocs, UpdateTransaction(d) PROVE AllGood'
    <2> DEFINE c == d.ch
    <2>1. /\ c \in Channels /\ d.founderBalance \in Nat /\ d.partnerBalance \in Nat
          /\ info[c].total \in Nat
          /\ info[c].closerBalance \in Nat /\ info[c].settlerBalance \in Nat
      BY TxDocFacts DEF TypeOK, ChannelData
    <2>2. /\ info[c].closer \in Addr /\ info[c].settler \in Addr
          /\ info[c].closerBalance + info[c].settlerBalance >= info[c].total
      BY <2>1, <1>6, <1>a, PartnerFacts DEF UpdateTransaction, ClosingCovers
    <2>3. CloserShare(d) \in Nat /\ SettlerShare(d) \in Nat
      BY <1>6, ShareType DEF UpdateTransaction
    <2>4. CloserShare(d) + SettlerShare(d) >= info[c].total
      <3>1. BalanceOf(d, info[c].closer) \in Nat
        BY <2>1 DEF BalanceOf
      <3> QED BY <2>1, <2>2, <3>1 DEF CloserShare, SettlerShare
    <2>5. Pay(c, info[c].closer, CloserShare(d), info[c].settler, SettlerShare(d))
          /\ DeleteChannel(c)
      BY <1>6 DEF UpdateTransaction
    <2> QED BY <2>1, <2>2, <2>3, <2>4, <2>5, SettledGood
  <1>7. ASSUME NEW d \in TxDocs, UpdateHTLC(d) PROVE AllGood'
    <2> DEFINE c == d.ch
               h == d.opens
    <2>1. c \in Channels /\ h \in Hashes
      BY TxDocFacts, <1>7 DEF UpdateHTLC
    <2>2. locks[c][h].verifier \in Addr /\ info[c].total \in Nat
      BY <2>1, <1>7 DEF UpdateHTLC, TypeOK, TimeLock, ChannelData
    <2>3. info[c].total - info[c].total = 0 /\ info[c].total <= info[c].total
      BY <2>2
    <2>4. PayLock(c, h, locks[c][h].verifier, info[c].total, info[c].total - info[c].total)
      BY <1>7, <2>3 DEF UpdateHTLC
    <2> QED BY <2>1, <2>2, <2>3, <2>4, PayLockGood
  <1>8. ASSUME NEW c \in Channels, SettleTransaction(c) PROVE AllGood'
    <2>1. /\ info[c].closer \in Addr /\ info[c].settler \in Addr
          /\ info[c].closerBalance + info[c].settlerBalance >= info[c].total
      BY <1>8, <1>a, PartnerFacts DEF SettleTransaction, ClosingCovers
    <2>2. info[c].closerBalance \in Nat /\ info[c].settlerBalance \in Nat
      BY DEF TypeOK, ChannelData
    <2>3. /\ Pay(c, info[c].closer, info[c].closerBalance, info[c].settler, info[c].settlerBalance)
          /\ DeleteChannel(c)
      BY <1>8 DEF SettleTransaction
    <2> QED BY <2>1, <2>2, <2>3, SettledGood
  <1>9. ASSUME NEW d \in LockDocs, NEW a \in Addr, Withdraw(d, a) PROVE AllGood'
    BY <1>9, <1>u DEF Withdraw, token
  <1>10. ASSUME NEW c \in Channels, NEW h \in Hashes, WithdrawSettle(c, h) PROVE AllGood'
    <2>1. /\ locks[c][h].withdrawer \in Addr /\ locks[c][h].amount \in Nat
          /\ locks[c][h].amount <= info[c].total
      BY <1>10 DEF WithdrawSettle, TypeOK, TimeLock
    <2>2. PayLock(c, h, locks[c][h].withdrawer, locks[c][h].amount,
                  info[c].total - locks[c][h].amount)
      BY <1>10 DEF WithdrawSettle
    <2> QED BY <2>1, <2>2, PayLockGood
  <1>11. ASSUME NEW a \in Addr, NEW n \in Approvals, Approve(a, n) PROVE AllGood'
    BY <1>11, <1>u DEF Approve
  <1>12. CASE Pause \/ Unpause \/ NextBlock
    BY <1>12, <1>u DEF Pause, Unpause, NextBlock, token
  <1>13. ASSUME NEW n \in Periods, SetSettleTimeout(n) \/ SetHtlcSettlePeriod(n) PROVE AllGood'
    BY <1>13, <1>u DEF SetSettleTimeout, SetHtlcSettlePeriod, token
  <1>14. CASE UNCHANGED vars
    BY <1>14, <1>u DEF vars, token
  <1> QED BY <1>1, <1>2, <1>3, <1>4, <1>5, <1>6, <1>7, <1>8, <1>9, <1>10, <1>11, <1>12,
             <1>13, <1>14 DEF Next

-----------------------------------------------------------------------------
(* Theorems about every behaviour. *)

IInv == TypeOK /\ AllGood

LEMMA IInvInit == Init => IInv
  <1> SUFFICES ASSUME Init PROVE IInv
    OBVIOUS
  <1>1. info \in [Channels -> ChannelData] /\ locks \in [Channels -> [Hashes -> TimeLock]]
    BY NoChannelType, NoLockType DEF Init
  <1>2. settleTimeout \in Nat /\ htlcSettlePeriod \in Nat /\ wallet \in [Addr -> Nat]
    BY BoundsAssumption DEF Init
  <1>5. /\ block \in Nat /\ channelNumber \in Nat /\ held \in Nat
        /\ allowance \in [Addr -> Nat] /\ net \in [Channels -> Int]
    BY DEF Init
  <1>6. paused \in BOOLEAN
    BY DEF Init
  <1>7. TypeOK
    BY <1>1, <1>2, <1>5, <1>6 DEF TypeOK
  <1>3. \A c \in Channels : ChannelGood(c, NoChannel, 0)
    BY NoChannelGood
  <1>4. AllGood
    BY <1>3 DEF Init, AllGood
  <1> QED BY <1>7, <1>4 DEF IInv

LEMMA Inductive == Spec => []IInv
  <1>1. IInv /\ [Next]_vars => IInv'
    BY TypeStep, GoodStep, GoodMeaning DEF IInv
  <1> QED BY IInvInit, <1>1, PTL DEF Spec

\* Every transaction of the contract keeps the declared types of its storage:
\* no subtraction of a total, a balance or the channel count goes below zero
\* (the SafeMath guards suffice).
THEOREM TypeCorrect == Spec => []TypeOK
  BY Inductive, PTL DEF IInv

\* The two amounts closeChannel freezes cover the channel's total at every
\* moment of the dispute, and closer and settler are its two partners.
THEOREM DisputeCovered == Spec => []ClosingCovers
  <1>1. IInv => ClosingCovers
    BY GoodMeaning DEF IInv
  <1> QED BY Inductive, <1>1, PTL

\* Whatever documents the partners sign, the contract never keeps more of a
\* channel than the total it records, and nothing of a deleted channel.
THEOREM NothingStranded == Spec => []NothingLeftBehind
  <1>1. IInv => NothingLeftBehind
    BY GoodMeaning DEF IInv
  <1> QED BY Inductive, <1>1, PTL

-----------------------------------------------------------------------------
(* The channel count. *)

LEMMA ExistingFinite == IsFiniteSet(Existing)
  BY BoundsAssumption, FS_Subset DEF Existing

LEMMA CountDelete ==
    ASSUME TypeOK, CountNeverAbove, NEW c \in Channels, DeleteChannel(c)
    PROVE  CountNeverAbove'
  <1>1. Existing' = Existing \ {c}
    BY DEF Existing, DeleteChannel, TypeOK, NoChannel
  <1>2. /\ Cardinality(Existing) \in Nat
        /\ Cardinality(Existing \ {c}) = IF c \in Existing THEN Cardinality(Existing) - 1
                                         ELSE Cardinality(Existing)
    BY ExistingFinite, FS_RemoveElement, FS_CardinalityType
  <1>3. channelNumber \in Nat /\ channelNumber' = channelNumber - 1
    BY DEF TypeOK, DeleteChannel
  <1> QED BY <1>1, <1>2, <1>3 DEF CountNeverAbove

LEMMA CountSame ==
    ASSUME CountNeverAbove, channelNumber' = channelNumber,
           \A c \in Channels : info'[c].exist = info[c].exist
    PROVE  CountNeverAbove'
  <1>1. Existing' = Existing
    BY DEF Existing
  <1> QED BY <1>1 DEF CountNeverAbove

LEMMA CountTotal ==
    ASSUME TypeOK, CountNeverAbove, NEW c \in Channels, NEW n \in Nat,
           channelNumber' = channelNumber, info' = [info EXCEPT ![c].total = n]
    PROVE  CountNeverAbove'
  <1>1. \A e \in Channels : info'[e].exist = info[e].exist
    BY DEF TypeOK, ChannelData
  <1> QED BY <1>1, CountSame

LEMMA CountStep == TypeOK /\ CountNeverAbove /\ [Next]_vars => CountNeverAbove'
  <1> SUFFICES ASSUME TypeOK, CountNeverAbove, [Next]_vars PROVE CountNeverAbove'
    OBVIOUS
  <1>u. ASSUME UNCHANGED <<info, channelNumber>> PROVE CountNeverAbove'
    BY <1>u, CountSame
  <1>p. ASSUME NEW c \in Channels, NEW h \in Hashes, NEW a \in Addr, NEW x \in Nat,
               NEW n \in Nat, PayLock(c, h, a, x, n)
        PROVE  CountNeverAbove'
    <2>1. CASE n = 0
      BY <2>1, <1>p, CountDelete DEF PayLock
    <2>2. CASE n # 0
      BY <2>2, <1>p, CountTotal DEF PayLock
    <2> QED BY <2>1, <2>2
  <1>1. ASSUME NEW d \in CommonDocs, Deposit(d) PROVE CountNeverAbove'
    <2> DEFINE c == d.ch
    <2>1. c \in Channels /\ c \notin Existing
      BY CommonDocFacts, <1>1 DEF Deposit, Existing
    <2>2. Existing' = Existing \cup {c}
      BY <2>1, <1>1 DEF Deposit, Existing, NewChannel, TypeOK
    <2>3. /\ Cardinality(Existing) \in Nat
          /\ Cardinality(Existing \cup {c}) = Cardinality(Existing) + 1
      BY <2>1, ExistingFinite, FS_AddElement, FS_CardinalityType
    <2>4. channelNumber' = channelNumber + 1 /\ channelNumber \in Nat
      BY <1>1 DEF Deposit, TypeOK
    <2> QED BY <2>2, <2>3, <2>4 DEF CountNeverAbove
  <1>2. ASSUME NEW d \in CommonDocs, UpdateDeposit(d) PROVE CountNeverAbove'
    <2>1. d.ch \in Channels /\ info[d.ch].total + (d.founderBalance + d.partnerBalance) \in Nat
      BY CommonDocFacts DEF TypeOK, ChannelData
    <2> QED BY <2>1, <1>2, CountTotal DEF UpdateDeposit
  <1>3. ASSUME NEW d \in CommonDocs, WithdrawBalance(d) PROVE CountNeverAbove'
    <2>1. d.ch \in Channels /\ info[d.ch].total - (d.founderBalance + d.partnerBalance) \in Nat
      BY CommonDocFacts, <1>3 DEF TypeOK, ChannelData, WithdrawBalance
    <2> QED BY <2>1, <1>3, CountTotal DEF WithdrawBalance
  <1>4. ASSUME NEW d \in CommonDocs, NEW a \in Addr, QuickCloseChannel(d, a)
        PROVE  CountNeverAbove'
    BY <1>4, CommonDocFacts, CountDelete DEF QuickCloseChannel
  <1>5. ASSUME NEW d \in ClosingDocs, NEW a \in Addr, CloseChannel(d, a)
        PROVE  CountNeverAbove'
    <2>1. d.ch \in Channels
      BY ClosingDocFacts
    <2>2. \A e \in Channels : info'[e].exist = info[e].exist
      BY <2>1, <1>5 DEF CloseChannel, TypeOK, ChannelData
    <2> QED BY <2>2, <1>5, CountSame DEF CloseChannel
  <1>6. ASSUME NEW d \in TxDocs, UpdateTransaction(d) PROVE CountNeverAbove'
    BY <1>6, TxDocFacts, CountDelete DEF UpdateTransaction
  <1>7. ASSUME NEW d \in TxDocs, UpdateHTLC(d) PROVE CountNeverAbove'
    <2>1. /\ d.ch \in Channels /\ d.opens \in Hashes
          /\ locks[d.ch][d.opens].verifier \in Addr /\ info[d.ch].total \in Nat
      BY TxDocFacts, <1>7 DEF UpdateHTLC, TypeOK, TimeLock, ChannelData
    <2> QED BY <2>1, <1>7, <1>p DEF UpdateHTLC
  <1>8. ASSUME NEW c \in Channels, SettleTransaction(c) PROVE CountNeverAbove'
    BY <1>8, CountDelete DEF SettleTransaction
  <1>9. ASSUME NEW d \in LockDocs, NEW a \in Addr, Withdraw(d, a) PROVE CountNeverAbove'
    BY <1>9, <1>u DEF Withdraw
  <1>10. ASSUME NEW c \in Channels, NEW h \in Hashes, WithdrawSettle(c, h)
         PROVE  CountNeverAbove'
    <2>1. /\ locks[c][h].withdrawer \in Addr /\ locks[c][h].amount \in Nat
          /\ info[c].total - locks[c][h].amount \in Nat
      BY <1>10 DEF WithdrawSettle, TypeOK, TimeLock, ChannelData
    <2> QED BY <2>1, <1>10, <1>p DEF WithdrawSettle
  <1>11. ASSUME NEW a \in Addr, NEW n \in Approvals, Approve(a, n) PROVE CountNeverAbove'
    BY <1>11, <1>u DEF Approve
  <1>12. CASE Pause \/ Unpause \/ NextBlock
    BY <1>12, <1>u DEF Pause, Unpause, NextBlock
  <1>13. ASSUME NEW n \in Periods, SetSettleTimeout(n) \/ SetHtlcSettlePeriod(n)
         PROVE  CountNeverAbove'
    BY <1>13, <1>u DEF SetSettleTimeout, SetHtlcSettlePeriod
  <1>14. CASE UNCHANGED vars
    BY <1>14, <1>u DEF vars
  <1> QED BY <1>1, <1>2, <1>3, <1>4, <1>5, <1>6, <1>7, <1>8, <1>9, <1>10, <1>11, <1>12,
             <1>13, <1>14 DEF Next

\* channelNumber is never larger than the number of channels that exist, for
\* any number of channels.  It may be smaller: an HTLC update on a deleted
\* channel is counted down once more.
THEOREM CountSound == Spec => []CountNeverAbove
  <1>1. Init => CountNeverAbove
    <2>1. ASSUME Init PROVE CountNeverAbove
      <3>1. channelNumber = 0 /\ Cardinality(Existing) \in Nat
        BY <2>1, ExistingFinite, FS_CardinalityType DEF Init
      <3> QED BY <3>1 DEF CountNeverAbove
    <2> QED BY <2>1
  <1>2. Spec => []TypeOK
    BY TypeCorrect
  <1> QED BY <1>1, <1>2, CountStep, PTL DEF Spec

-----------------------------------------------------------------------------
(* What a step may never do. *)

SpentStep ==
    \A c \in Channels, h \in Hashes : locks[c][h].withdrawn =>
        locks'[c][h] \in {locks[c][h], [NoLock EXCEPT !.withdrawn = TRUE]}

LEMMA SpentByPayLock ==
    ASSUME TypeOK, NEW c \in Channels, NEW h \in Hashes, locks[c][h].withdrawn,
           NEW a, NEW x, NEW n, PayLock(c, h, a, x, n)
    PROVE  SpentStep
  <1>1. locks[c][h].withdrawn = TRUE
    BY DEF TypeOK, TimeLock
  <1>2. locks' = [locks EXCEPT ![c][h] = [NoLock EXCEPT !.withdrawn = TRUE]]
    BY <1>1 DEF PayLock
  <1>3. \A e \in Channels, g \in Hashes :
          locks'[e][g] \in {locks[e][g], [NoLock EXCEPT !.withdrawn = TRUE]}
    <2> DEFINE l == [NoLock EXCEPT !.withdrawn = TRUE]
    <2>1. locks \in [Channels -> [Hashes -> TimeLock]] /\ locks' = [locks EXCEPT ![c][h] = l]
      BY <1>2 DEF TypeOK
    <2> HIDE DEF l
    <2>2. \A e \in Channels, g \in Hashes : locks'[e][g] \in {locks[e][g], l}
      BY <2>1
    <2> QED BY <2>2 DEF l
  <1> QED BY <1>3 DEF SpentStep

LEMMA SpentByNext == TypeOK /\ [Next]_vars => SpentStep
  <1> SUFFICES ASSUME TypeOK, [Next]_vars PROVE SpentStep
    OBVIOUS
  <1>u. ASSUME UNCHANGED locks PROVE SpentStep
    BY <1>u DEF SpentStep
  <1>1. ASSUME NEW d \in LockDocs, NEW a \in Addr, Withdraw(d, a) PROVE SpentStep
    <2>1. /\ d.ch \in Channels /\ d.lockHash \in Hashes
          /\ ~locks[d.ch][d.lockHash].withdrawn
          /\ \E l : locks' = [locks EXCEPT ![d.ch][d.lockHash] = l]
      BY LockDocFacts, <1>1 DEF Withdraw, WithdrawLocks
    <2>2. \A c \in Channels, h \in Hashes :
            locks[c][h].withdrawn => locks'[c][h] = locks[c][h]
      BY <2>1 DEF TypeOK
    <2> QED BY <2>2 DEF SpentStep
  <1>2. ASSUME NEW c \in Channels, NEW h \in Hashes, WithdrawSettle(c, h) PROVE SpentStep
    BY <1>2, SpentByPayLock DEF WithdrawSettle
  <1>3. ASSUME NEW d \in TxDocs, UpdateHTLC(d) PROVE SpentStep
    <2>1. d.ch \in Channels /\ d.opens \in Hashes
      BY TxDocFacts, <1>3 DEF UpdateHTLC
    <2> QED BY <2>1, <1>3, SpentByPayLock DEF UpdateHTLC
  <1>4. ASSUME NEW d \in CommonDocs,
               \/ Deposit(d) \/ UpdateDeposit(d) \/ WithdrawBalance(d)
               \/ \E a \in Addr : QuickCloseChannel(d, a)
        PROVE  SpentStep
    BY <1>4, <1>u DEF Deposit, UpdateDeposit, WithdrawBalance, QuickCloseChannel
  <1>5. ASSUME NEW d \in ClosingDocs, NEW a \in Addr, CloseChannel(d, a) PROVE SpentStep
    BY <1>5, <1>u DEF CloseChannel
  <1>6. ASSUME NEW d \in TxDocs, UpdateTransaction(d) PROVE SpentStep
    BY <1>6, <1>u DEF UpdateTransaction
  <1>7. ASSUME NEW c \in Channels, SettleTransaction(c) PROVE SpentStep
    BY <1>7, <1>u DEF SettleTransaction
  <1>8. ASSUME NEW a \in Addr, NEW n \in Approvals, Approve(a, n) PROVE SpentStep
    BY <1>8, <1>u DEF Approve
  <1>9. CASE Pause \/ Unpause \/ NextBlock
    BY <1>9, <1>u DEF Pause, Unpause, NextBlock
  <1>10. ASSUME NEW n \in Periods, SetSettleTimeout(n) \/ SetHtlcSettlePeriod(n)
         PROVE  SpentStep
    BY <1>10, <1>u DEF SetSettleTimeout, SetHtlcSettlePeriod
  <1>11. CASE UNCHANGED vars
    BY <1>11, <1>u DEF vars
  <1> QED BY <1>1, <1>2, <1>3, <1>4, <1>5, <1>6, <1>7, <1>8, <1>9, <1>10, <1>11 DEF Next

\* A hash lock of a channel id is claimed and paid at most once, for ever, also
\* across the deletion and a new funding of the id.
THEOREM LockSpentOnce == Spec => LockSpentForever
  <1>1. TypeOK /\ [Next]_vars =>
          [\A c \in Channels, h \in Hashes : locks[c][h].withdrawn =>
              locks'[c][h] \in {locks[c][h], [NoLock EXCEPT !.withdrawn = TRUE]}]_vars
    BY SpentByNext DEF SpentStep
  <1> QED BY TypeCorrect, <1>1, PTL DEF Spec, LockSpentForever

(* What one step does to the record and the net of a channel: a closing     *)
(* record changes in its total only, and the books move together except at  *)
(* the settlement of a channel whose frozen amounts exceed its total.       *)
ChannelStep(c, i, n) ==
    /\ info[c].status = "CLOSING" => ~i.exist \/ i = [info[c] EXCEPT !.total = i.total]
    /\ n - i.total # net[c] - info[c].total =>
          /\ info[c].status = "CLOSING"
          /\ info[c].closerBalance + info[c].settlerBalance > info[c].total
          /\ ~i.exist

AllSteps == \A c \in Channels : ChannelStep(c, info'[c], net'[c])

LEMMA SameStep ==
    ASSUME TypeOK, NEW c \in Channels
    PROVE  ChannelStep(c, info[c], net[c])
  <1>1. info[c] \in ChannelData
    BY DEF TypeOK
  <1>2. info[c] = [info[c] EXCEPT !.total = info[c].total]
    BY <1>1 DEF ChannelData
  <1> QED BY <1>2 DEF ChannelStep

LEMMA OneStep ==
    ASSUME TypeOK, NEW c \in Channels, NEW i, NEW n,
           info' = [info EXCEPT ![c] = i], net' = [net EXCEPT ![c] = n],
           ChannelStep(c, i, n)
    PROVE  AllSteps
  <1> SUFFICES ASSUME NEW e \in Channels PROVE ChannelStep(e, info'[e], net'[e])
    BY DEF AllSteps
  <1>1. info \in [Channels -> ChannelData] /\ net \in [Channels -> Int]
    BY DEF TypeOK
  <1>2. CASE e = c
    BY <1>1, <1>2
  <1>3. CASE e # c
    <2>1. info'[e] = info[e] /\ net'[e] = net[e]
      BY <1>1, <1>3
    <2> QED BY <2>1, SameStep
  <1> QED BY <1>2, <1>3

LEMMA DeleteStep ==
    ASSUME TypeOK, NEW c \in Channels, NEW x \in Nat,
           info' = [info EXCEPT ![c] = NoChannel],
           net' = [net EXCEPT ![c] = net[c] - x],
           \/ x = info[c].total
           \/ /\ info[c].status = "CLOSING"
              /\ x = info[c].closerBalance + info[c].settlerBalance
              /\ x >= info[c].total
    PROVE  AllSteps
  <1>1. net[c] \in Int /\ info[c].total \in Nat
    BY DEF TypeOK, ChannelData
  <1>2. ChannelStep(c, NoChannel, net[c] - x)
    BY <1>1 DEF ChannelStep, NoChannel
  <1> QED BY <1>2, OneStep

LEMMA TotalStep ==
    ASSUME TypeOK, NEW c \in Channels, NEW m \in Nat, NEW n \in Int,
           info' = [info EXCEPT ![c].total = m],
           net' = [net EXCEPT ![c] = n],
           n - net[c] = m - info[c].total
    PROVE  AllSteps
  <1> DEFINE i == [info[c] EXCEPT !.total = m]
  <1>1. /\ info[c] \in ChannelData /\ info[c].total \in Nat /\ net[c] \in Int
    BY DEF TypeOK, ChannelData
  <1>2. info' = [info EXCEPT ![c] = i]
    BY TotalType
  <1>3. i.total = m
    BY <1>1 DEF ChannelData
  <1>4. n - i.total = net[c] - info[c].total
    BY <1>1, <1>3
  <1>5. i = [info[c] EXCEPT !.total = i.total]
    BY <1>3
  <1> HIDE DEF i
  <1>6. ChannelStep(c, i, n)
    BY <1>4, <1>5 DEF ChannelStep
  <1> QED BY <1>2, <1>6, OneStep

LEMMA PayLockStep ==
    ASSUME TypeOK, NEW c \in Channels, NEW h \in Hashes, NEW a \in Addr,
           NEW x \in Nat, x <= info[c].total,
           PayLock(c, h, a, x, info[c].total - x)
    PROVE  AllSteps
  <1> DEFINE m == info[c].total - x
  <1>1. info[c].total \in Nat /\ net[c] \in Int /\ m \in Nat
    BY DEF TypeOK, ChannelData
  <1>2. net' = [net EXCEPT ![c] = net[c] - x]
    BY <1>1, PayLockType
  <1>3. CASE m = 0
    <2>1. info' = [info EXCEPT ![c] = NoChannel]
      BY <1>3 DEF PayLock, DeleteChannel
    <2>2. x = info[c].total
      BY <1>1, <1>3
    <2> QED BY <1>2, <2>1, <2>2, DeleteStep
  <1>4. CASE m # 0
    <2>1. info' = [info EXCEPT ![c].total = m]
      BY <1>4 DEF PayLock
    <2>2. net[c] - x \in Int /\ (net[c] - x) - net[c] = m - info[c].total
      BY <1>1
    <2> HIDE DEF m
    <2> QED BY <1>1, <1>2, <2>1, <2>2, TotalStep
  <1> QED BY <1>3, <1>4

(* The two settlements of a closing channel and the cooperative close. *)
LEMMA SettledStep ==
    ASSUME TypeOK, NEW c \in Channels, NEW a \in Addr, NEW b \in Addr,
           NEW x \in Nat, NEW y \in Nat, Pay(c, a, x, b, y), DeleteChannel(c),
           \/ x + y = info[c].total
           \/ /\ info[c].status = "CLOSING"
              /\ x + y = info[c].closerBalance + info[c].settlerBalance
              /\ x + y >= info[c].total
    PROVE  AllSteps
  <1>1. net' = [net EXCEPT ![c] = net[c] - (x + y)] /\ x + y \in Nat
    BY PayType
  <1> QED BY <1>1, DeleteStep DEF DeleteChannel

LEMMA StepsByNext == IInv /\ [Next]_vars => AllSteps
  <1> SUFFICES ASSUME TypeOK, AllGood, [Next]_vars PROVE AllSteps
    BY DEF IInv
  <1>a. ClosingCovers /\ LiveOrGone
    BY GoodMeaning
  <1>u. ASSUME UNCHANGED <<info, net>> PROVE AllSteps
    BY <1>u, SameStep DEF AllSteps
  <1>1. ASSUME NEW d \in CommonDocs, Deposit(d) PROVE AllSteps
    <2> DEFINE c == d.ch
               t == d.founderBalance + d.partnerBalance
    <2>1. /\ c \in Channels /\ d.founderBalance \in Nat /\ d.partnerBalance \in Nat
          /\ Founder[c] \in Addr /\ Peer[c] \in Addr /\ Founder[c] # Peer[c]
      BY CommonDocFacts, PartnerFacts
    <2>2. net' = [net EXCEPT ![c] = net[c] + t]
      BY <2>1, <1>1, CollectType DEF Deposit
    <2>3. info' = [info EXCEPT ![c] = NewChannel(t)] /\ info[c] = NoChannel
      BY <2>1, <1>1, <1>a DEF Deposit, LiveOrGone
    <2>4. net[c] \in Int /\ t \in Nat
      BY <2>1 DEF TypeOK
    <2> HIDE DEF t
    <2>5. ChannelStep(c, NewChannel(t), net[c] + t)
      BY <2>3, <2>4 DEF ChannelStep, NewChannel, NoChannel
    <2> QED BY <2>1, <2>2, <2>3, <2>5, OneStep
  <1>2. ASSUME NEW d \in CommonDocs, UpdateDeposit(d) PROVE AllSteps
    <2> DEFINE c == d.ch
               t == d.founderBalance + d.partnerBalance
    <2>1. /\ c \in Channels /\ d.founderBalance \in Nat /\ d.partnerBalance \in Nat
          /\ Founder[c] \in Addr /\ Peer[c] \in Addr /\ Founder[c] # Peer[c]
      BY CommonDocFacts, PartnerFacts
    <2>2. net' = [net EXCEPT ![c] = net[c] + t]
      BY <2>1, <1>2, CollectType DEF UpdateDeposit
    <2>3. info' = [info EXCEPT ![c].total = info[c].total + t]
      BY <1>2 DEF UpdateDeposit
    <2>4. /\ info[c].total + t \in Nat /\ net[c] + t \in Int
          /\ (net[c] + t) - net[c] = (info[c].total + t) - info[c].total
      BY <2>1 DEF TypeOK, ChannelData
    <2> HIDE DEF t
    <2> QED BY <2>1, <2>2, <2>3, <2>4, TotalStep
  <1>3. ASSUME NEW d \in CommonDocs, WithdrawBalance(d) PROVE AllSteps
    <2> DEFINE c == d.ch
               t == d.founderBalance + d.partnerBalance
    <2>1. /\ c \in Channels /\ d.founderBalance \in Nat /\ d.partnerBalance \in Nat
          /\ Founder[c] \in Addr /\ Peer[c] \in Addr
      BY CommonDocFacts, PartnerFacts
    <2>2. net' = [net EXCEPT ![c] = net[c] - t]
      BY <2>1, <1>3, PayType DEF WithdrawBalance
    <2>3. info' = [info EXCEPT ![c].total = info[c].total - t] /\ t <= info[c].total
      BY <1>3 DEF WithdrawBalance
    <2>4. /\ info[c].total - t \in Nat /\ net[c] - t \in Int
          /\ (net[c] - t) - net[c] = (info[c].total - t) - info[c].total
      BY <2>1, <2>3 DEF TypeOK, ChannelData
    <2> HIDE DEF t
    <2> QED BY <2>1, <2>2, <2>3, <2>4, TotalStep
  <1>4. ASSUME NEW d \in CommonDocs, NEW a \in Addr, QuickCloseChannel(d, a) PROVE AllSteps
    <2> DEFINE c == d.ch
    <2>1. /\ c \in Channels /\ d.founderBalance \in Nat /\ d.partnerBalance \in Nat
          /\ OtherPartner(c, a) \in Addr
      BY CommonDocFacts, PartnerFacts, <1>4 DEF QuickCloseChannel
    <2>2. /\ BalanceOf(d, a) \in Nat /\ info[c].total - BalanceOf(d, a) \in Nat
          /\ BalanceOf(d, a) + (info[c].total - BalanceOf(d, a)) = info[c].total
      BY <2>1, <1>4 DEF BalanceOf, QuickCloseChannel, TypeOK, ChannelData
    <2>3. /\ Pay(c, a, BalanceOf(d, a), OtherPartner(c, a), info[c].total - BalanceOf(d, a))
          /\ DeleteChannel(c)
      BY <1>4 DEF QuickCloseChannel
    <2> QED BY <2>1, <2>2, <2>3, SettledStep
  <1>5. ASSUME NEW d \in ClosingDocs, NEW a \in Addr, CloseChannel(d, a) PROVE AllSteps
    <2> DEFINE c == d.ch
               i == [info[c] EXCEPT !.status = "CLOSING",
                          !.closer = a,
                          !.closingNonce = d.nonce,
                          !.closerBalance = BalanceOf(d, a),
                          !.settlerBalance = info[c].total - BalanceOf(d, a),
                          !.settler = OtherPartner(c, a),
                          !.expectedSettleBlock = block + settleTimeout]
    <2>1. c \in Channels /\ info[c].status = "OPENING"
      BY ClosingDocFacts, <1>5 DEF CloseChannel
    <2>2. i.total = info[c].total
      BY <2>1 DEF TypeOK, ChannelData
    <2>3. info' = [info EXCEPT ![c] = i]
      BY <1>5 DEF CloseChannel
    <2>4. net' = [net EXCEPT ![c] = net[c]]
      BY <1>5 DEF CloseChannel, token, TypeOK
    <2> HIDE DEF i
    <2>5. ChannelStep(c, i, net[c])
      BY <2>1, <2>2 DEF ChannelStep
    <2> QED BY <2>1, <2>3, <2>4, <2>5, OneStep
  <1>6. ASSUME NEW d \in TxDocs, UpdateTransaction(d) PROVE AllSteps
    <2> DEFINE c == d.ch
    <2>1. /\ c \in Channels /\ d.founderBalance \in Nat /\ d.partnerBalance \in Nat
          /\ info[c].total \in Nat
          /\ info[c].closerBalance \in Nat /\ info[c].settlerBalance \in Nat
      BY TxDocFacts DEF TypeOK, ChannelData
    <2>2. /\ info[c].closer \in Addr /\ info[c].settler \in Addr
          /\ info[c].status = "CLOSING"
          /\ info[c].closerBalance + info[c].settlerBalance >= info[c].total
      BY <2>1, <1>6, <1>a, PartnerFacts DEF UpdateTransaction, ClosingCovers
    <2>3. CloserShare(d) \in Nat /\ SettlerShare(d) \in Nat
      BY <1>6, ShareType DEF UpdateTransaction
    <2>4. \/ CloserShare(d) + SettlerShare(d) = info[c].total
          \/ CloserShare(d) + SettlerShare(d) = info[c].closerBalance + info[c].settlerBalance
      <3>1. BalanceOf(d, info[c].closer) \in Nat
        BY <2>1 DEF BalanceOf
      <3> QED BY <2>1, <3>1 DEF CloserShare, SettlerShare
    <2>5. Pay(c, info[c].closer, CloserShare(d), info[c].settler, SettlerShare(d))
          /\ DeleteChannel(c)
      BY <1>6 DEF UpdateTransaction
    <2> QED BY <2>1, <2>2, <2>3, <2>4, <2>5, SettledStep
  <1>7. ASSUME NEW d \in TxDocs, UpdateHTLC(d) PROVE AllSteps
    <2> DEFINE c == d.ch
               h == d.opens
    <2>1. c \in Channels /\ h \in Hashes
      BY TxDocFacts, <1>7 DEF UpdateHTLC
    <2>2. locks[c][h].verifier \in Addr /\ info[c].total \in Nat
      BY <2>1, <1>7 DEF UpdateHTLC, TypeOK, TimeLock, ChannelData
    <2>3. info[c].total - info[c].total = 0 /\ info[c].total <= info[c].total
      BY <2>2
    <2>4. PayLock(c, h, locks[c][h].verifier, info[c].total, info[c].total - info[c].total)
      BY <1>7, <2>3 DEF UpdateHTLC
    <2> QED BY <2>1, <2>2, <2>3, <2>4, PayLockStep
  <1>8. ASSUME NEW c \in Channels, SettleTransaction(c) PROVE AllSteps
    <2>1. /\ info[c].closer \in Addr /\ info[c].settler \in Addr
          /\ info[c].status = "CLOSING"
          /\ info[c].closerBalance + info[c].settlerBalance >= info[c].total
      BY <1>8, <1>a, PartnerFacts DEF SettleTransaction, ClosingCovers
    <2>2. info[c].closerBalance \in Nat /\ info[c].settlerBalance \in Nat
      BY DEF TypeOK, ChannelData
    <2>3. /\ Pay(c, info[c].closer, info[c].closerBalance, info[c].settler, info[c].settlerBalance)
          /\ DeleteChannel(c)
      BY <1>8 DEF SettleTransaction
    <2> QED BY <2>1, <2>2, <2>3, SettledStep
  <1>9. ASSUME NEW d \in LockDocs, NEW a \in Addr, Withdraw(d, a) PROVE AllSteps
    BY <1>9, <1>u DEF Withdraw, token
  <1>10. ASSUME NEW c \in Channels, NEW h \in Hashes, WithdrawSettle(c, h) PROVE AllSteps
    <2>1. /\ locks[c][h].withdrawer \in Addr /\ locks[c][h].amount \in Nat
          /\ locks[c][h].amount <= info[c].total
      BY <1>10 DEF WithdrawSettle, TypeOK, TimeLock
    <2>2. PayLock(c, h, locks[c][h].withdrawer, locks[c][h].amount,
                  info[c].total - locks[c][h].amount)
      BY <1>10 DEF WithdrawSettle
    <2> QED BY <2>1, <2>2, PayLockStep
  <1>11. ASSUME NEW a \in Addr, NEW n \in Approvals, Approve(a, n) PROVE AllSteps
    BY <1>11, <1>u DEF Approve
  <1>12. CASE Pause \/ Unpause \/ NextBlock
    BY <1>12, <1>u DEF Pause, Unpause, NextBlock, token
  <1>13. ASSUME NEW n \in Periods, SetSettleTimeout(n) \/ SetHtlcSettlePeriod(n) PROVE AllSteps
    BY <1>13, <1>u DEF SetSettleTimeout, SetHtlcSettlePeriod, token
  <1>14. CASE UNCHANGED vars
    BY <1>14, <1>u DEF vars, token
  <1> QED BY <1>1, <1>2, <1>3, <1>4, <1>5, <1>6, <1>7, <1>8, <1>9, <1>10, <1>11, <1>12,
             <1>13, <1>14 DEF Next

\* Nothing that happens during a dispute, not a lock payment and not the owner,
\* rewrites what closeChannel recorded, whatever the documents.
THEOREM DisputeFrozen == Spec => ClosingFrozen
  <1>1. IInv /\ [Next]_vars =>
          [\A c \in Channels : info[c].status = "CLOSING" =>
              \/ ~info'[c].exist
              \/ info'[c] = [info[c] EXCEPT !.total = info'[c].total]]_vars
    BY StepsByNext DEF AllSteps, ChannelStep
  <1> QED BY Inductive, <1>1, PTL DEF Spec, ClosingFrozen

\* The contract pays a channel out beyond its recorded total in one case only:
\* a settlement of a channel a lock payment made smaller than its frozen amounts.
THEOREM OverpaysOnlyStale == Spec => OnlyStaleSettleOverpays
  <1>1. IInv /\ [Next]_vars =>
          [\A c \in Channels : net'[c] - info'[c].total # net[c] - info[c].total =>
              /\ info[c].status = "CLOSING"
              /\ info[c].closerBalance + info[c].settlerBalance > info[c].total
              /\ ~info'[c].exist]_vars
    BY StepsByNext DEF AllSteps, ChannelStep
  <1> QED BY Inductive, <1>1, PTL DEF Spec, OnlyStaleSettleOverpays
=============================================================================
