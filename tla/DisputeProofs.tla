--------------------------- MODULE DisputeProofs ---------------------------
(* Proofs about Dispute, for any trades, windows and environments: however   *)
(* late anything is, and whatever is lost, refused or stopped.               *)
EXTENDS Dispute, WellFoundedInduction, TLAPS

\* The last trade is no payment made while the one before it held a lock open.
NoLockBefore ==
    \A n \in Nonces : Trades[n].kind = "rsmc" /\ n = Len(Trades) /\ n > 1 =>
        Trades[n - 1].kind # "htlc"

\* Nobody withdraws with a lock while the channel closes.
NoneWithdraws ==
    info[Ch].status = "CLOSING" =>
        \A h \in Hashes : locks[Ch][h].verifier = NoAddr /\ locks[Ch][h].withdrawer = NoAddr

-----------------------------------------------------------------------------
(* The inductive invariant.                                                *)

ChainOK ==
    /\ block \in Nat /\ settleTimeout \in Nat /\ htlcSettlePeriod \in Nat
    /\ info \in [{Ch} -> Contract!ChannelData]
    /\ locks \in [{Ch} -> [Hashes -> Contract!TimeLock]]
    /\ wallet \in [Wallets -> Int]
    /\ info[Ch].status # "INIT" => info[Ch].exist

\* While a channel closes its data is the trade the closer sent.
ClosingOK ==
    info[Ch].status = "CLOSING" =>
        /\ info[Ch].closer \in Wallets /\ info[Ch].settler = Other(info[Ch].closer)
        /\ info[Ch].closingNonce \in Nonces
        /\ info[Ch].closerBalance = BalanceOf(info[Ch].closingNonce, info[Ch].closer)

\* A transaction carries a trade, which is not taken for signed if it is a lock.
TxOK(tx) ==
    /\ tx.fn \in {"close", "update"} =>
          tx.nonce \in Nonces /\ (tx.signed => Trades[tx.nonce].kind # "htlc")
    /\ tx.fn = "paylock" => tx.hash \in Hashes

\* A wallet never has less than the trades it had at the start.
FinalOK(w) ==
    \E top \in {Len(Trades) - 1, Len(Trades)} \ {0} : FinalUpTo(top) \subseteq final[w]

IInv ==
    /\ ChainOK
    /\ ClosingOK
    /\ final \in [Wallets -> SUBSET Nonces]
    /\ \A w \in Wallets : FinalOK(w)
    /\ DOMAIN pool = Wallets
    /\ \A w \in Wallets : TxOK(pool[w])

-----------------------------------------------------------------------------
(* Trades, and the newest of a set of them.                                *)

LEMMA TradeFacts ==
    /\ Len(Trades) \in Nat /\ 1 \in Nonces /\ Nonces \subseteq Nat
    /\ \A n \in Nonces :
          /\ n <= Len(Trades)
          /\ Trades[n].founderBalance \in Nat /\ Trades[n].partnerBalance \in Nat
          /\ Trades[n].amount \in Nat
          /\ Trades[n].kind \in Kinds /\ Trades[n].payer \in Wallets
          /\ Trades[n].kind = "found" <=> n = 1
          /\ Trades[n].kind = "claim" => Trades[n].hash # NoHash
  <1>1. PICK T : T = [kind : Kinds, founderBalance : Nat, partnerBalance : Nat,
                      payer : Wallets, amount : Nat, time : Nat, hash : Hashes \cup {NoHash}]
    OBVIOUS
  <1>2. Trades \in Seq(T)
    BY <1>1, DisputeAssumption
  <1>3. Len(Trades) \in Nat /\ \A n \in 1 .. Len(Trades) : Trades[n] \in T
    BY <1>2
  <1>4. \A n \in Nonces : Trades[n] \in T
    BY <1>3 DEF Nonces
  <1>5. \A x \in T :
          /\ x.founderBalance \in Nat /\ x.partnerBalance \in Nat /\ x.amount \in Nat
          /\ x.kind \in Kinds /\ x.payer \in Wallets
    BY <1>1
  <1>6. /\ 1 \in Nonces
        /\ \A n \in Nonces : Trades[n].kind = "found" <=> n = 1
        /\ \A n \in Nonces : Trades[n].kind = "claim" => Trades[n].hash # NoHash
    BY DisputeAssumption
  <1>7. Nonces \subseteq Nat /\ \A n \in Nonces : n <= Len(Trades)
    BY <1>3 DEF Nonces
  <1> QED BY <1>3, <1>4, <1>5, <1>6, <1>7

LEMMA BalanceFacts ==
    ASSUME NEW n \in Nonces, NEW w \in Wallets
    PROVE  /\ BalanceOf(n, w) \in Nat
           /\ BalanceOf(n, w) + BalanceOf(n, Other(w))
                  = Trades[n].founderBalance + Trades[n].partnerBalance
           /\ Other(w) \in Wallets /\ Other(w) # w
  <1>1. Founder # Peer
    BY DisputeAssumption
  <1>2. Trades[n].founderBalance \in Nat /\ Trades[n].partnerBalance \in Nat
    BY TradeFacts
  <1> QED BY <1>1, <1>2 DEF BalanceOf, Other, Wallets

LEMMA NonceFacts ==
    /\ Len(Trades) \in Nat /\ 1 \in Nonces
    /\ \A n \in Nonces : n \in Nat /\ n >= 1 /\ n <= Len(Trades)
    /\ \A n \in Nat : n >= 1 /\ n <= Len(Trades) => n \in Nonces
  <1>1. Len(Trades) \in Nat
    BY TradeFacts
  <1> QED BY <1>1, TradeFacts DEF Nonces

\* A set of naturals that is not empty has a least element.
LEMMA LeastNatural ==
    ASSUME NEW D \in SUBSET Nat, D # {}
    PROVE  \E d \in D : \A e \in D : d <= e
  <1>1. PICK d \in D : \A e \in D : ~ (<<e, d>> \in OpToRel(<, Nat))
    BY WFMin, NatLessThanWellFounded, Zenon
  <1>2. \A x, y \in Nat : x < y => <<x, y>> \in OpToRel(<, Nat)
    BY DEF OpToRel
  <1> DEFINE R == OpToRel(<, Nat)
  <1>3. \A e \in D : ~ (<<e, d>> \in R)
    BY <1>1
  <1>4. \A x, y \in Nat : x < y => <<x, y>> \in R
    BY <1>2
  <1> HIDE DEF R
  <1>5. \A e \in D : ~ (e < d)
    BY <1>3, <1>4
  <1> QED BY <1>5

\* Latest finds the newest trade.
LEMMA LatestFacts ==
    ASSUME IInv, NEW w \in Wallets
    PROVE  Latest(w) \in final[w] /\ Latest(w) \in Nonces /\ \A m \in final[w] : m <= Latest(w)
  <1> DEFINE D == {Len(Trades) - n : n \in final[w]}
  <1>1. final[w] \subseteq Nonces
    BY DEF IInv
  <1>2. final[w] # {}
    <2>1. PICK top \in {Len(Trades) - 1, Len(Trades)} \ {0} : FinalUpTo(top) \subseteq final[w]
      BY DEF IInv, FinalOK
    <2>2. top \in Nat /\ top >= 1
      BY TradeFacts DEF Nonces
    <2>3. Trades[1].kind # "htlc"
      BY TradeFacts
    <2>4. 1 \in FinalUpTo(top)
      BY <2>2, <2>3 DEF FinalUpTo
    <2> QED BY <2>1, <2>4
  <1>3. D \in SUBSET Nat /\ D # {}
    BY <1>1, <1>2, NonceFacts
  <1>4. PICK d \in D : \A e \in D : d <= e
    <2> HIDE DEF D
    <2> QED BY <1>3, LeastNatural
  <1>5. PICK n \in final[w] : d = Len(Trades) - n
    BY <1>4
  <1>6. ASSUME NEW m \in final[w] PROVE m <= n
    <2>1. d <= Len(Trades) - m
      BY <1>4
    <2> QED BY <1>1, <1>5, <2>1, NonceFacts
  <1>7. Latest(w) \in final[w] /\ \A m \in final[w] : m <= Latest(w)
    BY <1>6 DEF Latest
  <1> QED BY <1>1, <1>7

\* What w must get is no more than any trade from nonce n on gives it.
LEMMA ShareFacts ==
    ASSUME NEW w \in Wallets, NEW n \in Nonces, NEW m \in Nonces, n <= m
    PROVE  Share(n, w) \in Nat /\ Share(n, w) <= BalanceOf(m, w)
  <1> DEFINE D == {BalanceOf(k, w) : k \in n .. Len(Trades)}
  <1>1. n .. Len(Trades) \subseteq Nonces /\ n \in n .. Len(Trades) /\ m \in n .. Len(Trades)
    BY TradeFacts DEF Nonces
  <1>2. D \in SUBSET Nat /\ D # {}
    BY <1>1, BalanceFacts
  <1>3. PICK d \in D : \A e \in D : d <= e
    <2> HIDE DEF D
    <2> QED BY <1>2, LeastNatural
  <1>4. d \in D /\ \A k \in n .. Len(Trades) : d <= BalanceOf(k, w)
    BY <1>3
  <1>5. Share(n, w) \in D /\ \A k \in n .. Len(Trades) : Share(n, w) <= BalanceOf(k, w)
    BY <1>4 DEF Share
  <1> QED BY <1>1, <1>2, <1>5

\* The payment a settler answers with is at most one newer than the newest trade
\* of the closer.
LEMMA OneAhead ==
    ASSUME IInv, NoLockBefore, NEW w \in Wallets, NEW m \in Nonces, Trades[m].kind = "rsmc"
    PROVE  m <= Latest(w) + 1
  <1>1. PICK top \in {Len(Trades) - 1, Len(Trades)} \ {0} : FinalUpTo(top) \subseteq final[w]
    BY DEF IInv, FinalOK
  <1>2. \A n \in Nonces : n <= top /\ Trades[n].kind # "htlc" => n <= Latest(w)
    <2>1. \A n \in Nonces : n <= top /\ Trades[n].kind # "htlc" => n \in FinalUpTo(top)
      BY <1>1, TradeFacts DEF FinalUpTo, Nonces
    <2> QED BY <1>1, <2>1, LatestFacts
  <1>3. CASE m <= top
    <2>1. m <= Latest(w)
      BY <1>2, <1>3, TradeFacts
    <2>2. m \in Nat /\ Latest(w) \in Nat
      BY LatestFacts, NonceFacts
    <2> QED BY <2>1, <2>2
  <1>4. CASE m > top
    <2>1. m = Len(Trades) /\ top = m - 1 /\ m > 1 /\ top \in Nonces
      BY <1>1, <1>4, TradeFacts DEF Nonces
    <2>2. Trades[top].kind # "htlc"
      BY <2>1 DEF NoLockBefore
    <2>3. top <= Latest(w)
      BY <1>2, <2>1, <2>2, NonceFacts
    <2>4. m \in Nat /\ top \in Nat /\ Latest(w) \in Nat
      BY <2>1, LatestFacts, NonceFacts
    <2> QED BY <2>1, <2>3, <2>4
  <1> QED BY <1>1, <1>3, <1>4, TradeFacts

-----------------------------------------------------------------------------
(* What the contract does, transaction by transaction.                     *)

LEMMA DocFacts ==
    ASSUME NEW n \in Nonces, NEW d, d \in {Doc(n), TxDoc(n)}
    PROVE  /\ d.ch = Ch /\ d.nonce = n
           /\ d.founderBalance = Trades[n].founderBalance
           /\ d.partnerBalance = Trades[n].partnerBalance
           /\ \A w \in Wallets : Contract!BalanceOf(d, w) = BalanceOf(n, w)
  BY DEF Doc, TxDoc, Contract!BalanceOf, BalanceOf

LEMMA PartnerFacts ==
    ASSUME NEW w \in Wallets
    PROVE  Contract!OtherPartner(Ch, w) = Other(w)
  BY DEF Contract!OtherPartner, Other

\* Whom the contract pays what.
LEMMA PayFacts ==
    ASSUME ChainOK, NEW a \in Wallets, NEW b \in Wallets, NEW x \in Int, NEW y \in Int,
           Contract!Pay(Ch, a, x, b, y)
    PROVE  wallet' \in [Wallets -> Int] /\ (a # b => wallet'[a] = wallet[a] + x)
  <1>1. wallet \in [Wallets -> Int] /\ wallet' = [wallet EXCEPT ![a] = @ + x, ![b] = @ + y]
    BY DEF ChainOK, Contract!Pay
  <1>2. wallet' \in [Wallets -> Int]
    BY <1>1
  <1>3. a # b => wallet'[a] = wallet[a] + x
    BY <1>1
  <1> QED BY <1>2, <1>3

LEMMA DeleteFacts ==
    ASSUME ChainOK, Contract!DeleteChannel(Ch)
    PROVE  /\ info' \in [{Ch} -> Contract!ChannelData]
           /\ ~info'[Ch].exist /\ info'[Ch].status = "INIT"
  <1>1. /\ Contract!NoChannel \in Contract!ChannelData
        /\ ~Contract!NoChannel.exist /\ Contract!NoChannel.status = "INIT"
    BY DEF Contract!NoChannel, Contract!ChannelData, Contract!Status
  <1> QED BY <1>1 DEF ChainOK, Contract!DeleteChannel

\* closeChannel with the trade n.
LEMMA CloseFacts ==
    ASSUME IInv, NEW w \in Wallets, NEW n \in Nonces, NEW d, d \in {Doc(n), TxDoc(n)},
           Contract!CloseChannel(d, w)
    PROVE  ChainOK' /\ ClosingOK' /\ info[Ch].status = "OPENING"
  <1>1. /\ d.ch = Ch /\ d.nonce = n
        /\ d.founderBalance + d.partnerBalance = BalanceOf(n, w) + BalanceOf(n, Other(w))
        /\ Contract!BalanceOf(d, w) = BalanceOf(n, w)
    BY DocFacts, BalanceFacts
  <1>2. BalanceOf(n, w) \in Nat /\ BalanceOf(n, Other(w)) \in Nat /\ Other(w) \in Wallets
    BY BalanceFacts
  <1>3. PICK i : i = [info[Ch] EXCEPT !.status = "CLOSING",
                                      !.closer = w,
                                      !.closingNonce = n,
                                      !.closerBalance = BalanceOf(n, w),
                                      !.settlerBalance = info[Ch].total - BalanceOf(n, w),
                                      !.settler = Other(w),
                                      !.expectedSettleBlock = block + settleTimeout]
    OBVIOUS
  <1>4. /\ info[Ch].status = "OPENING" /\ info[Ch].exist
        /\ BalanceOf(n, w) + BalanceOf(n, Other(w)) <= info[Ch].total
        /\ info' = [info EXCEPT ![Ch] = i]
        /\ UNCHANGED <<block, settleTimeout, htlcSettlePeriod, locks, wallet>>
    BY <1>1, <1>3, PartnerFacts
       DEF Contract!CloseChannel, Contract!config, Contract!token, IInv, ChainOK
  <1>5. info[Ch] \in Contract!ChannelData /\ block + settleTimeout \in Nat
    BY DEF IInv, ChainOK
  <1>6. info[Ch].total \in Nat
    BY <1>5 DEF Contract!ChannelData
  <1>7. info[Ch].total - BalanceOf(n, w) \in Nat
    BY <1>2, <1>4, <1>6
  <1>8. /\ i \in Contract!ChannelData
        /\ i.exist = info[Ch].exist /\ i.closer = w /\ i.settler = Other(w)
        /\ i.closingNonce = n /\ i.closerBalance = BalanceOf(n, w)
    BY <1>2, <1>3, <1>5, <1>7, NonceFacts DEF Contract!ChannelData, Contract!Status
  <1>9. info' \in [{Ch} -> Contract!ChannelData] /\ info'[Ch] = i
    BY <1>4, <1>8 DEF IInv, ChainOK
  <1>10. ChainOK'
    BY <1>4, <1>8, <1>9 DEF IInv, ChainOK
  <1>11. ClosingOK'
    BY <1>4, <1>8, <1>9 DEF ClosingOK, BalanceOf
  <1> QED BY <1>4, <1>10, <1>11

\* The channel is gone.
LEMMA GoneFacts ==
    ASSUME ChainOK, Contract!DeleteChannel(Ch),
           UNCHANGED <<block, settleTimeout, htlcSettlePeriod>>,
           locks' \in [{Ch} -> [Hashes -> Contract!TimeLock]], wallet' \in [Wallets -> Int]
    PROVE  ChainOK' /\ ClosingOK'
  <1>1. /\ info' \in [{Ch} -> Contract!ChannelData]
        /\ ~info'[Ch].exist /\ info'[Ch].status = "INIT"
    BY DeleteFacts
  <1> QED BY <1>1 DEF ChainOK, ClosingOK

\* updateTransaction with the trade m: the closer gets what m gives it, unless m
\* is older, when it gets what it closed with, or newer by more than one.
LEMMA UpdateFacts ==
    ASSUME IInv, NEW m \in Nonces, Contract!UpdateTransaction(TxDoc(m))
    PROVE  /\ ChainOK' /\ ClosingOK'
           /\ info[Ch].status = "CLOSING" /\ TxDoc(m).opens = NoHash
           /\ m <= info[Ch].closingNonce + 1 =>
                \E k \in Nonces :
                    /\ info[Ch].closingNonce <= k
                    /\ wallet'[info[Ch].closer]
                         = wallet[info[Ch].closer] + BalanceOf(k, info[Ch].closer)
  <1>1. PICK d : d = TxDoc(m)
    OBVIOUS
  <1>2. /\ d.ch = Ch /\ d.nonce = m
        /\ d.founderBalance = Trades[m].founderBalance
        /\ d.partnerBalance = Trades[m].partnerBalance
        /\ \A w \in Wallets : Contract!BalanceOf(d, w) = BalanceOf(m, w)
    BY <1>1, DocFacts
  <1>3. PICK i : i = info[Ch]
    OBVIOUS
  <1>4. /\ d.opens = NoHash /\ i.status = "CLOSING"
        /\ d.founderBalance + d.partnerBalance <= i.total
        /\ Contract!Pay(Ch, i.closer, Contract!CloserShare(d), i.settler, Contract!SettlerShare(d))
        /\ Contract!DeleteChannel(Ch)
        /\ UNCHANGED <<block, settleTimeout, htlcSettlePeriod, locks>>
    BY <1>1, <1>2, <1>3 DEF Contract!UpdateTransaction, Contract!config
  <1>5. /\ i.closer \in Wallets /\ i.settler \in Wallets /\ i.closer # i.settler
        /\ i.closingNonce \in Nonces /\ i.closerBalance = BalanceOf(i.closingNonce, i.closer)
    BY <1>3, <1>4, BalanceFacts DEF IInv, ClosingOK
  <1>6. i.total \in Nat /\ i.settlerBalance \in Nat
    BY <1>3 DEF IInv, ChainOK, Contract!ChannelData
  <1>7. BalanceOf(m, i.closer) \in Nat /\ i.closerBalance \in Nat
    BY <1>5, BalanceFacts
  <1>8. /\ Contract!CloserShare(d) =
             IF m \in {i.closingNonce, i.closingNonce + 1} THEN BalanceOf(m, i.closer)
             ELSE IF m > i.closingNonce + 1 THEN 0 ELSE i.closerBalance
        /\ Contract!SettlerShare(d) =
             IF m \in {i.closingNonce, i.closingNonce + 1} THEN i.total - BalanceOf(m, i.closer)
             ELSE IF m > i.closingNonce + 1 THEN i.total ELSE i.settlerBalance
    BY <1>2, <1>3, <1>5
       DEF Contract!CloserShare, Contract!SettlerShare, Contract!SettlesAsSigned, Contract!ConvictsCloser
  <1>9. PICK x, y : x = Contract!CloserShare(d) /\ y = Contract!SettlerShare(d)
    OBVIOUS
  <1>10. x \in Int /\ y \in Int
    BY <1>6, <1>7, <1>8, <1>9
  <1>11. wallet' \in [Wallets -> Int] /\ wallet'[i.closer] = wallet[i.closer] + x
    BY <1>4, <1>5, <1>9, <1>10, PayFacts DEF IInv
  <1>12. ChainOK' /\ ClosingOK'
    <2>1. locks' \in [{Ch} -> [Hashes -> Contract!TimeLock]]
      BY <1>4 DEF IInv, ChainOK
    <2> QED BY <1>4, <1>11, <2>1, GoneFacts DEF IInv
  <1>13. ASSUME m <= i.closingNonce + 1
         PROVE  \E k \in Nonces : i.closingNonce <= k /\ x = BalanceOf(k, i.closer)
    <2>1. m \in Nat /\ i.closingNonce \in Nat
      BY <1>5, NonceFacts
    <2>2. CASE m < i.closingNonce
      <3>1. x = BalanceOf(i.closingNonce, i.closer)
        BY <1>5, <1>8, <1>9, <2>1, <2>2
      <3> QED BY <1>5, <2>1, <3>1
    <2>3. CASE m >= i.closingNonce
      <3>1. m \in {i.closingNonce, i.closingNonce + 1}
        BY <1>13, <2>1, <2>3
      <3> QED BY <1>8, <1>9, <2>3, <3>1
    <2> QED BY <2>1, <2>2, <2>3
  <1> QED BY <1>1, <1>3, <1>4, <1>11, <1>12, <1>13

\* settleTransaction: the closer gets what it closed with.
LEMMA SettleFacts ==
    ASSUME IInv, Contract!SettleTransaction(Ch)
    PROVE  /\ ChainOK' /\ ClosingOK'
           /\ info[Ch].status = "CLOSING"
           /\ wallet'[info[Ch].closer]
                = wallet[info[Ch].closer] + BalanceOf(info[Ch].closingNonce, info[Ch].closer)
  <1>1. PICK i : i = info[Ch]
    OBVIOUS
  <1>2. /\ i.status = "CLOSING"
        /\ Contract!Pay(Ch, i.closer, i.closerBalance, i.settler, i.settlerBalance)
        /\ Contract!DeleteChannel(Ch)
        /\ UNCHANGED <<block, settleTimeout, htlcSettlePeriod, locks>>
    BY <1>1 DEF Contract!SettleTransaction, Contract!config
  <1>3. /\ i.closer \in Wallets /\ i.settler \in Wallets /\ i.closer # i.settler
        /\ i.closerBalance = BalanceOf(i.closingNonce, i.closer)
    BY <1>1, <1>2, BalanceFacts DEF IInv, ClosingOK
  <1>4. i.closerBalance \in Int /\ i.settlerBalance \in Int
    BY <1>1 DEF IInv, ChainOK, Contract!ChannelData
  <1>5. wallet' \in [Wallets -> Int] /\ wallet'[i.closer] = wallet[i.closer] + i.closerBalance
    BY <1>2, <1>3, <1>4, PayFacts DEF IInv
  <1>6. locks' \in [{Ch} -> [Hashes -> Contract!TimeLock]]
    BY <1>2 DEF IInv, ChainOK
  <1>7. ChainOK' /\ ClosingOK'
    BY <1>2, <1>5, <1>6, GoneFacts DEF IInv
  <1> QED BY <1>1, <1>2, <1>3, <1>5, <1>7

\* A lock is paid.
LEMMA PayLockFacts ==
    ASSUME IInv, NEW h \in Hashes, NEW a \in Wallets, NEW x \in Nat, NEW n \in Nat,
           Contract!PayLock(Ch, h, a, x, n), UNCHANGED <<block, settleTimeout, htlcSettlePeriod>>
    PROVE  ChainOK' /\ ClosingOK'
  <1>1. /\ Contract!Pay(Ch, a, x, a, 0)
        /\ locks' = [locks EXCEPT ![Ch][h] =
                       [Contract!NoLock EXCEPT !.withdrawn = locks[Ch][h].withdrawn]]
    BY DEF Contract!PayLock
  <1>2. wallet' \in [Wallets -> Int]
    BY <1>1, PayFacts DEF IInv
  <1>3. locks' \in [{Ch} -> [Hashes -> Contract!TimeLock]]
    <2>1. locks \in [{Ch} -> [Hashes -> Contract!TimeLock]]
      BY DEF IInv, ChainOK
    <2>2. PICK l : l = [Contract!NoLock EXCEPT !.withdrawn = locks[Ch][h].withdrawn]
      OBVIOUS
    <2>3. locks[Ch][h].withdrawn \in BOOLEAN
      BY <2>1 DEF Contract!TimeLock
    <2>4. l \in Contract!TimeLock
      BY <2>2, <2>3 DEF Contract!NoLock, Contract!TimeLock
    <2>5. locks' = [locks EXCEPT ![Ch][h] = l]
      BY <1>1, <2>2
    <2> QED BY <2>1, <2>4, <2>5
  <1>4. CASE n = 0
    <2>1. Contract!DeleteChannel(Ch)
      BY <1>4 DEF Contract!PayLock
    <2> QED BY <1>2, <1>3, <2>1, GoneFacts DEF IInv
  <1>5. CASE n # 0
    <2>1. info' = [info EXCEPT ![Ch].total = n]
      BY <1>5 DEF Contract!PayLock
    <2>2. info[Ch] \in Contract!ChannelData /\ info \in [{Ch} -> Contract!ChannelData]
      BY DEF IInv, ChainOK
    <2>3. PICK i : i = [info[Ch] EXCEPT !.total = n]
      OBVIOUS
    <2>4. i \in Contract!ChannelData
      BY <2>2, <2>3 DEF Contract!ChannelData
    <2>5. /\ i.status = info[Ch].status /\ i.exist = info[Ch].exist /\ i.closer = info[Ch].closer
          /\ i.settler = info[Ch].settler /\ i.closingNonce = info[Ch].closingNonce
          /\ i.closerBalance = info[Ch].closerBalance
      BY <2>2, <2>3 DEF Contract!ChannelData
    <2>6. info' \in [{Ch} -> Contract!ChannelData] /\ info'[Ch] = i
      BY <2>1, <2>2, <2>3, <2>4
    <2>7. ChainOK'
      BY <1>2, <1>3, <2>5, <2>6 DEF IInv, ChainOK
    <2>8. ClosingOK'
      BY <2>5, <2>6 DEF IInv, ClosingOK, BalanceOf
    <2> QED BY <2>7, <2>8
  <1> QED BY <1>4, <1>5

\* A step of the contract that pays nothing and leaves the channel.
LEMMA SameChannel ==
    ASSUME IInv, UNCHANGED <<settleTimeout, htlcSettlePeriod, info, wallet>>, block' \in Nat,
           locks' \in [{Ch} -> [Hashes -> Contract!TimeLock]]
    PROVE  ChainOK' /\ ClosingOK'
  BY DEF IInv, ChainOK, ClosingOK, BalanceOf

\* withdraw with the lock of the trade n.
LEMMA WithdrawFacts ==
    ASSUME IInv, NEW w \in Wallets, NEW n \in Of("htlc"), Contract!Withdraw(LockDoc(n), w)
    PROVE  ChainOK' /\ ClosingOK' /\ UNCHANGED info
  <1>1. PICK d : d = LockDoc(n)
    OBVIOUS
  <1>2. /\ d.ch = Ch /\ d.lockAmount \in Nat
        /\ d.sender \in Wallets /\ d.receiver \in Wallets
    BY <1>1, TradeFacts, BalanceFacts DEF LockDoc, Of
  <1>3. PICK v \in Wallets, u \in Wallets : Contract!WithdrawLocks(d, v, u)
    BY <1>1, <1>2 DEF Contract!Withdraw
  <1>4. UNCHANGED <<block, settleTimeout, htlcSettlePeriod, info, wallet>>
    BY DEF Contract!Withdraw, Contract!config, Contract!token
  <1>5. PICK l : l = [verifier |-> v, withdrawer |-> u, amount |-> d.lockAmount,
                      time |-> block + htlcSettlePeriod, withdrawn |-> TRUE]
    OBVIOUS
  <1>6. l \in Contract!TimeLock
    BY <1>2, <1>5 DEF IInv, ChainOK, Contract!TimeLock
  <1>7. locks' = [locks EXCEPT ![Ch][d.lockHash] = l]
    BY <1>2, <1>3, <1>5 DEF Contract!WithdrawLocks
  <1>8. locks' \in [{Ch} -> [Hashes -> Contract!TimeLock]] /\ block' \in Nat
    BY <1>2, <1>4, <1>6, <1>7 DEF IInv, ChainOK
  <1> QED BY <1>4, <1>8, SameChannel

\* What the closer gets, if nobody withdraws meanwhile and it closed with its
\* newest trade.
ClosersPart ==
    PaidOut /\ NoneWithdraws /\ NoLockBefore /\ info[Ch].closingNonce >= Latest(info[Ch].closer)
        => Gets(info[Ch].closer) >= Share(info[Ch].closingNonce, info[Ch].closer)

\* A closer that is paid as a trade at least as new as its own says gets its part.
LEMMA PaidAsTrade ==
    ASSUME IInv, info[Ch].status = "CLOSING", wallet' \in [Wallets -> Int],
           NEW k \in Nonces, info[Ch].closingNonce <= k,
           wallet'[info[Ch].closer] = wallet[info[Ch].closer] + BalanceOf(k, info[Ch].closer)
    PROVE  ClosersPart
  <1>1. PICK w, n : w = info[Ch].closer /\ n = info[Ch].closingNonce
    OBVIOUS
  <1>2. w \in Wallets /\ n \in Nonces
    BY <1>1 DEF IInv, ClosingOK
  <1>3. Share(n, w) \in Nat /\ Share(n, w) <= BalanceOf(k, w) /\ BalanceOf(k, w) \in Nat
    BY <1>1, <1>2, ShareFacts, BalanceFacts
  <1>4. wallet[w] \in Int /\ wallet'[w] = wallet[w] + BalanceOf(k, w)
    BY <1>1, <1>2 DEF IInv, ChainOK
  <1>5. Gets(w) >= Share(n, w)
    BY <1>3, <1>4 DEF Gets
  <1> QED BY <1>1, <1>5 DEF ClosersPart

\* A transaction of w.
LEMMA ExecutesFacts ==
    ASSUME IInv, NEW w \in Wallets, NEW tx, TxOK(tx), Executes(w, tx)
    PROVE  ChainOK' /\ ClosingOK' /\ ClosersPart
  <1>1. ASSUME CloseMined(w, tx) PROVE ChainOK' /\ ClosingOK' /\ ClosersPart
    <2>1. tx.nonce \in Nonces
      BY <1>1 DEF CloseMined, TxOK
    <2>2. PICK d \in {Doc(tx.nonce), TxDoc(tx.nonce)} : Contract!CloseChannel(d, w)
      BY <1>1 DEF CloseMined
    <2>3. ChainOK' /\ ClosingOK' /\ info[Ch].status = "OPENING"
      BY <2>1, <2>2, CloseFacts
    <2> QED BY <2>3 DEF ClosersPart, PaidOut
  <1>2. ASSUME UpdateMined(w, tx) PROVE ChainOK' /\ ClosingOK' /\ ClosersPart
    <2>1. PICK m \in Nonces : m = tx.nonce /\ Trades[m].kind # "htlc"
      BY <1>2 DEF UpdateMined, TxOK
    <2>2. CASE Contract!UpdateTransaction(TxDoc(m))
      <3>1. /\ ChainOK' /\ ClosingOK'
            /\ info[Ch].status = "CLOSING" /\ TxDoc(m).opens = NoHash
            /\ m <= info[Ch].closingNonce + 1 =>
                 \E k \in Nonces :
                    /\ info[Ch].closingNonce <= k
                    /\ wallet'[info[Ch].closer]
                         = wallet[info[Ch].closer] + BalanceOf(k, info[Ch].closer)
        BY <2>2, UpdateFacts
      <3>2. CASE m <= info[Ch].closingNonce + 1
        BY <3>1, <3>2, PaidAsTrade DEF ChainOK
      <3>3. ASSUME NoLockBefore, info[Ch].closingNonce >= Latest(info[Ch].closer)
            PROVE  m <= info[Ch].closingNonce + 1
        <4>1. PICK u, n : u = info[Ch].closer /\ n = info[Ch].closingNonce
          OBVIOUS
        <4>2. u \in Wallets /\ n \in Nonces
          BY <3>1, <4>1 DEF IInv, ClosingOK
        <4>3. Latest(u) \in Nat /\ n \in Nat /\ m \in Nat /\ n >= 1 /\ n >= Latest(u)
          BY <3>3, <4>1, <4>2, LatestFacts, NonceFacts
        <4>4. CASE Trades[m].kind = "rsmc"
          BY <3>3, <4>1, <4>2, <4>3, <4>4, OneAhead
        <4>5. CASE Trades[m].kind = "found"
          <5>1. m = 1
            BY <4>5, TradeFacts
          <5> QED BY <4>1, <4>3, <5>1
        <4>6. Trades[m].kind # "claim"
          BY <3>1, TradeFacts DEF TxDoc
        <4> QED BY <2>1, <4>4, <4>5, <4>6, TradeFacts DEF Kinds
      <3> QED BY <3>1, <3>2, <3>3 DEF ClosersPart
    <2>3. ASSUME NEW h \in Hashes, TxDoc(m).opens = h, Contract!UpdateHTLC(TxDoc(m))
          PROVE  ChainOK' /\ ClosingOK' /\ ClosersPart
      <3>1. /\ TxDoc(m).ch = Ch /\ locks[Ch][h].verifier # NoAddr
            /\ Contract!PayLock(Ch, h, locks[Ch][h].verifier, info[Ch].total, 0)
            /\ UNCHANGED <<block, settleTimeout, htlcSettlePeriod>>
        BY <2>3, DocFacts DEF Contract!UpdateHTLC, Contract!config
      <3>2. locks[Ch][h].verifier \in Wallets /\ info[Ch].total \in Nat
        BY <3>1 DEF IInv, ChainOK, Contract!TimeLock, Contract!ChannelData
      <3>3. ChainOK' /\ ClosingOK'
        BY <3>1, <3>2, PayLockFacts
      <3> QED BY <3>1, <3>3 DEF ClosersPart, PaidOut, NoneWithdraws
    <2> QED BY <1>2, <2>1, <2>2, <2>3 DEF UpdateMined
  <1>3. ASSUME SettleMined(w, tx) PROVE ChainOK' /\ ClosingOK' /\ ClosersPart
    <2>1. /\ ChainOK' /\ ClosingOK'
          /\ info[Ch].status = "CLOSING"
          /\ wallet'[info[Ch].closer]
               = wallet[info[Ch].closer] + BalanceOf(info[Ch].closingNonce, info[Ch].closer)
      BY <1>3, SettleFacts DEF SettleMined
    <2>2. info[Ch].closingNonce \in Nonces /\ info[Ch].closingNonce <= info[Ch].closingNonce
      BY <2>1, NonceFacts DEF IInv, ClosingOK
    <2> QED BY <2>1, <2>2, PaidAsTrade DEF ChainOK
  <1>4. ASSUME WithdrawMined(w, tx) PROVE ChainOK' /\ ClosingOK' /\ ClosersPart
    <2>1. PICK n \in Of("htlc") : Contract!Withdraw(LockDoc(n), w)
      BY <1>4 DEF WithdrawMined
    <2>2. ChainOK' /\ ClosingOK' /\ UNCHANGED info
      BY <2>1, WithdrawFacts
    <2> QED BY <2>2 DEF ClosersPart, PaidOut, IInv, ChainOK
  <1>5. ASSUME PayLockMined(w, tx) PROVE ChainOK' /\ ClosingOK' /\ ClosersPart
    <2>1. PICK h \in Hashes : h = tx.hash
      BY <1>5 DEF PayLockMined, TxOK
    <2>2. PICK l : l = locks[Ch][h]
      OBVIOUS
    <2>3. /\ l.withdrawer # NoAddr /\ l.amount <= info[Ch].total
          /\ Contract!PayLock(Ch, h, l.withdrawer, l.amount, info[Ch].total - l.amount)
          /\ UNCHANGED <<block, settleTimeout, htlcSettlePeriod>>
      BY <1>5, <2>1, <2>2 DEF PayLockMined, Contract!WithdrawSettle, Contract!config
    <2>4. l \in Contract!TimeLock /\ info[Ch].total \in Nat
      BY <2>2 DEF IInv, ChainOK, Contract!ChannelData
    <2>5. l.withdrawer \in Wallets /\ l.amount \in Nat
      BY <2>3, <2>4 DEF Contract!TimeLock
    <2>6. info[Ch].total - l.amount \in Nat
      BY <2>3, <2>4, <2>5
    <2>7. ChainOK' /\ ClosingOK'
      BY <2>3, <2>5, <2>6, PayLockFacts
    <2> QED BY <2>2, <2>3, <2>7 DEF ClosersPart, PaidOut, NoneWithdraws
  <1> QED BY <1>1, <1>2, <1>3, <1>4, <1>5 DEF Executes

-----------------------------------------------------------------------------
(* The wallets, and the steps together.                                    *)

\* A step that is none of the contract's.
LEMMA QuietFacts ==
    ASSUME IInv, UNCHANGED contract
    PROVE  ChainOK' /\ ClosingOK' /\ ClosersPart
  <1>1. UNCHANGED <<block, settleTimeout, htlcSettlePeriod, info, locks, wallet>>
    BY DEF contract
  <1>2. ChainOK' /\ ClosingOK'
    BY <1>1, SameChannel DEF IInv, ChainOK
  <1>3. ~PaidOut
    BY <1>1 DEF PaidOut, IInv, ChainOK
  <1> QED BY <1>2, <1>3 DEF ClosersPart

\* What an event sends is a trade as it is in the table, or carries none.
LEMMA CallFacts ==
    ASSUME NEW fn \in {"close", "update"}, NEW n \in Nonces
    PROVE  TxOK(Call(fn, n))
  BY DEF TxOK, Call

LEMMA EventFacts ==
    ASSUME IInv, NEW w \in Wallets, RunEvent(w)
    PROVE  UNCHANGED pool \/ \E tx : TxOK(tx) /\ pool' = [pool EXCEPT ![w] = tx]
  <1>1. ASSUME ForceSettle(w)
        PROVE  UNCHANGED pool \/ \E tx : TxOK(tx) /\ pool' = [pool EXCEPT ![w] = tx]
    <2>1. PICK n : n = IF event[w].debug THEN event[w].nonce ELSE Latest(w)
      OBVIOUS
    <2>2. UNCHANGED pool \/ (n \in Nonces /\ Sends(w, Call("close", n)))
      BY <1>1, <2>1, LatestFacts DEF ForceSettle, Idle, Unsent
    <2> QED BY <2>2, CallFacts DEF Sends
  <1>2. ASSUME UpdateSettle(w)
        PROVE  UNCHANGED pool \/ \E tx : TxOK(tx) /\ pool' = [pool EXCEPT ![w] = tx]
    <2>1. UNCHANGED pool \/ Sends(w, Call("update", Latest(w)))
      BY <1>2 DEF UpdateSettle, Idle, Unsent
    <2> QED BY <2>1, CallFacts, LatestFacts DEF Sends
  <1>3. ASSUME EndSettle(w)
        PROVE  UNCHANGED pool \/ \E tx : TxOK(tx) /\ pool' = [pool EXCEPT ![w] = tx]
    <2>1. UNCHANGED pool \/ Sends(w, [fn |-> "settle", at |-> block])
      BY <1>3 DEF EndSettle, Unsent
    <2>2. TxOK([fn |-> "settle", at |-> block])
      BY DEF TxOK
    <2> QED BY <2>1, <2>2 DEF Sends
  <1>4. ASSUME HtlcUnlock(w)
        PROVE  UNCHANGED pool \/ \E tx : TxOK(tx) /\ pool' = [pool EXCEPT ![w] = tx]
    <2>1. PICK tx : tx = [fn |-> "withdraw", hash |-> event[w].hash, at |-> block]
      OBVIOUS
    <2>2. UNCHANGED pool \/ Sends(w, tx)
      BY <1>4, <2>1 DEF HtlcUnlock, Unsent
    <2>3. TxOK(tx)
      BY <2>1 DEF TxOK
    <2> QED BY <2>2, <2>3 DEF Sends
  <1>5. ASSUME PunishHtlcUnlock(w)
        PROVE  UNCHANGED pool \/ \E tx : TxOK(tx) /\ pool' = [pool EXCEPT ![w] = tx]
    <2>1. UNCHANGED pool \/ \E n \in Claims(w, event[w].hash) : Sends(w, Call("update", n))
      BY <1>5 DEF PunishHtlcUnlock, Idle, Unsent
    <2>2. Claims(w, event[w].hash) \subseteq Nonces
      BY DEF Claims, Of
    <2> QED BY <2>1, <2>2, CallFacts DEF Sends
  <1>6. SettleHtlcUnlock(w) => UNCHANGED pool
    BY DEF SettleHtlcUnlock, Idle
  <1> QED BY <1>1, <1>2, <1>3, <1>4, <1>5, <1>6 DEF RunEvent

\* What a notification adds to the final trades.
LEMMA NoticeFacts ==
    ASSUME IInv, NEW w \in Wallets, HandleEvent(w)
    PROVE  /\ final' \in [Wallets -> SUBSET Nonces]
           /\ \A v \in Wallets : final[v] \subseteq final'[v]
  <1>1. PICK m : m = Head(notices[w])
    OBVIOUS
  <1>2. UNCHANGED final \/ MonitorWithdrawSettle(w, m)
    BY <1>1 DEF HandleEvent, MonitorCloseChannel, MonitorWithdraw, MonitorSettle, MonitorWithdrawUpdate
  <1>3. PICK N \in SUBSET Nonces : N = {n \in Of("htlc") : Trades[n].hash = m.hash}
    BY DEF Of
  <1>4. UNCHANGED final \/ final' = [final EXCEPT ![w] = @ \cup N]
    BY <1>2, <1>3 DEF MonitorWithdrawSettle
  <1> QED BY <1>4 DEF IInv

LEMMA InitInv == Init => IInv
  <1> SUFFICES ASSUME Init PROVE IInv
    OBVIOUS
  <1>1. Total \in Nat /\ Window \in Nat /\ HtlcWindow \in Nat
    <2>1. Total \in Nat
      BY TradeFacts DEF Total
    <2>2. Window \in Nat /\ HtlcWindow \in Nat
      BY DisputeAssumption
    <2> QED BY <2>1, <2>2
  <1>2. ChainOK
    <2>1. PICK i : i = Contract!NewChannel(Total)
      OBVIOUS
    <2>2. i \in Contract!ChannelData /\ i.exist
      BY <1>1, <2>1 DEF Contract!NewChannel, Contract!ChannelData, Contract!Status
    <2>3. Contract!NoLock \in Contract!TimeLock
      BY DEF Contract!NoLock, Contract!TimeLock
    <2>4. info = [c \in {Ch} |-> i] /\ locks = [c \in {Ch} |-> [h \in Hashes |-> Contract!NoLock]]
      BY <2>1 DEF Init
    <2>5. info \in [{Ch} -> Contract!ChannelData] /\ info[Ch].exist
      BY <2>2, <2>4
    <2>6. locks \in [{Ch} -> [Hashes -> Contract!TimeLock]]
      BY <2>3, <2>4
    <2> QED BY <1>1, <2>5, <2>6 DEF Init, ChainOK
  <1>3. ClosingOK
    BY DEF Init, ClosingOK, Contract!NewChannel
  <1>4. \A w \in Wallets : TxOK(pool[w])
    BY DEF Init, TxOK, NoTx
  <1>5. PICK top \in [Wallets -> {Len(Trades) - 1, Len(Trades)} \ {0}] :
            final = [w \in Wallets |-> FinalUpTo(top[w])]
    BY DEF Init
  <1>6. ASSUME NEW w \in Wallets PROVE FinalUpTo(top[w]) \subseteq Nonces
    <2>1. top[w] \in {Len(Trades) - 1, Len(Trades)}
      BY <1>5
    <2> QED BY <2>1, NonceFacts DEF FinalUpTo, Nonces
  <1>7. final \in [Wallets -> SUBSET Nonces]
    BY <1>5, <1>6
  <1>8. \A w \in Wallets : FinalOK(w)
    BY <1>5 DEF FinalOK
  <1> QED BY <1>2, <1>3, <1>4, <1>7, <1>8 DEF IInv, Init

\* One step, action by action: the invariant, and the closer's part.
LEMMA NextFacts ==
    ASSUME IInv, Next
    PROVE  IInv' /\ ClosersPart
  <1>1. ASSUME ChainOK', ClosingOK', ClosersPart, UNCHANGED <<final, pool>>
        PROVE  IInv' /\ ClosersPart
    BY <1>1 DEF IInv, FinalOK, TxOK
  <1>2. ASSUME NEW w \in Wallets, NEW r, Ask(w, r) PROVE IInv' /\ ClosersPart
    BY <1>1, <1>2, QuietFacts DEF Ask
  <1>3. ASSUME NEW w \in Wallets, RunEvent(w) PROVE IInv' /\ ClosersPart
    <2>1. ChainOK' /\ ClosingOK' /\ ClosersPart /\ UNCHANGED final
      BY <1>3, QuietFacts DEF RunEvent
    <2>2. CASE UNCHANGED pool
      BY <1>1, <2>1, <2>2
    <2>3. ASSUME NEW tx, TxOK(tx), pool' = [pool EXCEPT ![w] = tx]
          PROVE  IInv'
      <3>1. DOMAIN pool' = Wallets /\ \A v \in Wallets : pool'[v] = pool[v] \/ pool'[v] = tx
        BY <2>3 DEF IInv
      <3>2. \A v \in Wallets : TxOK(pool'[v])
        BY <2>3, <3>1 DEF IInv
      <3> QED BY <2>1, <3>1, <3>2 DEF IInv, FinalOK, TxOK
    <2> QED BY <1>3, <2>1, <2>2, <2>3, EventFacts
  <1>4. ASSUME NEW w \in Wallets, HandleEvent(w) PROVE IInv' /\ ClosersPart
    <2>1. ChainOK' /\ ClosingOK' /\ ClosersPart /\ UNCHANGED pool
      BY <1>4, QuietFacts DEF HandleEvent
    <2>2. final' \in [Wallets -> SUBSET Nonces] /\ \A v \in Wallets : final[v] \subseteq final'[v]
      BY <1>4, NoticeFacts
    <2>3. ASSUME NEW v \in Wallets PROVE FinalOK(v)'
      BY <2>2 DEF IInv, FinalOK
    <2> QED BY <2>1, <2>2, <2>3 DEF IInv, TxOK
  <1>5. ASSUME NEW w \in Wallets, TimerEvent(w) \/ SeeBlock(w) \/ Crash(w)
        PROVE  IInv' /\ ClosersPart
    BY <1>1, <1>5, QuietFacts DEF TimerEvent, SeeBlock, Crash
  <1>6. ASSUME NEW w \in Wallets, Mine(w) PROVE IInv' /\ ClosersPart
    <2>1. /\ Executes(w, pool[w]) \/ UNCHANGED contract
          /\ pool' = [pool EXCEPT ![w] = NoTx] /\ UNCHANGED final
      BY <1>6 DEF Mine
    <2>2. ChainOK' /\ ClosingOK' /\ ClosersPart
      BY <2>1, ExecutesFacts, QuietFacts DEF IInv
    <2>3. TxOK(NoTx)
      BY DEF TxOK, NoTx
    <2>4. DOMAIN pool' = Wallets /\ \A v \in Wallets : TxOK(pool'[v])
      BY <2>1, <2>3 DEF IInv
    <2> QED BY <2>1, <2>2, <2>4 DEF IInv, FinalOK, TxOK
  <1>7. ASSUME NEW w \in Wallets, NEW h \in Hashes, PayLockDirectly(w, h)
        PROVE  IInv' /\ ClosersPart
    <2>1. PICK tx : tx = [fn |-> "paylock", hash |-> h, at |-> block]
      OBVIOUS
    <2>2. TxOK(tx) /\ Executes(w, tx) /\ UNCHANGED <<final, pool>>
      BY <1>7, <2>1 DEF PayLockDirectly, TxOK
    <2> QED BY <1>1, <2>2, ExecutesFacts
  <1>8. ASSUME NextBlock PROVE IInv' /\ ClosersPart
    <2>1. /\ UNCHANGED <<settleTimeout, htlcSettlePeriod, info, locks, wallet, final, pool>>
          /\ block' = block + 1
      BY <1>8 DEF NextBlock, Contract!NextBlock, Contract!config, Contract!token
    <2>2. ChainOK' /\ ClosingOK'
      BY <2>1, SameChannel DEF IInv, ChainOK
    <2>3. ~PaidOut
      BY <2>1 DEF PaidOut, IInv, ChainOK
    <2> QED BY <1>1, <2>1, <2>2, <2>3 DEF ClosersPart
  <1> QED BY <1>2, <1>3, <1>4, <1>5, <1>6, <1>7, <1>8 DEF Next

-----------------------------------------------------------------------------
(* The theorem.                                                            *)

\* A partner that closes with its newest trade (channel_force_close) gets what
\* that trade, or a newer one, gives it: updateTransaction never finds a trade
\* that convicts it, however late, repeated or lost anything is.  Nobody unlocks
\* a lock on the chain meanwhile, which is paid from the same tokens.
THEOREM CloserKeeps ==
    ASSUME NoLockBefore
    PROVE  Spec /\ []NoneWithdraws => HonestCloserKeeps
  <1>1. IInv /\ [Next]_vars => IInv'
    <2>1. CASE Next
      BY <2>1, NextFacts
    <2>2. ASSUME IInv, UNCHANGED vars PROVE IInv'
      <3>1. UNCHANGED <<contract, final, pool>>
        BY <2>2 DEF vars, system
      <3> QED BY <2>2, <3>1, QuietFacts DEF IInv, FinalOK, TxOK
    <2> QED BY <2>1, <2>2
  <1>2. IInv /\ NoneWithdraws /\ [Next]_vars =>
          [PaidOut /\ info[Ch].closingNonce >= Latest(info[Ch].closer) =>
             Gets(info[Ch].closer) >= Share(info[Ch].closingNonce, info[Ch].closer)]_vars
    <2> SUFFICES ASSUME IInv, NoneWithdraws, Next
                 PROVE  PaidOut /\ info[Ch].closingNonce >= Latest(info[Ch].closer) =>
                          Gets(info[Ch].closer) >= Share(info[Ch].closingNonce, info[Ch].closer)
      OBVIOUS
    <2> QED BY NextFacts DEF ClosersPart
  <1> QED BY <1>1, <1>2, InitInv, PTL DEF Spec, HonestCloserKeeps
=============================================================================
