------------------------- MODULE RsmcChannelProofs -------------------------
(* Proofs about RsmcChannel, for any deposits, amounts, bound on the nonces   *)
(* and environments: whatever is paid at once, lost, reordered or not sent,  *)
(* and whoever dies; then what two wallets agree on when their users wait for *)
(* a payment to end, no message overtakes another and no wallet dies.        *)
EXTENDS RsmcChannel, WellFoundedInduction, TLAPS

-----------------------------------------------------------------------------
(* The inductive invariant: the balances of every book, row, pending row and  *)
(* message add up to what was deposited, and no message is about nonce 1,     *)
(* whose founding trade stays confirmed.                                     *)

CBal == {b \in Balances : b[Founder] + b[Partner] = Total}

CTrade ==
    [role : {"FOUNDER", "PARTNER"}, bal : CBal, commitment : SUBSET Commitment,
     peer_commitment : SUBSET Commitment, state : {"init", "confirming", "confirmed"}]

PaidNonces == 2 .. MaxNonce

Tables == {ts \in [Nonces -> CTrade \cup {NoTrade}] : IsConfirmed(ts[1])}

CMessage ==
    [role : {-1, 0, 1}, nonce : PaidNonces, nego : SUBSET PaidNonces, payment : Payments,
     bal : CBal, sig : SUBSET Commitment, resign : SUBSET ResignBody]

PendingRow == [nonce : PaidNonces, trade : CTrade]

IInv ==
    /\ trades \in [Wallets -> Tables]
    /\ balance \in [Wallets -> CBal]
    /\ pending \in [Wallets -> SUBSET PendingRow]
    /\ net \in [Wallets -> Seq(CMessage)]
    /\ env \in Environments
    /\ faults \in 0 .. env.maxFaults

-----------------------------------------------------------------------------
(* Lemmas about the queries on a table.                                    *)

LEMMA Constants ==
    /\ MaxNonce \in Nat /\ 1 \in Nonces /\ PaidNonces \subseteq Nonces /\ 1 \notin PaidNonces
    /\ \A n \in Nonces : n # 1 => n \in PaidNonces
    /\ Deposit \in CBal /\ Total \in Nat
    /\ Founder \in Wallets /\ Partner \in Wallets /\ Founder # Partner
    /\ \A w \in Wallets : Other(w) \in Wallets /\ Other(w) # w
  BY RsmcAssumption DEF Nonces, PaidNonces, CBal, Balances, Total, Wallets, Other

\* A set of nonces that is not empty has a greatest one, the one at the
\* smallest distance from MaxNonce, and Max finds it.
LEMMA MaxOK ==
    ASSUME NEW S \in SUBSET Nonces, S # {}
    PROVE  Max(S) \in S /\ \A n \in S : n <= Max(S)
  <1> DEFINE D == {MaxNonce - n : n \in S}
  <1>1. MaxNonce \in Nat /\ S \subseteq 1 .. MaxNonce
    BY RsmcAssumption DEF Nonces
  <1>2. D \subseteq Nat /\ D # {}
    <2>1. \A n \in S : MaxNonce - n \in Nat
      BY <1>1
    <2> QED BY <2>1
  <1>3. PICK d \in D : \A e \in D : d <= e
    <2> HIDE DEF D
    <2> DEFINE R == OpToRel(<, Nat)
    <2>1. PICK d \in D : \A e \in D : ~ (<<e, d>> \in R)
      BY <1>2, WFMin, NatLessThanWellFounded, Zenon
    <2>2. \A x, y \in Nat : x < y => <<x, y>> \in R
      BY DEF OpToRel
    <2> HIDE DEF R
    <2>3. \A e \in D : ~ (e < d)
      BY <1>2, <2>1, <2>2
    <2> QED BY <1>2, <2>3
  <1>4. PICK n \in S : d = MaxNonce - n
    BY <1>3
  <1>5. ASSUME NEW m \in S PROVE n >= m
    <2>1. d <= MaxNonce - m
      BY <1>3
    <2> QED BY <1>1, <1>4, <2>1
  <1>6. Max(S) \in S /\ \A m \in S : Max(S) >= m
    BY <1>5 DEF Max
  <1> QED BY <1>1, <1>6

LEMMA NoTradeFacts ==
    /\ \A t \in CTrade : t # NoTrade
    /\ ~ IsConfirmed(NoTrade) /\ NoTrade.state = "none"
  <1>1. ASSUME NEW t \in CTrade PROVE t # NoTrade
    <2>1. t.state # "none" /\ NoTrade.state = "none"
      BY DEF CTrade, NoTrade
    <2> QED BY <2>1
  <1> QED BY <1>1 DEF NoTrade, IsConfirmed

\* The latest trades there are.
LEMMA LatestFacts ==
    ASSUME NEW ts \in Tables
    PROVE  /\ \A n \in Nonces : ts[n] \in CTrade \/ ts[n] = NoTrade
           /\ ts[1] \in CTrade
           /\ LatestNonce(ts) \in Nonces
           /\ LatestValid(ts) \in Nonces /\ ts[LatestValid(ts)] \in CTrade
           /\ ts[LatestValid(ts)].state \in {"confirming", "confirmed"}
  <1>1. ts \in [Nonces -> CTrade \cup {NoTrade}] /\ IsConfirmed(ts[1]) /\ 1 \in Nonces
    BY Constants DEF Tables
  <1>2. ts[1] \in CTrade
    BY <1>1, NoTradeFacts
  <1>3. PICK S : S = Recorded(ts)
    OBVIOUS
  <1>4. S \in SUBSET Nonces /\ 1 \in S
    BY <1>1, <1>2, <1>3, NoTradeFacts DEF Recorded
  <1>5. LatestNonce(ts) \in Nonces
    BY <1>3, <1>4, MaxOK DEF LatestNonce
  <1>6. PICK V : V = {n \in Nonces : IsConfirmed(ts[n]) \/ ts[n].state = "confirming"}
    OBVIOUS
  <1>7. V \in SUBSET Nonces /\ 1 \in V
    BY <1>1, <1>6
  <1>8. LatestValid(ts) \in V
    BY <1>6, <1>7, MaxOK DEF LatestValid
  <1>9. LatestValid(ts) \in Nonces /\ ts[LatestValid(ts)].state \in {"confirming", "confirmed"}
    BY <1>6, <1>8 DEF IsConfirmed
  <1>10. ts[LatestValid(ts)] \in CTrade
    BY <1>1, <1>9, NoTradeFacts
  <1> QED BY <1>1, <1>2, <1>5, <1>9, <1>10

\* Writing a row leaves a table, also the founding trade if it stays confirmed.
LEMMA RowOK ==
    ASSUME NEW ts \in Tables, NEW n \in Nonces, NEW t \in CTrade \cup {NoTrade},
           n # 1 \/ IsConfirmed(t)
    PROVE  [ts EXCEPT ![n] = t] \in Tables
  BY Constants DEF Tables

-----------------------------------------------------------------------------
(* Lemmas about the payments.                                              *)

LEMMA AfterPaymentFacts ==
    ASSUME NEW b \in CBal, NEW payer \in Wallets, NEW p \in Nat
    PROVE  LET after == AfterPayment(b, payer, p) IN
           /\ after[payer] = b[payer] - p /\ after[Other(payer)] = b[Other(payer)] + p
           /\ (\A v \in Wallets : after[v] >= 0) \/ CanPay(b, payer, p) => after \in CBal
  <1>1. b \in [Wallets -> Nat] /\ b[Founder] + b[Partner] = Total
    BY DEF CBal, Balances
  <1>2. PICK after : after = AfterPayment(b, payer, p)
    OBVIOUS
  <1>3. /\ after \in [Wallets -> Int] /\ after[payer] = b[payer] - p
        /\ after[Other(payer)] = b[Other(payer)] + p
    BY <1>1, <1>2, Constants DEF AfterPayment
  <1>4. (payer = Founder /\ Other(payer) = Partner) \/ (payer = Partner /\ Other(payer) = Founder)
    BY DEF Wallets, Other
  <1>5. after[Founder] + after[Partner] = Total
    BY <1>1, <1>3, <1>4, Constants
  <1>6. (\A v \in Wallets : after[v] >= 0) \/ CanPay(b, payer, p) => \A v \in Wallets : after[v] >= 0
    BY <1>1, <1>3, <1>4, Constants DEF CanPay, Wallets
  <1>7. (\A v \in Wallets : after[v] >= 0) => after \in [Wallets -> Nat]
    BY <1>3
  <1>8. (\A v \in Wallets : after[v] >= 0) \/ CanPay(b, payer, p) => after \in CBal
    BY <1>5, <1>6, <1>7 DEF CBal, Balances
  <1> QED BY <1>2, <1>3, <1>8

LEMMA PaidOK ==
    ASSUME NEW b \in CBal, NEW payer \in Wallets, NEW p \in Payments
    PROVE  Paid(b, payer, p) \in CBal
  BY AfterPaymentFacts, RsmcAssumption DEF Paid

LEMMA UnsignedOK ==
    ASSUME NEW role \in {"FOUNDER", "PARTNER"}, NEW bal \in CBal
    PROVE  UnsignedTrade(role, bal) \in CTrade
  BY DEF UnsignedTrade, CTrade

LEMMA TheOK == \A S : S # {} => The(S) \in S
  BY DEF The

LEMMA CBalFacts == CBal \subseteq Balances
  BY DEF CBal

-----------------------------------------------------------------------------
(* Lemmas about resigning.                                                 *)

LEMMA PayerIsWallet ==
    ASSUME NEW w \in Wallets, NEW t
    PROVE  PayerOf(w, t) \in Wallets
  BY Constants DEF PayerOf

LEMMA SettleHeldOK ==
    ASSUME NEW ts \in Tables
    PROVE  SettleHeld(ts) \in Tables
  <1>1. PICK n \in Nonces : n = LatestValid(ts)
    BY LatestFacts
  <1>2. PICK o \in CTrade : o = ts[n]
    BY <1>1, LatestFacts
  <1>3. PICK s \in {"init", "confirming", "confirmed"} : s = "confirmed"
    OBVIOUS
  <1>4. PICK t : t = [o EXCEPT !.state = s]
    OBVIOUS
  <1>5. t \in CTrade /\ IsConfirmed(t)
    BY <1>3, <1>4 DEF CTrade, IsConfirmed
  <1>6. [ts EXCEPT ![n] = t] \in Tables
    BY <1>5, RowOK
  <1>7. [ts EXCEPT ![n].state = "confirmed"] = [ts EXCEPT ![n] = t]
    BY <1>2, <1>3, <1>4
  <1> QED BY <1>1, <1>6, <1>7 DEF SettleHeld

LEMMA ResignRequestOK ==
    ASSUME NEW ts \in Tables
    PROVE  ResignRequest(ts) \in SUBSET ResignBody
  <1>1. PICK n \in Nonces : n = LatestValid(ts)
    BY LatestFacts
  <1>2. ts[n].commitment \in SUBSET Commitment
    BY <1>1, LatestFacts DEF CTrade
  <1>3. [nonce |-> n, sig |-> ts[n].commitment] \in ResignBody
    BY <1>2 DEF ResignBody
  <1> QED BY <1>1, <1>3 DEF ResignRequest

\* What a resign body that is accepted writes.
LEMMA ResignedOK ==
    ASSUME NEW w \in Wallets, NEW ts \in Tables, NEW b \in CBal, NEW r \in ResignBody,
           ResignAccepted(w, ts, r)
    PROVE  /\ Resigned(w, ts, r) \in Tables /\ ResignedBalance(ts, b, r) \in CBal
           /\ \A n \in Nonces : ts[n] # NoTrade => Resigned(w, ts, r)[n] # NoTrade
  <1>1. PICK n \in Nonces : n = r.nonce
    BY DEF ResignBody
  <1>2. PICK t \in CTrade : t = ts[n]
    BY <1>1, LatestFacts DEF ResignAccepted
  <1>3. PICK own : own = {[payer |-> PayerOf(w, t), bal |-> t.bal]}
    OBVIOUS
  <1>4. own \in SUBSET Commitment /\ t.bal \in CBal /\ t.commitment \in SUBSET Commitment
    <2>1. t.bal \in CBal /\ t.commitment \in SUBSET Commitment
      BY DEF CTrade
    <2> QED BY <1>3, <2>1, PayerIsWallet, CBalFacts DEF Commitment
  <1>5. PICK c \in SUBSET Commitment : c = IF t.commitment = {} THEN own ELSE t.commitment
    BY <1>4
  <1>6. PICK s \in {"init", "confirming", "confirmed"} : s = "confirmed"
    OBVIOUS
  <1>7. PICK p \in SUBSET Commitment : p = r.sig
    BY DEF ResignBody
  <1>8. PICK u : u = [t EXCEPT !.commitment = c, !.peer_commitment = p, !.state = s]
    OBVIOUS
  <1>9. u \in CTrade /\ IsConfirmed(u)
    BY <1>6, <1>8 DEF CTrade, IsConfirmed
  <1>10. Resigned(w, ts, r) = IF IsConfirmed(t) THEN ts ELSE [ts EXCEPT ![n] = u]
    BY <1>1, <1>2, <1>3, <1>5, <1>6, <1>7, <1>8 DEF Resigned
  <1>11. [ts EXCEPT ![n] = u] \in Tables
    BY <1>9, RowOK
  <1>12. \A k \in Nonces : ts[k] # NoTrade => [ts EXCEPT ![n] = u][k] # NoTrade
    BY <1>9, NoTradeFacts DEF Tables
  <1>13. ResignedBalance(ts, b, r) \in CBal
    BY <1>1, <1>2, <1>4 DEF ResignedBalance
  <1> QED BY <1>10, <1>11, <1>12, <1>13

\* The tables of a wallet after a resign body, and its answer to it.
LEMMA ResignOK ==
    ASSUME NEW w \in Wallets, NEW ts \in Tables, NEW b \in CBal, NEW resign \in SUBSET ResignBody,
           \A r \in resign : ResignAccepted(w, ts, r)
    PROVE  LET after == TradesAfter(w, ts, resign) IN
           /\ after \in Tables /\ BalanceAfter(ts, b, resign) \in CBal
           /\ \A r \in resign : after[r.nonce] \in CTrade
           /\ AckAfter(after, resign) \in SUBSET ResignBody
  <1>1. PICK after : after = TradesAfter(w, ts, resign)
    OBVIOUS
  <1>2. /\ after \in Tables /\ BalanceAfter(ts, b, resign) \in CBal
        /\ \A n \in Nonces : ts[n] # NoTrade => after[n] # NoTrade
    <2>1. CASE resign = {}
      BY <1>1, <2>1 DEF TradesAfter, BalanceAfter
    <2>2. CASE resign # {}
      <3>1. PICK r \in resign : r = The(resign)
        BY <2>2, TheOK
      <3>2. r \in ResignBody /\ ResignAccepted(w, ts, r)
        OBVIOUS
      <3>3. after = Resigned(w, ts, r) /\ BalanceAfter(ts, b, resign) = ResignedBalance(ts, b, r)
        BY <1>1, <2>2, <3>1 DEF TradesAfter, BalanceAfter
      <3> QED BY <3>2, <3>3, ResignedOK
    <2> QED BY <2>1, <2>2
  <1>3. ASSUME NEW r \in resign PROVE after[r.nonce] \in CTrade /\ r.nonce \in Nonces
    <2>1. r.nonce \in Nonces /\ ts[r.nonce] # NoTrade
      BY DEF ResignBody, ResignAccepted
    <2> QED BY <1>2, <2>1, LatestFacts
  <1>4. ASSUME NEW r \in resign PROVE ResignAck(after, r) \in SUBSET ResignBody
    <2>1. after[r.nonce].commitment \in SUBSET Commitment /\ r.nonce \in Nonces
      BY <1>3 DEF CTrade
    <2>2. [nonce |-> r.nonce, sig |-> after[r.nonce].commitment] \in ResignBody
      BY <2>1 DEF ResignBody
    <2> QED BY <2>2 DEF ResignAck
  <1>5. AckAfter(after, resign) \in SUBSET ResignBody
    <2>1. CASE resign = {}
      BY <2>1 DEF AckAfter
    <2>2. CASE resign # {}
      <3>1. PICK r \in resign : r = The(resign)
        BY <2>2, TheOK
      <3> QED BY <1>4, <2>2, <3>1 DEF AckAfter
    <2> QED BY <2>1, <2>2
  <1> QED BY <1>1, <1>2, <1>3, <1>5

\* us is ts with t as row n.
Rewrites(us, ts, n, t) == us[n] = t /\ \A k \in Nonces : k # n => us[k] = ts[k]

\* Confirming and signing rewrite the row of a trade there is.
LEMMA ConfirmRow ==
    ASSUME NEW ts \in Tables, NEW n \in Nonces, NEW sig \in SUBSET Commitment, ts[n] # NoTrade
    PROVE  /\ Confirm(ts, n, sig) \in Tables
           /\ \E t \in CTrade : /\ t.role = ts[n].role /\ t.bal = ts[n].bal
                                /\ t.commitment = ts[n].commitment
                                /\ t.peer_commitment = sig /\ t.state = "confirmed"
                                /\ Rewrites(Confirm(ts, n, sig), ts, n, t)
  <1>1. PICK o \in CTrade : o = ts[n]
    BY LatestFacts
  <1>2. PICK s \in {"init", "confirming", "confirmed"} : s = "confirmed"
    OBVIOUS
  <1>3. PICK u : u = [o EXCEPT !.peer_commitment = sig]
    OBVIOUS
  <1>4. PICK t : t = [u EXCEPT !.state = s]
    OBVIOUS
  <1>5. /\ t \in CTrade /\ t.role = o.role /\ t.bal = o.bal /\ t.commitment = o.commitment
        /\ t.peer_commitment = sig /\ t.state = "confirmed"
    BY <1>2, <1>3, <1>4 DEF CTrade
  <1>6. PICK once : once = [ts EXCEPT ![n] = u]
    OBVIOUS
  <1>7. DOMAIN ts = Nonces
    BY DEF Tables
  <1>8. [ts EXCEPT ![n].peer_commitment = sig] = once
    BY <1>1, <1>3, <1>6
  <1>9. once[n] = u
    BY <1>6, <1>7
  <1>10. [once EXCEPT ![n].state = s] = [once EXCEPT ![n] = t]
    BY <1>4, <1>9
  <1>11. [once EXCEPT ![n] = t] = [ts EXCEPT ![n] = t]
    BY <1>6, <1>7
  <1>12. Confirm(ts, n, sig) = [[ts EXCEPT ![n].peer_commitment = sig] EXCEPT ![n].state = s]
    BY <1>2 DEF Confirm
  <1>13. PICK row : row = [ts EXCEPT ![n] = t]
    OBVIOUS
  <1>14. Confirm(ts, n, sig) = row
    BY <1>8, <1>10, <1>11, <1>12, <1>13
  <1>15. row \in Tables
    BY <1>5, <1>13, RowOK DEF IsConfirmed
  <1>16. Rewrites(row, ts, n, t)
    BY <1>7, <1>13 DEF Rewrites
  <1> QED BY <1>1, <1>5, <1>14, <1>15, <1>16

LEMMA ConfirmOK ==
    ASSUME NEW ts \in Tables, NEW n \in Nonces, NEW sig \in SUBSET Commitment
    PROVE  Confirm(ts, n, sig) \in Tables
  <1>1. CASE ts[n] = NoTrade
    BY <1>1 DEF Confirm
  <1>2. CASE ts[n] # NoTrade
    BY <1>2, ConfirmRow
  <1> QED BY <1>1, <1>2

LEMMA SignStateRow ==
    ASSUME NEW ts \in Tables, NEW n \in PaidNonces, NEW bal \in CBal, NEW sig \in SUBSET Commitment,
           ts[n] # NoTrade
    PROVE  /\ SignState(ts, n, bal, sig) \in Tables
           /\ \E t \in CTrade : /\ t.role = ts[n].role /\ t.bal = bal /\ t.commitment = sig
                                /\ t.peer_commitment = ts[n].peer_commitment
                                /\ t.state = "confirming"
                                /\ Rewrites(SignState(ts, n, bal, sig), ts, n, t)
  <1>1. n \in Nonces /\ DOMAIN ts = Nonces
    BY Constants DEF Tables
  <1>2. PICK o \in CTrade : o = ts[n]
    BY <1>1, LatestFacts
  <1>3. PICK s \in {"init", "confirming", "confirmed"} : s = "confirming"
    OBVIOUS
  <1>4. PICK u : u = [o EXCEPT !.bal = bal]
    OBVIOUS
  <1>5. PICK v : v = [u EXCEPT !.commitment = sig]
    OBVIOUS
  <1>6. PICK t : t = [v EXCEPT !.state = s]
    OBVIOUS
  <1>7. /\ t \in CTrade /\ t.role = o.role /\ t.bal = bal /\ t.commitment = sig
        /\ t.peer_commitment = o.peer_commitment /\ t.state = "confirming"
    BY <1>3, <1>4, <1>5, <1>6 DEF CTrade
  <1>8. PICK once : once = [ts EXCEPT ![n] = u]
    OBVIOUS
  <1>9. PICK twice : twice = [ts EXCEPT ![n] = v]
    OBVIOUS
  <1>10. PICK row : row = [ts EXCEPT ![n] = t]
    OBVIOUS
  <1>11. [ts EXCEPT ![n].bal = bal] = once /\ once[n] = u /\ twice[n] = v
    BY <1>1, <1>2, <1>4, <1>8, <1>9
  <1>12. [once EXCEPT ![n].commitment = sig] = twice
    <2>1. [once EXCEPT ![n].commitment = sig] = [once EXCEPT ![n] = v]
      BY <1>5, <1>11
    <2>2. [once EXCEPT ![n] = v] = twice
      BY <1>1, <1>8, <1>9
    <2> QED BY <2>1, <2>2
  <1>13. [twice EXCEPT ![n].state = s] = row
    <2>1. [twice EXCEPT ![n].state = s] = [twice EXCEPT ![n] = t]
      BY <1>6, <1>11
    <2>2. [twice EXCEPT ![n] = t] = row
      BY <1>1, <1>9, <1>10
    <2> QED BY <2>1, <2>2
  <1>14. SignState(ts, n, bal, sig) = [[[ts EXCEPT ![n].bal = bal] EXCEPT ![n].commitment = sig]
                                            EXCEPT ![n].state = s]
    BY <1>3 DEF SignState
  <1>15. SignState(ts, n, bal, sig) = row
    BY <1>11, <1>12, <1>13, <1>14
  <1>16. row \in Tables
    BY <1>1, <1>7, <1>10, Constants, RowOK
  <1>17. Rewrites(row, ts, n, t)
    BY <1>1, <1>10 DEF Rewrites
  <1> QED BY <1>2, <1>7, <1>15, <1>16, <1>17

LEMMA SignStateOK ==
    ASSUME NEW ts \in Tables, NEW n \in PaidNonces, NEW bal \in CBal, NEW sig \in SUBSET Commitment
    PROVE  SignState(ts, n, bal, sig) \in Tables
  <1>1. CASE ts[n] = NoTrade
    BY <1>1 DEF SignState
  <1>2. CASE ts[n] # NoTrade
    BY <1>2, SignStateRow
  <1> QED BY <1>1, <1>2

\* A payment under another nonce has a row there, and none of a later nonce.
LEMMA RenegotiatedOK ==
    ASSUME NEW ts \in Tables, NEW own \in PaidNonces, NEW nonce \in PaidNonces, NEW bal \in CBal
    PROVE  Renegotiated(ts, own, nonce, bal) \in Tables
  <1>1. CASE nonce = own
    BY <1>1 DEF Renegotiated
  <1>2. CASE nonce # own
    <2>1. PICK fresh \in CTrade : fresh = UnsignedTrade("FOUNDER", bal)
      BY UnsignedOK
    <2>2. PICK once : once = [ts EXCEPT ![nonce] = fresh]
      OBVIOUS
    <2>3. once \in Tables
      BY <2>2, Constants, RowOK
    <2>4. PICK old \in CTrade \cup {NoTrade} : old = IF nonce < own THEN NoTrade ELSE ts[own]
      BY Constants, LatestFacts
    <2>5. PICK twice : twice = [once EXCEPT ![own] = old]
      OBVIOUS
    <2>6. twice \in Tables
      BY <2>3, <2>4, <2>5, Constants, RowOK
    <2>7. nonce \in Nonces /\ own \in Nonces /\ DOMAIN ts = Nonces
      BY Constants DEF Tables
    <2>8. [ts EXCEPT ![nonce] = fresh, ![own] = IF nonce < own THEN NoTrade ELSE @] = twice
      BY <1>2, <2>2, <2>4, <2>5, <2>7
    <2> QED BY <1>2, <2>1, <2>6, <2>8 DEF Renegotiated
  <1> QED BY <1>1, <1>2

-----------------------------------------------------------------------------
(* Lemmas about the parts of the steps.                                    *)

\* What a handler writes.
LEMMA WriteOK ==
    ASSUME IInv, NEW w \in Wallets, NEW ts \in Tables, NEW b \in CBal, Write(w, ts, b)
    PROVE  trades' \in [Wallets -> Tables] /\ balance' \in [Wallets -> CBal]
  BY DEF IInv, Write

LEMMA FaultOK ==
    ASSUME IInv, NEW happens \in BOOLEAN, Fault(happens), env' = env
    PROVE  env' \in Environments /\ faults' \in 0 .. env'.maxFaults
  <1>1. env.maxFaults \in Nat /\ faults \in 0 .. env.maxFaults /\ env \in Environments
    BY RsmcAssumption DEF IInv, Environment
  <1>2. CASE happens
    BY <1>1, <1>2 DEF Fault
  <1>3. CASE ~happens
    BY <1>1, <1>3 DEF Fault
  <1> QED BY <1>2, <1>3

LEMMA RemoveOK ==
    ASSUME NEW S, NEW s \in Seq(S), NEW i \in DOMAIN s
    PROVE  RemoveAt(s, i) \in Seq(S)
  <1>1. i \in 1 .. Len(s) /\ Len(s) \in Nat
    OBVIOUS
  <1>2. SubSeq(s, 1, i - 1) \in Seq(S) /\ SubSeq(s, i + 1, Len(s)) \in Seq(S)
    BY <1>1
  <1> QED BY <1>2 DEF RemoveAt

\* What every handler does to the message lists and the consoles.
LEMMA AnswerOK ==
    ASSUME IInv, NEW w \in Wallets, NEW i \in DOMAIN net[w], NEW how,
           NEW answers \in Seq(CMessage), Answer(w, i, how, answers), env' = env
    PROVE  /\ net' \in [Wallets -> Seq(CMessage)] /\ pending' \in [Wallets -> SUBSET PendingRow]
           /\ env' \in Environments /\ faults' \in 0 .. env'.maxFaults
  <1>1. net \in [Wallets -> Seq(CMessage)] /\ pending \in [Wallets -> SUBSET PendingRow]
    BY DEF IInv
  <1>2. PICK rest \in Seq(CMessage) : rest = RemoveAt(net[w], i)
    BY <1>1, RemoveOK
  <1>3. PICK sent \in Seq(CMessage) : sent = IF how = "unsent" THEN <<>> ELSE answers
    <2>1. CASE how = "unsent"
      <3>1. <<>> \in Seq(CMessage)
        OBVIOUS
      <3> QED BY <2>1, <3>1
    <2>2. CASE how # "unsent"
      BY <2>2
    <2> QED BY <2>1, <2>2
  <1>4. PICK v \in Wallets : v = Other(w)
    BY Constants
  <1>5. w # v /\ \A x \in Wallets : x = w \/ x = v
    BY <1>4, Constants DEF Wallets
  <1>6. net' \in [Wallets -> Seq(CMessage)]
    <2>1. net' = [net EXCEPT ![w] = rest, ![v] = @ \o sent]
      BY <1>2, <1>3, <1>4 DEF Answer
    <2>2. net' = [x \in Wallets |-> IF x = w THEN rest ELSE net[v] \o sent]
      BY <1>1, <1>5, <2>1
    <2>3. net[v] \o sent \in Seq(CMessage)
      BY <1>1
    <2> QED BY <2>2, <2>3
  <1>7. pending' \in [Wallets -> SUBSET PendingRow]
    BY <1>1 DEF Answer
  <1>8. PICK happens \in BOOLEAN : happens = (i # 1 \/ how # "sent")
    OBVIOUS
  <1>9. Fault(happens)
    BY <1>8 DEF Answer
  <1> QED BY <1>6, <1>7, <1>8, <1>9, FaultOK

LEMMA HandlerOK ==
    ASSUME IInv, NEW w \in Wallets, NEW i \in DOMAIN net[w], NEW how,
           NEW answers \in Seq(CMessage), NEW ts \in Tables, NEW b \in CBal,
           Answer(w, i, how, answers), Write(w, ts, b), env' = env
    PROVE  IInv'
  <1>1. trades' \in [Wallets -> Tables] /\ balance' \in [Wallets -> CBal]
    BY WriteOK
  <1>2. /\ net' \in [Wallets -> Seq(CMessage)] /\ pending' \in [Wallets -> SUBSET PendingRow]
        /\ env' \in Environments /\ faults' \in 0 .. env'.maxFaults
    BY AnswerOK
  <1> QED BY <1>1, <1>2 DEF IInv

\* Answers of no message and of one.
LEMMA AnswersOK ==
    /\ <<>> \in Seq(CMessage) /\ Len(<<>>) <= 1
    /\ \A m \in CMessage : <<m>> \in Seq(CMessage) /\ Len(<<m>>) <= 1
  OBVIOUS

\* The message a handler takes, and the tables of the wallet that takes it.
LEMMA Taken ==
    ASSUME IInv, NEW w \in Wallets, NEW i \in DOMAIN net[w]
    PROVE  /\ net[w][i] \in CMessage
           /\ net[w][i].role \in {-1, 0, 1} /\ net[w][i].nonce \in PaidNonces
           /\ net[w][i].nego \in SUBSET PaidNonces /\ net[w][i].payment \in Payments
           /\ net[w][i].bal \in CBal /\ net[w][i].sig \in SUBSET Commitment
           /\ net[w][i].resign \in SUBSET ResignBody
           /\ trades[w] \in Tables /\ balance[w] \in CBal
           /\ Payments \subseteq Nat
           /\ env \in Environment /\ env.lastNonce \in 1 .. MaxNonce
           /\ env.payments \in SUBSET Payments
  <1>1. net[w] \in Seq(CMessage)
    BY DEF IInv
  <1>2. net[w][i] \in CMessage
    BY <1>1
  <1>3. trades[w] \in Tables /\ balance[w] \in CBal
    BY DEF IInv
  <1>4. env \in Environment /\ Payments \subseteq Nat
    BY RsmcAssumption DEF IInv
  <1> QED BY <1>2, <1>3, <1>4 DEF CMessage, Environment

\* The commitment of a payer to balances.
LEMMA SignedOK ==
    ASSUME NEW payer \in Wallets, NEW bal \in CBal
    PROVE  {[payer |-> payer, bal |-> bal]} \in SUBSET Commitment
  BY CBalFacts DEF Commitment

-----------------------------------------------------------------------------
(* The steps.                                                              *)

LEMMA PayOK ==
    ASSUME IInv, NEW w \in Wallets, NEW p \in env.payments, NEW how, Pay(w, p, how), env' = env
    PROVE  IInv'
  <1>1. /\ trades \in [Wallets -> Tables] /\ balance \in [Wallets -> CBal]
        /\ pending \in [Wallets -> SUBSET PendingRow] /\ net \in [Wallets -> Seq(CMessage)]
        /\ env \in Environment
    BY RsmcAssumption DEF IInv
  <1>2. env.lastNonce \in 1 .. MaxNonce /\ p \in Payments /\ p \in Nat /\ Other(w) \in Wallets
    BY <1>1, Constants, RsmcAssumption DEF Environment
  <1>3. PICK ts \in Tables : ts = trades[w]
    BY <1>1
  <1>4. PICK nonce : nonce = LatestNonce(ts) + 1
    OBVIOUS
  <1>5. nonce <= env.lastNonce /\ trades' = [trades EXCEPT ![w] = SettleHeld(ts)]
    BY <1>3, <1>4 DEF Pay
  <1>6. nonce \in PaidNonces
    <2>1. LatestNonce(ts) \in 1 .. MaxNonce
      BY LatestFacts DEF Nonces
    <2> QED BY <1>2, <1>4, <1>5, <2>1, Constants DEF PaidNonces
  <1>7. PICK base : base = IF ts[LatestValid(ts)].state = "confirming"
                          THEN ts[LatestValid(ts)].bal ELSE balance[w]
    OBVIOUS
  <1>8. base \in CBal
    BY <1>1, <1>7, LatestFacts DEF CTrade
  <1>9. CanPay(base, w, p)
    BY <1>3, <1>7 DEF Pay
  <1>10. PICK bal \in CBal : bal = AfterPayment(base, w, p)
    BY <1>2, <1>8, <1>9, AfterPaymentFacts
  <1>11. trades' \in [Wallets -> Tables]
    BY <1>1, <1>5, SettleHeldOK
  <1>12. PICK request \in SUBSET ResignBody : request = ResignRequest(ts)
    BY ResignRequestOK
  <1>13. PICK m : m = [role |-> -1, nonce |-> nonce, nego |-> {}, payment |-> p,
                      bal |-> bal, sig |-> {}, resign |-> request]
    OBVIOUS
  <1>14. m \in CMessage
    BY <1>2, <1>6, <1>13 DEF CMessage
  <1>15. PICK row : row = [nonce |-> nonce, trade |-> UnsignedTrade("FOUNDER", bal)]
    OBVIOUS
  <1>16. row \in PendingRow
    BY <1>6, <1>15, UnsignedOK DEF PendingRow
  <1>17. net' \in [Wallets -> Seq(CMessage)] /\ pending' \in [Wallets -> SUBSET PendingRow]
    <2>1. CASE how = "unsent"
      BY <1>1, <2>1 DEF Pay
    <2>2. CASE how # "unsent"
      <3>1. net' = [net EXCEPT ![Other(w)] = Append(@, m)] /\ pending' = [pending EXCEPT ![w] = {row}]
        BY <1>3, <1>4, <1>7, <1>10, <1>12, <1>13, <1>15, <2>2 DEF Pay
      <3> QED BY <1>1, <1>2, <1>14, <1>16, <3>1
    <2> QED BY <2>1, <2>2
  <1>18. balance' = balance
    BY DEF Pay
  <1>19. PICK happens \in BOOLEAN : happens = (how = "unsent")
    OBVIOUS
  <1>20. Fault(happens)
    BY <1>19 DEF Pay
  <1>21. env' \in Environments /\ faults' \in 0 .. env'.maxFaults
    BY <1>20, FaultOK
  <1> QED BY <1>1, <1>11, <1>17, <1>18, <1>21 DEF IInv

LEMMA RecordPaymentOK ==
    ASSUME IInv, NEW w \in Wallets, RecordPayment(w), env' = env
    PROVE  IInv'
  <1>1. /\ trades \in [Wallets -> Tables] /\ pending \in [Wallets -> SUBSET PendingRow]
    BY DEF IInv
  <1>2. PICK r \in pending[w] :
           /\ trades' = [trades EXCEPT ![w][r.nonce] = IF @ = NoTrade THEN r.trade ELSE @]
           /\ pending' = [pending EXCEPT ![w] = {}]
           /\ UNCHANGED <<balance, net, faults>>
    BY DEF RecordPayment
  <1>3. PICK n \in PaidNonces : n = r.nonce
    BY <1>1, <1>2 DEF PendingRow
  <1>4. PICK ts \in Tables : ts = trades[w]
    BY <1>1
  <1>5. PICK t \in CTrade \cup {NoTrade} : t = IF ts[n] = NoTrade THEN r.trade ELSE ts[n]
    <2>1. r.trade \in CTrade
      BY <1>1, <1>2 DEF PendingRow
    <2>2. ts[n] \in CTrade \cup {NoTrade}
      BY Constants, LatestFacts
    <2> QED BY <2>1, <2>2
  <1>6. PICK row : row = [ts EXCEPT ![n] = t]
    OBVIOUS
  <1>7. row \in Tables
    BY <1>5, <1>6, Constants, RowOK
  <1>8. trades' = [trades EXCEPT ![w] = row]
    BY <1>2, <1>3, <1>4, <1>5, <1>6
  <1>9. trades' \in [Wallets -> Tables] /\ pending' \in [Wallets -> SUBSET PendingRow]
    BY <1>1, <1>2, <1>7, <1>8
  <1> QED BY <1>2, <1>9 DEF IInv

LEMMA LoseOK ==
    ASSUME IInv, NEW w \in Wallets, NEW i \in DOMAIN net[w], Lose(w, i), env' = env
    PROVE  IInv'
  <1>1. net \in [Wallets -> Seq(CMessage)]
    BY DEF IInv
  <1>2. PICK rest \in Seq(CMessage) : rest = RemoveAt(net[w], i)
    BY <1>1, RemoveOK
  <1>3. net' \in [Wallets -> Seq(CMessage)]
    BY <1>1, <1>2 DEF Lose
  <1>4. env' \in Environments /\ faults' \in 0 .. env'.maxFaults
    BY FaultOK DEF Lose
  <1> QED BY <1>3, <1>4 DEF IInv, Lose

LEMMA CrashConsoleOK ==
    ASSUME IInv, NEW w \in Wallets, CrashConsole(w), env' = env
    PROVE  IInv'
  <1>1. pending' \in [Wallets -> SUBSET PendingRow]
    BY DEF IInv, CrashConsole
  <1>2. env' \in Environments /\ faults' \in 0 .. env'.maxFaults
    BY FaultOK DEF CrashConsole
  <1> QED BY <1>1, <1>2 DEF IInv, CrashConsole

LEMMA RefuseResignOK ==
    ASSUME IInv, NEW w \in Wallets, NEW i \in DOMAIN net[w], RefuseResign(w, i), env' = env
    PROVE  IInv'
  <1>1. PICK none \in Seq(CMessage) : none = <<>>
    BY AnswersOK
  <1>2. Answer(w, i, "sent", none)
    BY <1>1 DEF RefuseResign
  <1>3. /\ net' \in [Wallets -> Seq(CMessage)] /\ pending' \in [Wallets -> SUBSET PendingRow]
        /\ env' \in Environments /\ faults' \in 0 .. env'.maxFaults
    BY <1>2, AnswerOK
  <1> QED BY <1>3 DEF IInv, RefuseResign

LEMMA HandleRsmcOK ==
    ASSUME IInv, NEW w \in Wallets, NEW i \in DOMAIN net[w], NEW how,
           HandleRsmc(w, i, how), env' = env
    PROVE  IInv'
  <1>1. PICK m \in CMessage : m = net[w][i]
    BY Taken
  <1>2. /\ m.nonce \in PaidNonces /\ m.payment \in Payments /\ m.bal \in CBal
        /\ m.resign \in SUBSET ResignBody
        /\ env.lastNonce \in 1 .. MaxNonce
    BY <1>1, Taken
  <1>3. PICK ts \in Tables : ts = trades[w]
    BY Taken
  <1>4. \A r \in m.resign : ResignAccepted(w, ts, r)
    BY <1>1, <1>3 DEF HandleRsmc
  <1>5. PICK asks \in BOOLEAN : asks = (m.resign # {})
    OBVIOUS
  <1>6. PICK after \in Tables : after = IF asks THEN TradesAfter(w, ts, m.resign) ELSE SettleHeld(ts)
    <2>1. TradesAfter(w, ts, m.resign) \in Tables
      BY <1>2, <1>4, Constants, ResignOK
    <2> QED BY <2>1, SettleHeldOK
  <1>7. PICK b \in CBal : b = BalanceAfter(ts, balance[w], m.resign)
    BY <1>2, <1>4, ResignOK, Taken
  <1>8. PICK request \in SUBSET ResignBody : request = IF asks THEN {} ELSE ResignRequest(ts)
    BY ResignRequestOK
  <1>9. PICK nonce : nonce = 1 + IF asks THEN The(m.resign).nonce ELSE LatestValid(ts)
    OBVIOUS
  <1>10. nonce <= env.lastNonce
    BY <1>1, <1>3, <1>5, <1>9 DEF HandleRsmc
  <1>11. nonce \in PaidNonces
    <2>1. CASE asks
      <3>1. The(m.resign) \in ResignBody
        BY <1>2, <1>5, <2>1, TheOK
      <3>2. The(m.resign).nonce \in 1 .. MaxNonce
        BY <3>1 DEF ResignBody, Nonces
      <3> QED BY <1>2, <1>9, <1>10, <2>1, <3>2, Constants DEF PaidNonces
    <2>2. CASE ~asks
      <3>1. LatestValid(ts) \in 1 .. MaxNonce
        BY LatestFacts DEF Nonces
      <3> QED BY <1>2, <1>9, <1>10, <2>2, <3>1, Constants DEF PaidNonces
    <2> QED BY <2>1, <2>2
  <1>12. PICK own \in SUBSET Commitment :
            own = IF request = {} THEN {[payer |-> Other(w), bal |-> m.bal]} ELSE {}
    BY <1>2, Constants, SignedOK
  <1>13. PICK state \in {"init", "confirming", "confirmed"} :
            state = IF request = {} THEN "confirming" ELSE "init"
    OBVIOUS
  <1>14. PICK trade : trade = [UnsignedTrade("PARTNER", m.bal) EXCEPT !.commitment = own, !.state = state]
    OBVIOUS
  <1>15. trade \in CTrade
    BY <1>2, <1>14 DEF UnsignedTrade, CTrade
  <1>16. PICK nego \in SUBSET PaidNonces : nego = {nonce} \ {m.nonce}
    BY <1>11
  <1>17. PICK resign \in SUBSET ResignBody : resign = IF asks THEN AckAfter(after, m.resign) ELSE request
    <2>1. CASE asks
      BY <1>2, <1>4, <1>6, <2>1, Constants, ResignOK
    <2>2. CASE ~asks
      BY <2>2
    <2> QED BY <2>1, <2>2
  <1>18. PICK a : a = [role |-> 0, nonce |-> m.nonce, nego |-> nego, payment |-> m.payment,
                       bal |-> m.bal, sig |-> own, resign |-> resign]
    OBVIOUS
  <1>19. a \in CMessage
    BY <1>2, <1>18 DEF CMessage
  <1>20. PICK answers \in Seq(CMessage) : answers = <<a>>
    BY <1>19, AnswersOK
  <1>21. PICK none \in Seq(CMessage) : none = <<>>
    BY AnswersOK
  <1>22. PICK row : row = [after EXCEPT ![nonce] = trade]
    OBVIOUS
  <1>23. row \in Tables
    BY <1>11, <1>15, <1>22, Constants, RowOK
  <1>24. PICK table \in Tables : table = IF how = "sent" THEN row ELSE after
    BY <1>23
  <1>25. \/ Answer(w, i, how, none) /\ Write(w, after, b)
         \/ Answer(w, i, how, answers) /\ Write(w, table, b)
    BY <1>1, <1>3, <1>5, <1>6, <1>7, <1>8, <1>9, <1>12, <1>13, <1>14, <1>16, <1>17, <1>18, <1>20,
       <1>21, <1>22, <1>24 DEF HandleRsmc
  <1> QED BY <1>25, HandlerOK

LEMMA HandleFounderResponseOK ==
    ASSUME IInv, NEW w \in Wallets, NEW i \in DOMAIN net[w], NEW how,
           HandleFounderResponse(w, i, how), env' = env
    PROVE  IInv'
  <1>1. PICK m \in CMessage : m = net[w][i]
    BY Taken
  <1>2. /\ m.nonce \in PaidNonces /\ m.nonce \in Nonces /\ m.payment \in Payments /\ m.bal \in CBal
        /\ m.resign \in SUBSET ResignBody
    BY <1>1, Constants, Taken
  <1>3. PICK ts \in Tables : ts = trades[w]
    BY Taken
  <1>4. \A r \in m.resign : ResignAccepted(w, ts, r)
    BY <1>1, <1>3 DEF HandleFounderResponse
  <1>5. PICK after \in Tables : after = TradesAfter(w, ts, m.resign)
    BY <1>2, <1>4, Constants, ResignOK
  <1>6. PICK b \in CBal : b = BalanceAfter(ts, balance[w], m.resign)
    BY <1>2, <1>4, ResignOK, Taken
  <1>7. PICK sig \in SUBSET Commitment : sig = {[payer |-> Other(w), bal |-> m.bal]}
    BY <1>2, Constants, SignedOK
  <1>8. PICK none \in Seq(CMessage) : none = <<>>
    BY AnswersOK
  <1>9. PICK a : a = [m EXCEPT !.role = 0, !.sig = sig, !.resign = {}]
    OBVIOUS
  <1>10. a \in CMessage
    BY <1>9 DEF CMessage
  <1>11. PICK answers \in Seq(CMessage) : answers = <<a>>
    BY <1>10, AnswersOK
  <1>12. PICK confirmed \in Tables : confirmed = Confirm(after, m.nonce, sig)
    BY <1>2, ConfirmOK
  <1>13. PICK signed \in Tables : signed = SignState(after, m.nonce, m.bal, sig)
    BY <1>2, SignStateOK
  <1>14. PICK paid \in CBal : paid = IF how = "crash" THEN b ELSE Paid(b, Other(w), m.payment)
    BY <1>2, Constants, PaidOK
  <1>15. \/ Answer(w, i, how, none) /\ Write(w, confirmed, paid)
         \/ Answer(w, i, how, answers) /\ Write(w, signed, b)
         \/ Answer(w, i, how, none) /\ Write(w, after, b)
    BY <1>1, <1>3, <1>5, <1>6, <1>7, <1>8, <1>9, <1>11, <1>12, <1>13, <1>14 DEF HandleFounderResponse
  <1> QED BY <1>15, HandlerOK

LEMMA HandlePartnerResponseOK ==
    ASSUME IInv, NEW w \in Wallets, NEW i \in DOMAIN net[w], NEW how,
           HandlePartnerResponse(w, i, how), env' = env
    PROVE  IInv'
  <1>1. PICK m \in CMessage : m = net[w][i]
    BY Taken
  <1>2. /\ m.nonce \in PaidNonces /\ m.nego \in SUBSET PaidNonces /\ m.payment \in Payments
        /\ m.payment \in Nat /\ m.bal \in CBal /\ m.sig \in SUBSET Commitment
        /\ m.resign \in SUBSET ResignBody
    BY <1>1, Taken
  <1>3. PICK ts \in Tables : ts = trades[w]
    BY Taken
  <1>4. \A r \in m.resign : ResignAccepted(w, ts, r)
    BY <1>1, <1>3 DEF HandlePartnerResponse
  <1>5. PICK after \in Tables : /\ after = TradesAfter(w, ts, m.resign)
                                /\ \A r \in m.resign : after[r.nonce] \in CTrade
    BY <1>2, <1>4, Constants, ResignOK
  <1>6. PICK b \in CBal : b = BalanceAfter(ts, balance[w], m.resign)
    BY <1>2, <1>4, ResignOK, Taken
  <1>7. PICK nonce \in PaidNonces : nonce = IF m.nego = {} THEN m.nonce ELSE The(m.nego)
    BY <1>2, TheOK
  <1>8. PICK bases \in SUBSET CBal :
           bases = IF m.sig = {} THEN ResignedBalances(after, m.resign) ELSE {}
    <2>1. \A r \in m.resign : after[r.nonce].bal \in CBal
      BY <1>5 DEF CTrade
    <2> QED BY <2>1 DEF ResignedBalances
  <1>9. PICK none \in Seq(CMessage) : none = <<>>
    BY AnswersOK
  <1>10. CASE (\E x \in bases : ~CanPay(x, w, m.payment)) \/ ~NonceAgrees(after, nonce)
    <2>1. Answer(w, i, how, none) /\ Write(w, after, b)
      BY <1>1, <1>3, <1>5, <1>6, <1>7, <1>8, <1>9, <1>10 DEF HandlePartnerResponse
    <2> QED BY <2>1, HandlerOK
  <1>11. CASE ~ ((\E x \in bases : ~CanPay(x, w, m.payment)) \/ ~NonceAgrees(after, nonce))
    <2>1. PICK bal \in CBal : bal = IF bases = {} THEN m.bal
                                    ELSE AfterPayment(The(bases), w, m.payment)
      <3>1. CASE bases = {}
        BY <1>2, <3>1
      <3>2. CASE bases # {}
        <4>1. PICK x \in bases : x = The(bases)
          BY <3>2, TheOK
        <4>2. x \in CBal /\ CanPay(x, w, m.payment)
          BY <1>11
        <4>3. AfterPayment(x, w, m.payment) \in CBal
          BY <1>2, <4>2, AfterPaymentFacts
        <4> QED BY <3>2, <4>1, <4>3
      <3> QED BY <3>1, <3>2
    <2>2. PICK table \in Tables : table = Renegotiated(after, m.nonce, nonce, bal)
      BY <1>2, RenegotiatedOK
    <2>3. PICK ack \in SUBSET ResignBody : ack = AckAfter(after, m.resign)
      BY <1>2, <1>4, <1>5, Constants, ResignOK
    <2>6. SignPayment(w, i, how, m, nonce, bal, table, b, ack)
      BY <1>1, <1>3, <1>5, <1>6, <1>7, <1>8, <1>11, <2>1, <2>2, <2>3 DEF HandlePartnerResponse
    <2>4. CASE table[nonce] = NoTrade \/ (table[nonce].commitment = {} /\ ~Matches(b, w, m.payment, bal))
      <3>1. Answer(w, i, how, none) /\ Write(w, table, b)
        BY <1>9, <2>4, <2>6 DEF SignPayment
      <3> QED BY <3>1, HandlerOK
    <2>5. CASE ~ (table[nonce] = NoTrade \/ (table[nonce].commitment = {} /\ ~Matches(b, w, m.payment, bal)))
      <3>1. PICK o \in CTrade : o = table[nonce]
        BY <2>5, Constants, LatestFacts
      <3>2. PICK own \in SUBSET Commitment :
               own = IF table[nonce].commitment = {} THEN {[payer |-> w, bal |-> bal]}
                     ELSE table[nonce].commitment
        BY <3>1, SignedOK DEF CTrade
      <3>3. PICK t : t = [o EXCEPT !.commitment = own]
        OBVIOUS
      <3>4. t \in CTrade
        BY <3>3 DEF CTrade
      <3>5. PICK signed : signed = [table EXCEPT ![nonce] = t]
        OBVIOUS
      <3>6. signed \in Tables /\ signed = [table EXCEPT ![nonce].commitment = own]
        <4>1. signed \in Tables
          BY <3>4, <3>5, Constants, RowOK
        <4>2. signed = [table EXCEPT ![nonce].commitment = own]
          BY <3>1, <3>3, <3>5
        <4> QED BY <4>1, <4>2
      <3>8. PICK given \in SUBSET Commitment : given = IF m.sig = {} THEN {} ELSE own
        OBVIOUS
      <3>9. PICK a : a = [role |-> 1, nonce |-> nonce, nego |-> {}, payment |-> m.payment,
                          bal |-> bal, sig |-> given, resign |-> ack]
        OBVIOUS
      <3>10. a \in CMessage
        BY <1>2, <3>9 DEF CMessage
      <3>11. PICK answers \in Seq(CMessage) : answers = <<a>>
        BY <3>10, AnswersOK
      <3>12. PICK confirmed \in Tables : confirmed = Confirm(signed, nonce, m.sig)
        BY <1>2, <3>6, Constants, ConfirmOK
      <3>13. PICK paid \in CBal : paid = IF how = "sent" THEN Paid(b, w, m.payment) ELSE b
        BY <1>2, PaidOK
      <3>14. /\ Answer(w, i, how, answers)
             /\ IF m.sig = {} THEN Write(w, signed, b) ELSE Write(w, confirmed, paid)
        BY <2>5, <2>6, <3>2, <3>6, <3>8, <3>9, <3>11, <3>12, <3>13 DEF SignPayment
      <3>15. Write(w, signed, b) \/ Write(w, confirmed, paid)
        BY <3>14
      <3> QED BY <3>6, <3>14, <3>15, HandlerOK
    <2> QED BY <2>4, <2>5
  <1> QED BY <1>10, <1>11

-----------------------------------------------------------------------------
(* The theorems.                                                           *)

LEMMA InitInv == Init => IInv
  <1> SUFFICES ASSUME Init PROVE IInv
    OBVIOUS
  <1>1. \A w \in Wallets : FoundingTrade(w) \in CTrade /\ IsConfirmed(FoundingTrade(w))
    BY Constants, SignedOK DEF FoundingTrade, CTrade, IsConfirmed
  <1>2. trades \in [Wallets -> Tables]
    <2>1. ASSUME NEW w \in Wallets
          PROVE  [n \in Nonces |-> IF n = 1 THEN FoundingTrade(w) ELSE NoTrade] \in Tables
      BY <1>1, Constants DEF Tables
    <2> QED BY <2>1 DEF Init
  <1>3. balance \in [Wallets -> CBal] /\ pending \in [Wallets -> SUBSET PendingRow]
    BY Constants DEF Init
  <1>4. net \in [Wallets -> Seq(CMessage)]
    BY AnswersOK DEF Init
  <1>5. env \in Environments /\ faults \in 0 .. env.maxFaults
    BY RsmcAssumption DEF Init, Environment
  <1> QED BY <1>2, <1>3, <1>4, <1>5 DEF IInv

LEMMA HandleOK ==
    ASSUME IInv, NEW w \in Wallets, NEW i \in DOMAIN net[w], NEW how, Handle(w, i, how), env' = env
    PROVE  IInv'
  BY RefuseResignOK, HandleRsmcOK, HandlePartnerResponseOK, HandleFounderResponseOK DEF Handle

LEMMA NextInv == IInv /\ [Next]_vars => IInv'
  <1> SUFFICES ASSUME IInv, [Next]_vars PROVE IInv'
    OBVIOUS
  <1>1. CASE UNCHANGED vars
    BY <1>1 DEF IInv, vars
  <1>2. CASE Next
    <2>1. env' = env
      BY <1>2 DEF Next
    <2>2. PICK w \in Wallets :
             \/ \E p \in env.payments, how \in Outcomes \ {"crash"} : Pay(w, p, how)
             \/ RecordPayment(w)
             \/ CrashConsole(w)
             \/ \E i \in DOMAIN net[w] : (\E how \in Outcomes : Handle(w, i, how)) \/ Lose(w, i)
      BY <1>2 DEF Next
    <2>3. ASSUME NEW p \in env.payments, NEW how \in Outcomes, Pay(w, p, how) PROVE IInv'
      BY <2>1, <2>3, PayOK
    <2>4. CASE RecordPayment(w)
      BY <2>1, <2>4, RecordPaymentOK
    <2>5. CASE CrashConsole(w)
      BY <2>1, <2>5, CrashConsoleOK
    <2>6. ASSUME NEW i \in DOMAIN net[w], NEW how \in Outcomes, Handle(w, i, how) PROVE IInv'
      BY <2>1, <2>6, HandleOK
    <2>7. ASSUME NEW i \in DOMAIN net[w], Lose(w, i) PROVE IInv'
      BY <2>1, <2>7, LoseOK
    <2> QED BY <2>2, <2>3, <2>4, <2>5, <2>6, <2>7
  <1> QED BY <1>1, <1>2

LEMMA Invariance == Spec => []IInv
  BY InitInv, NextInv, PTL DEF Spec

\* Tables, messages and pending rows keep their types in every state.
THEOREM TypeCorrect == Spec => []TypeOK
  <1>1. CTrade \subseteq Trade
    BY CBalFacts DEF CTrade, Trade
  <1>2. PendingRow \subseteq [nonce : Nonces, trade : Trade]
    BY <1>1, Constants DEF PendingRow
  <1>3. CMessage \subseteq Message
    BY CBalFacts, Constants DEF CMessage, Message
  <1>4. ASSUME NEW s \in Seq(CMessage) PROVE s \in Seq(Message)
    BY <1>3
  <1>5. IInv => TypeOK
    <2> SUFFICES ASSUME IInv PROVE TypeOK
      OBVIOUS
    <2>1. trades \in [Wallets -> [Nonces -> Trade \cup {NoTrade}]]
      BY <1>1 DEF IInv, Tables
    <2>2. balance \in [Wallets -> Balances] /\ pending \in [Wallets -> SUBSET [nonce : Nonces, trade : Trade]]
      BY <1>2, CBalFacts DEF IInv
    <2>3. net \in [Wallets -> Seq(Message)]
      BY <1>4 DEF IInv
    <2> QED BY <2>1, <2>2, <2>3 DEF IInv, TypeOK
  <1> QED BY <1>5, Invariance, PTL

\* Whatever the users pay at once and whatever is lost, reordered, not sent or
\* forgotten, the balances in each wallet's book of the channel are not negative
\* and add up to what was deposited (Channel.balance, written by
\* update_balance_for_channel and handle_resign_body).
THEOREM BooksConserved == Spec => []Conserved
  <1>1. IInv => Conserved
    BY DEF IInv, Conserved, CBal, Balances
  <1> QED BY <1>1, Invariance, PTL

-----------------------------------------------------------------------------
(* What a payee can settle with, where users wait for a payment to end and    *)
(* no wallet dies: there is at most one message, and the tables of both sides *)
(* say what it is about.                                                     *)

Careful == env.patient /\ "crash" \notin env.faults

OneAtATime ==
    \A w \in Wallets : Len(net[w]) <= 1 /\ (net[w] # <<>> => net[Other(w)] = <<>>)

\* The signatures on the row t of a payee w.
PayeeSigned(w, t) ==
    LET own == {[payer |-> Other(w), bal |-> t.bal]} IN
    t.role = "PARTNER" =>
        /\ t.commitment \in {{}, own} /\ t.peer_commitment \in {{}, own}
        /\ t.state # "init" => t.commitment = own
        /\ t.state = "confirmed" => t.peer_commitment = own

TableSigned(w, ts) == \A n \in Nonces : ts[n] # NoTrade => PayeeSigned(w, ts[n])

\* The console of a payer records rows of a payer only.
PayerConsole == \A w \in Wallets : \A r \in pending[w] : r.trade.role = "FOUNDER"

\* The nonce a message is about.
Agreed(m) == IF m.nego = {} THEN m.nonce ELSE The(m.nego)

PayerRow(t) == t = NoTrade \/ t.role = "FOUNDER"

\* The row of a payee that waits for the payer's signature.
Waiting(t) == t \in CTrade /\ t.role = "PARTNER" /\ t.peer_commitment = {}

\* What the tables say of the message m on its way to w.
Told(tables, w, m) ==
    /\ m.role = -1 => PayerRow(tables[Other(w)][m.nonce])
    /\ m.role = 0 =>
         LET t == tables[Other(w)][Agreed(m)] IN
         /\ PayerRow(tables[w][m.nonce])
         /\ Waiting(t) /\ t.bal = m.bal /\ t.commitment = m.sig
         /\ \A r \in m.resign : r.nonce + 1 = Agreed(m)
    /\ m.role = 1 =>
         LET t == tables[w][m.nonce] IN
         /\ m.nego = {} /\ PayerRow(tables[Other(w)][m.nonce])
         /\ Waiting(t)
         /\ m.sig # {} => t.bal = m.bal /\ t.commitment # {}
         /\ \A r \in m.resign : r.nonce + 1 = m.nonce

MessagesTold == \A w \in Wallets : \A i \in DOMAIN net[w] : Told(trades, w, net[w][i])

TablesSigned == \A w \in Wallets : TableSigned(w, trades[w])

PInv == OneAtATime /\ TablesSigned /\ PayerConsole /\ MessagesTold

-----------------------------------------------------------------------------
(* What resigning leaves of a table.                                       *)

\* Of ts, us rewrites at most row n, whose role and balances stay, and a row
\* that was well signed still is.
Kept(w, ts, us, n) ==
    /\ us \in Tables
    /\ \A k \in Nonces : k # n => us[k] = ts[k]
    /\ ts[n] = NoTrade => us[n] = NoTrade
    /\ ts[n] # NoTrade => us[n] # NoTrade /\ us[n].role = ts[n].role
    /\ ts[n] # NoTrade /\ PayeeSigned(w, ts[n]) => PayeeSigned(w, us[n])

LEMMA KeptSame ==
    ASSUME NEW w \in Wallets, NEW ts \in Tables, NEW n \in Nonces
    PROVE  Kept(w, ts, ts, n)
  BY DEF Kept

LEMMA KeptRow ==
    ASSUME NEW w \in Wallets, NEW ts \in Tables, NEW n \in Nonces, NEW t \in CTrade,
           n # 1 \/ IsConfirmed(t), ts[n] # NoTrade, t.role = ts[n].role,
           PayeeSigned(w, ts[n]) => PayeeSigned(w, t)
    PROVE  Kept(w, ts, [ts EXCEPT ![n] = t], n)
  <1>1. PICK us : us = [ts EXCEPT ![n] = t]
    OBVIOUS
  <1>2. us \in Tables
    BY <1>1, RowOK
  <1>3. us[n] = t /\ \A k \in Nonces : k # n => us[k] = ts[k]
    BY <1>1 DEF Tables
  <1>4. Kept(w, ts, us, n)
    BY <1>2, <1>3, NoTradeFacts DEF Kept
  <1> QED BY <1>1, <1>4

\* A table that is kept stays well signed.
LEMMA KeptSigned ==
    ASSUME NEW w \in Wallets, NEW ts \in Tables, NEW us, NEW n \in Nonces, Kept(w, ts, us, n),
           TableSigned(w, ts)
    PROVE  TableSigned(w, us)
  <1>1. ASSUME NEW k \in Nonces, us[k] # NoTrade PROVE PayeeSigned(w, us[k])
    <2>1. CASE k = n
      BY <1>1, <2>1 DEF Kept, TableSigned
    <2>2. CASE k # n
      <3>1. us[k] = ts[k]
        BY <2>2 DEF Kept
      <3> QED BY <1>1, <3>1 DEF TableSigned
    <2> QED BY <2>1, <2>2
  <1> QED BY <1>1 DEF TableSigned

LEMMA SettleHeldKept ==
    ASSUME NEW w \in Wallets, NEW ts \in Tables
    PROVE  Kept(w, ts, SettleHeld(ts), LatestValid(ts))
  <1>1. PICK n \in Nonces : n = LatestValid(ts)
    BY LatestFacts
  <1>2. PICK o \in CTrade : o = ts[n]
    BY <1>1, LatestFacts
  <1>3. CASE AwaitsPayer(o) /\ o.peer_commitment # {}
    <2>1. PICK s \in {"init", "confirming", "confirmed"} : s = "confirmed"
      OBVIOUS
    <2>2. PICK t : t = [o EXCEPT !.state = s]
      OBVIOUS
    <2>3. /\ t \in CTrade /\ IsConfirmed(t) /\ t.role = o.role /\ t.bal = o.bal
          /\ t.commitment = o.commitment /\ t.peer_commitment = o.peer_commitment
          /\ t.state = "confirmed"
      BY <2>1, <2>2 DEF CTrade, IsConfirmed
    <2>4. PayeeSigned(w, o) => PayeeSigned(w, t)
      BY <1>3, <2>3 DEF PayeeSigned, AwaitsPayer
    <2>5. PICK us : us = [ts EXCEPT ![n] = t]
      OBVIOUS
    <2>6. Kept(w, ts, us, n)
      BY <1>2, <2>3, <2>4, <2>5, KeptRow, NoTradeFacts
    <2>7. [ts EXCEPT ![n].state = "confirmed"] = us
      BY <1>2, <2>1, <2>2, <2>5
    <2>8. SettleHeld(ts) = us
      BY <1>1, <1>2, <1>3, <2>7 DEF SettleHeld
    <2> QED BY <1>1, <2>6, <2>8
  <1>4. CASE ~ (AwaitsPayer(o) /\ o.peer_commitment # {})
    <2>1. SettleHeld(ts) = ts
      BY <1>1, <1>2, <1>4 DEF SettleHeld
    <2> QED BY <1>1, <2>1, KeptSame
  <1> QED BY <1>3, <1>4

LEMMA ResignedKept ==
    ASSUME NEW w \in Wallets, NEW ts \in Tables, NEW r \in ResignBody, ResignAccepted(w, ts, r)
    PROVE  Kept(w, ts, Resigned(w, ts, r), r.nonce)
  <1>1. PICK n \in Nonces : n = r.nonce
    BY DEF ResignBody
  <1>2. PICK o \in CTrade : o = ts[n]
    BY <1>1, LatestFacts DEF ResignAccepted
  <1>3. CASE IsConfirmed(o)
    <2>1. Resigned(w, ts, r) = ts
      BY <1>1, <1>2, <1>3 DEF Resigned
    <2> QED BY <1>1, <2>1, KeptSame
  <1>4. CASE ~IsConfirmed(o)
    <2>1. PICK own : own = {[payer |-> PayerOf(w, o), bal |-> o.bal]}
      OBVIOUS
    <2>2. own \in SUBSET Commitment /\ o.commitment \in SUBSET Commitment
      <3>1. o.bal \in CBal /\ o.commitment \in SUBSET Commitment
        BY DEF CTrade
      <3> QED BY <2>1, <3>1, PayerIsWallet, SignedOK
    <2>3. PICK c \in SUBSET Commitment : c = IF o.commitment = {} THEN own ELSE o.commitment
      BY <2>2
    <2>4. PICK p \in SUBSET Commitment : p = r.sig
      BY DEF ResignBody
    <2>5. PICK s \in {"init", "confirming", "confirmed"} : s = "confirmed"
      OBVIOUS
    <2>6. PICK t : t = [o EXCEPT !.commitment = c, !.peer_commitment = p, !.state = s]
      OBVIOUS
    <2>7. /\ t \in CTrade /\ IsConfirmed(t) /\ t.role = o.role /\ t.bal = o.bal
          /\ t.commitment = c /\ t.peer_commitment = p /\ t.state = "confirmed"
      BY <2>5, <2>6 DEF CTrade, IsConfirmed
    <2>8. p = own
      BY <1>1, <1>2, <1>4, <2>1, <2>4 DEF ResignAccepted
    <2>9. PayeeSigned(w, o) => PayeeSigned(w, t)
      <3>1. o.role = "PARTNER" => own = {[payer |-> Other(w), bal |-> o.bal]}
        BY <2>1 DEF PayerOf
      <3> QED BY <2>3, <2>7, <2>8, <3>1 DEF PayeeSigned
    <2>10. PICK us : us = [ts EXCEPT ![n] = t]
      OBVIOUS
    <2>11. Kept(w, ts, us, n)
      BY <1>2, <2>7, <2>9, <2>10, KeptRow, NoTradeFacts
    <2>12. Resigned(w, ts, r) = us
      BY <1>1, <1>2, <1>4, <2>1, <2>3, <2>4, <2>5, <2>6, <2>10 DEF Resigned
    <2> QED BY <1>1, <2>11, <2>12
  <1> QED BY <1>3, <1>4

\* What a resign body leaves of a table: nothing is written without one.
LEMMA AfterKept ==
    ASSUME NEW w \in Wallets, NEW ts \in Tables, NEW resign \in SUBSET ResignBody,
           \A r \in resign : ResignAccepted(w, ts, r)
    PROVE  /\ resign = {} => TradesAfter(w, ts, resign) = ts
           /\ resign # {} => The(resign) \in resign /\ The(resign).nonce \in Nonces
           /\ resign # {} => Kept(w, ts, TradesAfter(w, ts, resign), The(resign).nonce)
           /\ \E n \in Nonces : Kept(w, ts, TradesAfter(w, ts, resign), n)
  <1>1. CASE resign = {}
    <2>1. TradesAfter(w, ts, resign) = ts
      BY <1>1 DEF TradesAfter
    <2> QED BY <1>1, <2>1, Constants, KeptSame
  <1>2. CASE resign # {}
    <2>1. PICK r \in resign : r = The(resign)
      BY <1>2, TheOK
    <2>2. TradesAfter(w, ts, resign) = Resigned(w, ts, r)
      BY <1>2, <2>1 DEF TradesAfter
    <2>3. r \in ResignBody /\ r.nonce \in Nonces /\ ResignAccepted(w, ts, r)
      BY DEF ResignBody
    <2>4. Kept(w, ts, Resigned(w, ts, r), r.nonce)
      BY <2>3, ResignedKept
    <2> QED BY <1>2, <2>1, <2>2, <2>3, <2>4
  <1> QED BY <1>1, <1>2

\* The nonces of the resign bodies a wallet sends.
LEMMA AckNonce ==
    ASSUME NEW ts, NEW resign, NEW r \in AckAfter(ts, resign)
    PROVE  resign # {} /\ r.nonce = The(resign).nonce
  BY DEF AckAfter, ResignAck

LEMMA RequestNonce ==
    ASSUME NEW ts, NEW r \in ResignRequest(ts)
    PROVE  r.nonce = LatestValid(ts)
  BY DEF ResignRequest

-----------------------------------------------------------------------------
(* One message at a time.                                                  *)

\* A handler leaves the answers only.
LEMMA AnswerOne ==
    ASSUME IInv, OneAtATime, NEW w \in Wallets, NEW i \in DOMAIN net[w], NEW how,
           how # "crash", NEW answers \in Seq(CMessage), Len(answers) <= 1, Answer(w, i, how, answers)
    PROVE  /\ net[Other(w)] = <<>>
           /\ net'[w] = <<>> /\ net'[Other(w)] = IF how = "unsent" THEN <<>> ELSE answers
           /\ OneAtATime'
           /\ pending' = pending
  <1>1. net \in [Wallets -> Seq(CMessage)] /\ Other(w) \in Wallets /\ Other(w) # w
    BY Constants DEF IInv
  <1>2. \A x \in Wallets : x = w \/ x = Other(w)
    BY DEF Wallets, Other
  <1>3. net[w] \in Seq(CMessage) /\ i \in 1 .. Len(net[w]) /\ Len(net[w]) <= 1
    BY <1>1 DEF OneAtATime
  <1>4. i = 1 /\ Len(net[w]) = 1
    <2>1. PICK last \in Nat : last = Len(net[w])
      BY <1>3
    <2>2. i \in 1 .. last /\ last <= 1
      BY <1>3, <2>1
    <2>3. i = 1 /\ last = 1
      BY <2>2
    <2> QED BY <2>1, <2>3
  <1>5. RemoveAt(net[w], i) = <<>>
    BY <1>3, <1>4 DEF RemoveAt
  <1>6. net[Other(w)] = <<>>
    BY <1>4 DEF OneAtATime
  <1>7. PICK sent \in Seq(CMessage) : sent = IF how = "unsent" THEN <<>> ELSE answers
    <2>1. CASE how = "unsent"
      BY <2>1, AnswersOK
    <2>2. CASE how # "unsent"
      BY <2>2
    <2> QED BY <2>1, <2>2
  <1>8. net' = [net EXCEPT ![w] = RemoveAt(net[w], i), ![Other(w)] = net[Other(w)] \o sent]
    BY <1>1, <1>7 DEF Answer
  <1>9. net'[w] = <<>> /\ net'[Other(w)] = sent
    <2>1. <<>> \o sent = sent
      OBVIOUS
    <2> QED BY <1>1, <1>5, <1>6, <1>8, <2>1
  <1>10. Len(sent) <= 1
    BY <1>7
  <1>11. OneAtATime'
    <2>1. Other(Other(w)) = w
      BY DEF Wallets, Other
    <2>2. ASSUME NEW x \in Wallets PROVE Len(net'[x]) <= 1 /\ (net'[x] # <<>> => net'[Other(x)] = <<>>)
      BY <1>2, <1>9, <1>10, <2>1
    <2> QED BY <2>2 DEF OneAtATime
  <1>12. pending' = pending
    BY DEF Answer
  <1> QED BY <1>6, <1>7, <1>9, <1>11, <1>12

\* What holds after a handler of w that writes the table ts and answers one
\* message or none.
LEMMA HandlerSigned ==
    ASSUME IInv, PInv, NEW w \in Wallets, NEW i \in DOMAIN net[w], NEW how,
           how # "crash", NEW ts \in Tables, NEW b, TableSigned(w, ts), Write(w, ts, b),
           NEW answers \in Seq(CMessage), Answer(w, i, how, answers),
           answers = <<>> \/ \E a \in CMessage :
                answers = <<a>> /\ (how # "unsent" => Told(trades', Other(w), a))
    PROVE  PInv'
  <1>1. OneAtATime /\ TablesSigned /\ PayerConsole
    BY DEF PInv
  <1>2. Len(answers) <= 1
    BY AnswersOK
  <1>3. /\ net'[w] = <<>> /\ net'[Other(w)] = IF how = "unsent" THEN <<>> ELSE answers
        /\ OneAtATime' /\ pending' = pending
    BY <1>1, <1>2, AnswerOne
  <1>4. \A x \in Wallets : x = w \/ x = Other(w)
    BY DEF Wallets, Other
  <1>5. trades \in [Wallets -> Tables] /\ trades' = [trades EXCEPT ![w] = ts]
    BY DEF IInv, Write
  <1>6. TablesSigned'
    <2>1. ASSUME NEW x \in Wallets PROVE TableSigned(x, trades'[x])
      <3>1. CASE x = w
        BY <1>5, <3>1
      <3>2. CASE x # w
        BY <1>1, <1>5, <3>2 DEF TablesSigned
      <3> QED BY <3>1, <3>2
    <2> QED BY <2>1 DEF TablesSigned, TableSigned, PayeeSigned
  <1>7. PayerConsole'
    BY <1>1, <1>3 DEF PayerConsole
  <1>8. MessagesTold'
    <2>1. ASSUME NEW x \in Wallets, NEW j \in DOMAIN net'[x] PROVE Told(trades', x, net'[x][j])
      <3>1. x = Other(w) /\ how # "unsent" /\ net'[x] = answers /\ answers # <<>>
        BY <1>3, <1>4, <2>1
      <3>2. PICK a \in CMessage : answers = <<a>> /\ Told(trades', Other(w), a)
        BY <3>1
      <3>3. net'[x][j] = a
        BY <2>1, <3>1, <3>2
      <3> QED BY <3>1, <3>2, <3>3
    <2> QED BY <2>1 DEF MessagesTold
  <1> QED BY <1>3, <1>6, <1>7, <1>8 DEF PInv

-----------------------------------------------------------------------------
(* The steps, with careful users.                                          *)

LEMMA HandleRsmcSigned ==
    ASSUME IInv, PInv, NEW w \in Wallets, NEW i \in DOMAIN net[w], NEW how \in {"sent", "unsent"},
           HandleRsmc(w, i, how), net[w][i].role = -1
    PROVE  PInv'
  <1>1. PICK m \in CMessage : m = net[w][i] /\ m.role = -1
    BY Taken
  <1>2. /\ m.nonce \in PaidNonces /\ m.payment \in Payments /\ m.bal \in CBal
        /\ m.resign \in SUBSET ResignBody
        /\ env.lastNonce \in 1 .. MaxNonce
    BY <1>1, Taken
  <1>3. PICK ts \in Tables : ts = trades[w]
    BY Taken
  <1>4. TableSigned(w, ts) /\ PayerRow(trades[Other(w)][m.nonce])
    BY <1>1, <1>3 DEF PInv, TablesSigned, MessagesTold, Told
  <1>5. \A r \in m.resign : ResignAccepted(w, ts, r)
    BY <1>1, <1>3 DEF HandleRsmc
  <1>6. PICK asks \in BOOLEAN : asks = (m.resign # {})
    OBVIOUS
  <1>7. PICK after \in Tables : after = IF asks THEN TradesAfter(w, ts, m.resign) ELSE SettleHeld(ts)
    <2>1. TradesAfter(w, ts, m.resign) \in Tables
      BY <1>2, <1>5, Constants, ResignOK
    <2> QED BY <2>1, SettleHeldOK
  <1>8. TableSigned(w, after)
    <2>1. CASE asks
      <3>1. PICK n \in Nonces : Kept(w, ts, after, n)
        BY <1>2, <1>5, <1>7, <2>1, AfterKept
      <3> QED BY <1>4, <3>1, KeptSigned
    <2>2. CASE ~asks
      BY <1>4, <1>7, <2>2, SettleHeldKept, KeptSigned, LatestFacts
    <2> QED BY <2>1, <2>2
  <1>9. PICK b : b = BalanceAfter(ts, balance[w], m.resign)
    OBVIOUS
  <1>10. PICK request \in SUBSET ResignBody : request = IF asks THEN {} ELSE ResignRequest(ts)
    BY ResignRequestOK
  <1>11. PICK nonce : nonce = 1 + IF asks THEN The(m.resign).nonce ELSE LatestValid(ts)
    OBVIOUS
  <1>12. nonce <= env.lastNonce
    BY <1>1, <1>3, <1>6, <1>11 DEF HandleRsmc
  <1>13. nonce \in PaidNonces
    <2>1. CASE asks
      <3>1. The(m.resign).nonce \in 1 .. MaxNonce
        BY <1>2, <1>6, <2>1, TheOK DEF ResignBody, Nonces
      <3> QED BY <1>2, <1>11, <1>12, <2>1, <3>1, Constants DEF PaidNonces
    <2>2. CASE ~asks
      <3>1. LatestValid(ts) \in 1 .. MaxNonce
        BY LatestFacts DEF Nonces
      <3> QED BY <1>2, <1>11, <1>12, <2>2, <3>1, Constants DEF PaidNonces
    <2> QED BY <2>1, <2>2
  <1>14. PICK own \in SUBSET Commitment :
            own = IF request = {} THEN {[payer |-> Other(w), bal |-> m.bal]} ELSE {}
    BY <1>2, Constants, SignedOK
  <1>15. PICK state \in {"init", "confirming", "confirmed"} :
            state = IF request = {} THEN "confirming" ELSE "init"
    OBVIOUS
  <1>16. PICK trade : trade = [UnsignedTrade("PARTNER", m.bal) EXCEPT !.commitment = own, !.state = state]
    OBVIOUS
  <1>17. /\ trade \in CTrade /\ trade.role = "PARTNER" /\ trade.bal = m.bal /\ trade.commitment = own
         /\ trade.peer_commitment = {} /\ trade.state = state
    BY <1>2, <1>16 DEF UnsignedTrade, CTrade
  <1>18. Waiting(trade) /\ PayeeSigned(w, trade)
    BY <1>14, <1>15, <1>17 DEF Waiting, PayeeSigned
  <1>19. PICK nego \in SUBSET PaidNonces : nego = {nonce} \ {m.nonce}
    BY <1>13
  <1>20. PICK resign \in SUBSET ResignBody : resign = IF asks THEN AckAfter(after, m.resign) ELSE request
    <2>1. CASE asks
      BY <1>2, <1>5, <1>7, <2>1, Constants, ResignOK
    <2>2. CASE ~asks
      BY <2>2
    <2> QED BY <2>1, <2>2
  <1>21. PICK a : a = [role |-> 0, nonce |-> m.nonce, nego |-> nego, payment |-> m.payment,
                       bal |-> m.bal, sig |-> own, resign |-> resign]
    OBVIOUS
  <1>22. /\ a \in CMessage /\ a.role = 0 /\ a.nonce = m.nonce /\ a.nego = nego /\ a.bal = m.bal
         /\ a.sig = own /\ a.resign = resign
    BY <1>2, <1>21 DEF CMessage
  <1>23. Agreed(a) = nonce
    <2>1. nego # {} => The(nego) = nonce
      BY <1>19, TheOK
    <2> QED BY <1>19, <1>22, <2>1 DEF Agreed
  <1>24. \A r \in resign : r.nonce + 1 = nonce
    <2>1. ASSUME NEW r \in resign, asks PROVE r.nonce + 1 = nonce
      <3>1. r.nonce = The(m.resign).nonce
        BY <1>20, <2>1, AckNonce
      <3>2. r.nonce \in Nat
        BY DEF ResignBody, Nonces
      <3> QED BY <1>11, <2>1, <3>1, <3>2
    <2>2. ASSUME NEW r \in resign, ~asks PROVE r.nonce + 1 = nonce
      <3>1. r.nonce = LatestValid(ts)
        BY <1>10, <1>20, <2>2, RequestNonce
      <3>2. r.nonce \in Nat
        BY DEF ResignBody, Nonces
      <3> QED BY <1>11, <2>2, <3>1, <3>2
    <2> QED BY <2>1, <2>2
  <1>25. PICK answers \in Seq(CMessage) : answers = <<a>>
    BY <1>22, AnswersOK
  <1>26. PICK none \in Seq(CMessage) : none = <<>>
    BY AnswersOK
  <1>27. PICK row : row = [after EXCEPT ![nonce] = trade]
    OBVIOUS
  <1>28. row \in Tables
    BY <1>13, <1>17, <1>27, Constants, RowOK
  <1>29. row[nonce] = trade /\ TableSigned(w, row)
    BY <1>8, <1>13, <1>18, <1>27, Constants DEF Tables, TableSigned
  <1>30. PICK table \in Tables : table = IF how = "sent" THEN row ELSE after
    BY <1>28
  <1>31. CASE Answer(w, i, how, none) /\ Write(w, after, b)
    BY <1>8, <1>26, <1>31, HandlerSigned
  <1>32. CASE Answer(w, i, how, answers) /\ Write(w, table, b)
    <2>1. TableSigned(w, table)
      BY <1>8, <1>29, <1>30
    <2>2. ASSUME how # "unsent", how = "sent" PROVE Told(trades', Other(w), a)
      <3>1. trades \in [Wallets -> Tables] /\ trades' = [trades EXCEPT ![w] = row]
        BY <1>30, <1>32, <2>2 DEF Write, IInv
      <3>2. trades'[w][nonce] = trade /\ trades'[Other(w)] = trades[Other(w)] /\ Other(Other(w)) = w
        BY <1>29, <3>1, Constants DEF Wallets, Other
      <3> QED BY <1>4, <1>17, <1>18, <1>22, <1>23, <1>24, <3>2 DEF Told
    <2> QED BY <1>22, <1>25, <1>32, <2>1, <2>2, HandlerSigned
  <1>33. \/ Answer(w, i, how, none) /\ Write(w, after, b)
         \/ Answer(w, i, how, answers) /\ Write(w, table, b)
    BY <1>1, <1>3, <1>6, <1>7, <1>9, <1>10, <1>11, <1>14, <1>15, <1>16, <1>19, <1>20, <1>21, <1>25,
       <1>26, <1>27, <1>30 DEF HandleRsmc
  <1> QED BY <1>31, <1>32, <1>33

LEMMA HandleFounderResponseSigned ==
    ASSUME IInv, PInv, NEW w \in Wallets, NEW i \in DOMAIN net[w], NEW how \in {"sent", "unsent"},
           HandleFounderResponse(w, i, how), net[w][i].role = 1
    PROVE  PInv'
  <1>1. PICK m \in CMessage : m = net[w][i] /\ m.role = 1
    BY Taken
  <1>2. /\ m.nonce \in PaidNonces /\ m.nonce \in Nonces /\ m.payment \in Payments /\ m.bal \in CBal
        /\ m.resign \in SUBSET ResignBody
    BY <1>1, Constants, Taken
  <1>3. PICK ts \in Tables : ts = trades[w]
    BY Taken
  <1>4. PICK n \in PaidNonces : n = m.nonce
    BY <1>2
  <1>5. PICK o \in CTrade : o = ts[n] /\ o.role = "PARTNER" /\ o.peer_commitment = {}
    BY <1>1, <1>3, <1>4 DEF PInv, MessagesTold, Told, Waiting
  <1>6. /\ TableSigned(w, ts) /\ PayerRow(trades[Other(w)][n]) /\ m.nego = {}
        /\ m.sig # {} => o.bal = m.bal /\ o.commitment # {}
        /\ \A r \in m.resign : r.nonce + 1 = n
    BY <1>1, <1>3, <1>4, <1>5 DEF PInv, TablesSigned, MessagesTold, Told
  <1>7. \A r \in m.resign : ResignAccepted(w, ts, r)
    BY <1>1, <1>3 DEF HandleFounderResponse
  <1>8. PICK after \in Tables : after = TradesAfter(w, ts, m.resign)
    BY <1>2, <1>7, Constants, ResignOK
  <1>9. TableSigned(w, after) /\ after[n] = o
    <2>1. TableSigned(w, after)
      <3>1. PICK k \in Nonces : Kept(w, ts, after, k)
        BY <1>2, <1>7, <1>8, AfterKept
      <3> QED BY <1>6, <3>1, KeptSigned
    <2>2. CASE m.resign = {}
      BY <1>2, <1>5, <1>7, <1>8, <2>1, <2>2, AfterKept
    <2>3. CASE m.resign # {}
      <3>1. PICK k \in Nonces : k = The(m.resign).nonce /\ k + 1 = n
        BY <1>2, <1>6, <2>3, TheOK DEF ResignBody
      <3>2. Kept(w, ts, after, k)
        BY <1>2, <1>7, <1>8, <2>3, <3>1, AfterKept
      <3>3. k # n /\ n \in Nonces
        BY <3>1, Constants DEF Nonces
      <3> QED BY <1>5, <2>1, <3>2, <3>3 DEF Kept
    <2> QED BY <2>2, <2>3, <2>1
  <1>10. PayeeSigned(w, o)
    BY <1>5, <1>6, NoTradeFacts, Constants DEF TableSigned
  <1>11. PICK b : b = BalanceAfter(ts, balance[w], m.resign)
    OBVIOUS
  <1>12. PICK sig \in SUBSET Commitment : sig = {[payer |-> Other(w), bal |-> m.bal]}
    BY <1>2, Constants, SignedOK
  <1>13. PICK none \in Seq(CMessage) : none = <<>>
    BY AnswersOK
  <1>14. PICK a : a = [m EXCEPT !.role = 0, !.sig = sig, !.resign = {}]
    OBVIOUS
  <1>15. /\ a \in CMessage /\ a.role = 0 /\ a.nonce = n /\ a.nego = {} /\ a.bal = m.bal
         /\ a.sig = sig /\ a.resign = {}
    BY <1>4, <1>6, <1>14 DEF CMessage
  <1>16. PICK answers \in Seq(CMessage) : answers = <<a>>
    BY <1>15, AnswersOK
  <1>17. PICK confirmed \in Tables : confirmed = Confirm(after, n, sig)
    BY <1>4, Constants, ConfirmOK
  <1>18. PICK signed \in Tables : signed = SignState(after, n, m.bal, sig)
    BY <1>2, SignStateOK
  <1>19. PICK paid : paid = IF how = "crash" THEN b ELSE Paid(b, Other(w), m.payment)
    OBVIOUS
  <1>20. CASE m.sig = sig /\ Answer(w, i, how, none) /\ Write(w, confirmed, paid)
    <2>1. m.sig # {}
      BY <1>12, <1>20
    <2>2. o.commitment = sig /\ o.bal = m.bal
      BY <1>5, <1>6, <1>10, <1>12, <2>1 DEF PayeeSigned
    <2>3. PICK t \in CTrade : /\ t.role = "PARTNER" /\ t.bal = m.bal /\ t.commitment = sig
                              /\ t.peer_commitment = sig /\ t.state = "confirmed"
                              /\ Rewrites(confirmed, after, n, t)
      BY <1>5, <1>9, <1>17, <2>2, ConfirmRow, NoTradeFacts, Constants
    <2>4. PayeeSigned(w, t)
      BY <1>12, <2>3 DEF PayeeSigned
    <2>5. TableSigned(w, confirmed)
      BY <1>9, <2>3, <2>4, Constants DEF TableSigned, Rewrites
    <2> QED BY <1>13, <1>20, <2>5, HandlerSigned
  <1>21. CASE Answer(w, i, how, answers) /\ Write(w, signed, b)
    <2>1. PICK t \in CTrade : /\ t.role = "PARTNER" /\ t.bal = m.bal /\ t.commitment = sig
                              /\ t.peer_commitment = {} /\ t.state = "confirming"
                              /\ Rewrites(signed, after, n, t)
      <3>1. after[n] # NoTrade
        BY <1>9, NoTradeFacts
      <3>2. PICK bal \in CBal : bal = m.bal
        BY <1>2
      <3>3. PICK t \in CTrade : /\ t.role = after[n].role /\ t.bal = bal /\ t.commitment = sig
                                /\ t.peer_commitment = after[n].peer_commitment
                                /\ t.state = "confirming"
                                /\ Rewrites(SignState(after, n, bal, sig), after, n, t)
        BY <3>1, SignStateRow
      <3> QED BY <1>5, <1>9, <1>18, <3>2, <3>3
    <2>2. PayeeSigned(w, t)
      BY <1>12, <2>1 DEF PayeeSigned
    <2>3. TableSigned(w, signed) /\ signed[n] = t
      BY <1>9, <2>1, <2>2, Constants DEF TableSigned, Rewrites
    <2>4. Told(trades', Other(w), a)
      <3>1. trades \in [Wallets -> Tables] /\ trades' = [trades EXCEPT ![w] = signed]
        BY <1>21 DEF Write, IInv
      <3>2. trades'[w][n] = t /\ trades'[Other(w)] = trades[Other(w)] /\ Other(Other(w)) = w
        BY <2>3, <3>1, Constants DEF Wallets, Other
      <3>3. Agreed(a) = n
        BY <1>15 DEF Agreed
      <3>4. Waiting(t)
        BY <2>1 DEF Waiting
      <3> QED BY <1>6, <1>15, <2>1, <3>2, <3>3, <3>4 DEF Told
    <2> QED BY <1>15, <1>16, <1>21, <2>3, <2>4, HandlerSigned
  <1>22. CASE Answer(w, i, how, none) /\ Write(w, after, b)
    BY <1>9, <1>13, <1>22, HandlerSigned
  <1>23. \/ m.sig = sig /\ Answer(w, i, how, none) /\ Write(w, confirmed, paid)
         \/ Answer(w, i, how, answers) /\ Write(w, signed, b)
         \/ Answer(w, i, how, none) /\ Write(w, after, b)
    BY <1>1, <1>3, <1>4, <1>8, <1>11, <1>12, <1>13, <1>14, <1>16, <1>17, <1>18, <1>19
       DEF HandleFounderResponse
  <1> QED BY <1>20, <1>21, <1>22, <1>23

\* The rows a payer writes as payer ask for no signature of a payee.
LEMMA PayerRowSigned ==
    ASSUME NEW w \in Wallets, NEW ts \in Tables, NEW n \in Nonces,
           NEW t \in CTrade, t.role = "FOUNDER", TableSigned(w, ts),
           NEW us, Rewrites(us, ts, n, t)
    PROVE  TableSigned(w, us) /\ us[n] = t
  <1>1. us[n] = t /\ \A k \in Nonces : k # n => us[k] = ts[k]
    BY DEF Rewrites
  <1>2. PayeeSigned(w, t)
    BY DEF PayeeSigned
  <1>3. TableSigned(w, us)
    BY <1>1, <1>2 DEF TableSigned
  <1> QED BY <1>1, <1>3

LEMMA RenegotiatedSigned ==
    ASSUME NEW w \in Wallets, NEW ts \in Tables, NEW own \in PaidNonces, NEW nonce \in PaidNonces,
           NEW bal \in CBal, TableSigned(w, ts), PayerRow(ts[own])
    PROVE  /\ TableSigned(w, Renegotiated(ts, own, nonce, bal))
           /\ PayerRow(Renegotiated(ts, own, nonce, bal)[nonce])
  <1>1. CASE nonce = own
    BY <1>1 DEF Renegotiated
  <1>2. CASE nonce # own
    <2>1. PICK fresh \in CTrade : fresh = UnsignedTrade("FOUNDER", bal) /\ fresh.role = "FOUNDER"
      BY UnsignedOK DEF UnsignedTrade
    <2>2. PICK us : us = [ts EXCEPT ![nonce] = fresh, ![own] = IF nonce < own THEN NoTrade ELSE @]
      OBVIOUS
    <2>3. nonce \in Nonces /\ own \in Nonces /\ DOMAIN ts = Nonces
      BY Constants DEF Tables
    <2>4. /\ us[nonce] = fresh /\ us[own] \in {NoTrade, ts[own]}
          /\ \A k \in Nonces : k # nonce /\ k # own => us[k] = ts[k]
      BY <1>2, <2>2, <2>3
    <2>5. PayeeSigned(w, fresh)
      BY <2>1 DEF PayeeSigned
    <2>6. TableSigned(w, us)
      BY <2>3, <2>4, <2>5 DEF TableSigned
    <2>7. Renegotiated(ts, own, nonce, bal) = us
      BY <1>2, <2>1, <2>2 DEF Renegotiated
    <2> QED BY <2>1, <2>4, <2>6, <2>7 DEF PayerRow
  <1> QED BY <1>1, <1>2

LEMMA HandlePartnerResponseSigned ==
    ASSUME IInv, PInv, NEW w \in Wallets, NEW i \in DOMAIN net[w], NEW how \in {"sent", "unsent"},
           HandlePartnerResponse(w, i, how), net[w][i].role = 0
    PROVE  PInv'
  <1>1. PICK m \in CMessage : m = net[w][i] /\ m.role = 0
    BY Taken
  <1>2. /\ m.nonce \in PaidNonces /\ m.nego \in SUBSET PaidNonces /\ m.payment \in Payments
        /\ m.payment \in Nat /\ m.bal \in CBal /\ m.sig \in SUBSET Commitment
        /\ m.resign \in SUBSET ResignBody
    BY <1>1, Taken
  <1>3. PICK ts \in Tables : ts = trades[w]
    BY Taken
  <1>4. \A r \in m.resign : ResignAccepted(w, ts, r)
    BY <1>1, <1>3 DEF HandlePartnerResponse
  <1>5. PICK after \in Tables : /\ after = TradesAfter(w, ts, m.resign)
                                /\ \A r \in m.resign : after[r.nonce] \in CTrade
    BY <1>2, <1>4, Constants, ResignOK
  <1>6. PICK b \in CBal : b = BalanceAfter(ts, balance[w], m.resign)
    BY <1>2, <1>4, ResignOK, Taken
  <1>7. PICK nonce \in PaidNonces : nonce = IF m.nego = {} THEN m.nonce ELSE The(m.nego)
    BY <1>2, TheOK
  <1>8. PICK bases \in SUBSET CBal :
           bases = IF m.sig = {} THEN ResignedBalances(after, m.resign) ELSE {}
    <2>1. \A r \in m.resign : after[r.nonce].bal \in CBal
      BY <1>5 DEF CTrade
    <2> QED BY <2>1 DEF ResignedBalances
  <1>9. PICK none \in Seq(CMessage) : none = <<>>
    BY AnswersOK
  <1>10. PICK o : o = trades[Other(w)][nonce]
    OBVIOUS
  <1>11. /\ TableSigned(w, ts) /\ PayerRow(ts[m.nonce])
         /\ Waiting(o) /\ o.bal = m.bal /\ o.commitment = m.sig
         /\ \A r \in m.resign : r.nonce + 1 = nonce
    <2>1. Agreed(m) = nonce
      BY <1>7 DEF Agreed
    <2> QED BY <1>1, <1>3, <1>10, <2>1 DEF PInv, TablesSigned, MessagesTold, Told
  <1>12. TableSigned(w, after) /\ PayerRow(after[m.nonce])
    <2>1. PICK n \in Nonces : Kept(w, ts, after, n)
      BY <1>2, <1>4, <1>5, AfterKept
    <2>2. PayerRow(after[m.nonce])
      <3>1. m.nonce \in Nonces
        BY <1>2, Constants
      <3> QED BY <1>11, <2>1, <3>1 DEF Kept, PayerRow
    <2> QED BY <1>11, <2>1, <2>2, KeptSigned
  <1>13. CASE (\E x \in bases : ~CanPay(x, w, m.payment)) \/ ~NonceAgrees(after, nonce)
    <2>1. Answer(w, i, how, none) /\ Write(w, after, b)
      BY <1>1, <1>3, <1>5, <1>6, <1>7, <1>8, <1>9, <1>13 DEF HandlePartnerResponse
    <2> QED BY <1>9, <1>12, <2>1, HandlerSigned
  <1>14. CASE ~ ((\E x \in bases : ~CanPay(x, w, m.payment)) \/ ~NonceAgrees(after, nonce))
    <2>1. PICK bal \in CBal : bal = IF bases = {} THEN m.bal
                                    ELSE AfterPayment(The(bases), w, m.payment)
      <3>1. CASE bases = {}
        BY <1>2, <3>1
      <3>2. CASE bases # {}
        <4>1. PICK x \in bases : x = The(bases)
          BY <3>2, TheOK
        <4>2. x \in CBal /\ CanPay(x, w, m.payment)
          BY <1>14
        <4>3. AfterPayment(x, w, m.payment) \in CBal
          BY <1>2, <4>2, AfterPaymentFacts
        <4> QED BY <3>2, <4>1, <4>3
      <3> QED BY <3>1, <3>2
    <2>2. PICK table \in Tables : table = Renegotiated(after, m.nonce, nonce, bal)
      BY <1>2, RenegotiatedOK
    <2>3. TableSigned(w, table) /\ PayerRow(table[nonce])
      BY <1>2, <1>12, <2>2, RenegotiatedSigned
    <2>6. PICK ack \in SUBSET ResignBody : ack = AckAfter(after, m.resign)
      BY <1>2, <1>4, <1>5, Constants, ResignOK
    <2>7. SignPayment(w, i, how, m, nonce, bal, table, b, ack)
      BY <1>1, <1>3, <1>5, <1>6, <1>7, <1>8, <1>14, <2>1, <2>2, <2>6 DEF HandlePartnerResponse
    <2>4. CASE table[nonce] = NoTrade \/ (table[nonce].commitment = {} /\ ~Matches(b, w, m.payment, bal))
      <3>1. Answer(w, i, how, none) /\ Write(w, table, b)
        BY <1>9, <2>4, <2>7 DEF SignPayment
      <3> QED BY <1>9, <2>3, <3>1, HandlerSigned
    <2>5. CASE ~ (table[nonce] = NoTrade \/ (table[nonce].commitment = {} /\ ~Matches(b, w, m.payment, bal)))
      <3>1. PICK u \in CTrade : u = table[nonce] /\ u.role = "FOUNDER"
        BY <2>3, <2>5, Constants, LatestFacts DEF PayerRow
      <3>2. PICK own \in SUBSET Commitment :
               own = IF table[nonce].commitment = {} THEN {[payer |-> w, bal |-> bal]}
                     ELSE table[nonce].commitment
        BY <3>1, SignedOK DEF CTrade
      <3>3. PICK t : t = [u EXCEPT !.commitment = own]
        OBVIOUS
      <3>4. t \in CTrade /\ t.role = "FOUNDER"
        BY <3>1, <3>3 DEF CTrade
      <3>5. PICK signed : signed = [table EXCEPT ![nonce] = t]
        OBVIOUS
      <3>6. signed \in Tables /\ signed = [table EXCEPT ![nonce].commitment = own]
        <4>1. signed \in Tables
          BY <3>4, <3>5, Constants, RowOK
        <4>2. signed = [table EXCEPT ![nonce].commitment = own]
          BY <3>1, <3>3, <3>5
        <4> QED BY <4>1, <4>2
      <3>7. TableSigned(w, signed) /\ signed[nonce] = t
        <4>1. nonce \in Nonces /\ Rewrites(signed, table, nonce, t)
          BY <3>5, Constants DEF Rewrites, Tables
        <4> QED BY <2>3, <3>4, <4>1, PayerRowSigned
      <3>9. \A r \in ack : r.nonce + 1 = nonce
        BY <1>11, <2>6, AckNonce, TheOK
      <3>10. PICK given \in SUBSET Commitment : given = IF m.sig = {} THEN {} ELSE own
        OBVIOUS
      <3>11. PICK a : a = [role |-> 1, nonce |-> nonce, nego |-> {}, payment |-> m.payment,
                           bal |-> bal, sig |-> given, resign |-> ack]
        OBVIOUS
      <3>12. /\ a \in CMessage /\ a.role = 1 /\ a.nonce = nonce /\ a.nego = {} /\ a.bal = bal
             /\ a.sig = given /\ a.resign = ack
        BY <1>2, <3>11 DEF CMessage
      <3>13. PICK answers \in Seq(CMessage) : answers = <<a>>
        BY <3>12, AnswersOK
      <3>14. PICK confirmed \in Tables : confirmed = Confirm(signed, nonce, m.sig)
        BY <1>2, <3>6, Constants, ConfirmOK
      <3>15. TableSigned(w, confirmed) /\ PayerRow(confirmed[nonce])
        <4>1. nonce \in Nonces /\ signed[nonce] # NoTrade /\ signed[nonce].role = "FOUNDER"
          BY <3>4, <3>7, Constants, NoTradeFacts
        <4>2. PICK c \in CTrade : c.role = "FOUNDER" /\ Rewrites(confirmed, signed, nonce, c)
          <5>1. PICK sig \in SUBSET Commitment : sig = m.sig
            BY <1>2
          <5>2. \E c \in CTrade : /\ c.role = signed[nonce].role
                                  /\ Rewrites(Confirm(signed, nonce, sig), signed, nonce, c)
            BY <3>6, <4>1, ConfirmRow
          <5> QED BY <3>14, <4>1, <5>1, <5>2
        <4>3. TableSigned(w, confirmed) /\ confirmed[nonce] = c
          BY <3>6, <3>7, <4>1, <4>2, PayerRowSigned
        <4> QED BY <4>2, <4>3 DEF PayerRow
      <3>16. PICK paid \in CBal : paid = IF how = "sent" THEN Paid(b, w, m.payment) ELSE b
        BY <1>2, PaidOK
      <3>17. /\ Answer(w, i, how, answers)
             /\ Write(w, signed, b) \/ Write(w, confirmed, paid)
        <4>1. /\ Answer(w, i, how, answers)
              /\ IF m.sig = {} THEN Write(w, signed, b) ELSE Write(w, confirmed, paid)
          BY <2>5, <2>7, <3>2, <3>6, <3>10, <3>11, <3>13, <3>14, <3>16 DEF SignPayment
        <4> QED BY <4>1
      <3>18. ASSUME NEW us \in Tables, PayerRow(us[nonce]), trades' = [trades EXCEPT ![w] = us]
             PROVE  Told(trades', Other(w), a)
        <4>1. trades \in [Wallets -> Tables]
          BY DEF IInv
        <4>2. trades'[w] = us /\ trades'[Other(w)] = trades[Other(w)] /\ Other(Other(w)) = w
          BY <3>18, <4>1, Constants DEF Wallets, Other
        <4>3. a.sig # {} => o.bal = a.bal /\ o.commitment # {}
          BY <1>8, <1>11, <2>1, <3>10, <3>12
        <4> QED BY <1>10, <1>11, <3>9, <3>12, <3>18, <4>2, <4>3 DEF Told
      <3>19. CASE Write(w, signed, b)
        <4>1. Told(trades', Other(w), a)
          <5>1. PayerRow(signed[nonce])
            BY <3>4, <3>7 DEF PayerRow
          <5> QED BY <3>6, <3>18, <3>19, <5>1 DEF Write
        <4> QED BY <3>6, <3>12, <3>13, <3>17, <3>19, <3>7, <4>1, HandlerSigned
      <3>20. CASE Write(w, confirmed, paid)
        <4>1. Told(trades', Other(w), a)
          BY <3>15, <3>18, <3>20 DEF Write
        <4> QED BY <3>12, <3>13, <3>15, <3>17, <3>20, <4>1, HandlerSigned
      <3> QED BY <3>17, <3>19, <3>20
    <2> QED BY <2>4, <2>5
  <1> QED BY <1>13, <1>14

LEMMA PaySigned ==
    ASSUME IInv, PInv, NEW w \in Wallets, NEW p \in env.payments, NEW how, Pay(w, p, how),
           env' = env, env.patient
    PROVE  PInv'
  <1>1. /\ trades \in [Wallets -> Tables] /\ pending \in [Wallets -> SUBSET PendingRow]
        /\ net \in [Wallets -> Seq(CMessage)] /\ Other(w) \in Wallets /\ Other(w) # w
        /\ \A x \in Wallets : x = w \/ x = Other(w)
    BY Constants DEF IInv, Wallets, Other
  <1>2. \A v \in Wallets : net[v] = <<>> /\ pending[v] = {}
    BY DEF Pay
  <1>3. PICK ts \in Tables : ts = trades[w] /\ TableSigned(w, ts)
    BY <1>1 DEF PInv, TablesSigned
  <1>4. PICK us \in Tables : us = SettleHeld(ts)
    BY SettleHeldOK
  <1>5. trades' = [trades EXCEPT ![w] = us]
    BY <1>3, <1>4 DEF Pay
  <1>6. Kept(w, ts, us, LatestValid(ts)) /\ LatestValid(ts) \in Nonces
    BY <1>4, LatestFacts, SettleHeldKept
  <1>7. TablesSigned'
    <2>1. TableSigned(w, us)
      BY <1>3, <1>6, KeptSigned
    <2>2. ASSUME NEW x \in Wallets PROVE TableSigned(x, trades'[x])
      <3>1. CASE x = w
        BY <1>1, <1>5, <2>1, <3>1
      <3>2. CASE x # w
        BY <1>1, <1>5, <3>2 DEF PInv, TablesSigned
      <3> QED BY <3>1, <3>2
    <2> QED BY <2>2 DEF TablesSigned
  <1>8. PICK nonce : nonce = LatestNonce(ts) + 1
    OBVIOUS
  <1>9. nonce \in PaidNonces /\ us[nonce] = NoTrade
    <2>1. LatestNonce(ts) \in 1 .. MaxNonce /\ \A n \in Recorded(ts) : n <= LatestNonce(ts)
      <3>1. ts[1] # NoTrade
        BY LatestFacts, NoTradeFacts
      <3>2. PICK S \in SUBSET Nonces : S = Recorded(ts)
        BY DEF Recorded
      <3>3. S # {}
        BY <3>1, <3>2, Constants DEF Recorded
      <3>4. Max(S) \in S /\ \A n \in S : n <= Max(S)
        BY <3>3, MaxOK
      <3> QED BY <3>2, <3>4 DEF LatestNonce, Nonces
    <2>2. nonce <= env.lastNonce /\ env.lastNonce \in 1 .. MaxNonce
      <3>1. env \in Environment
        BY RsmcAssumption DEF IInv
      <3> QED BY <1>3, <1>8, <3>1 DEF Pay, Environment
    <2>3. nonce \in 2 .. MaxNonce
      BY <1>8, <2>1, <2>2, Constants
    <2>4. nonce \in Nonces /\ nonce \in PaidNonces /\ ~ (nonce <= LatestNonce(ts))
      BY <1>8, <2>1, <2>3 DEF Nonces, PaidNonces
    <2>5. ts[nonce] = NoTrade
      BY <2>1, <2>4 DEF Recorded
    <2> QED BY <1>6, <2>4, <2>5 DEF Kept
  <1>10. CASE how = "unsent"
    <2>1. net' = net /\ pending' = pending
      BY <1>10 DEF Pay
    <2>2. OneAtATime' /\ MessagesTold' /\ PayerConsole'
      BY <1>1, <1>2, <2>1 DEF PInv, OneAtATime, MessagesTold, PayerConsole
    <2> QED BY <1>7, <2>2 DEF PInv
  <1>11. CASE how # "unsent"
    <2>1. PICK base : base = IF ts[LatestValid(ts)].state = "confirming"
                            THEN ts[LatestValid(ts)].bal ELSE balance[w]
      OBVIOUS
    <2>2. PICK m : m = [role |-> -1, nonce |-> nonce, nego |-> {}, payment |-> p,
                        bal |-> AfterPayment(base, w, p), sig |-> {}, resign |-> ResignRequest(ts)]
      OBVIOUS
    <2>3. PICK row : row = [nonce |-> nonce, trade |-> UnsignedTrade("FOUNDER", AfterPayment(base, w, p))]
      OBVIOUS
    <2>4. net' = [net EXCEPT ![Other(w)] = Append(@, m)] /\ pending' = [pending EXCEPT ![w] = {row}]
      BY <1>3, <1>8, <1>11, <2>1, <2>2, <2>3 DEF Pay
    <2>5. net'[w] = <<>> /\ net'[Other(w)] = <<m>> /\ Other(Other(w)) = w
      BY <1>1, <1>2, <2>4 DEF Wallets, Other
    <2>6. OneAtATime'
      <3>1. ASSUME NEW x \in Wallets PROVE Len(net'[x]) <= 1 /\ (net'[x] # <<>> => net'[Other(x)] = <<>>)
        <4>1. Len(<<>>) <= 1 /\ Len(<<m>>) <= 1
          OBVIOUS
        <4> QED BY <1>1, <2>5, <4>1
      <3> QED BY <3>1 DEF OneAtATime
    <2>7. PayerConsole'
      <3>1. row.trade.role = "FOUNDER"
        BY <2>3 DEF UnsignedTrade
      <3> QED BY <1>1, <1>2, <2>4, <3>1 DEF PayerConsole
    <2>8. MessagesTold'
      <3>1. m.role = -1 /\ m.nonce = nonce
        BY <2>2
      <3>2. trades'[w] = us
        BY <1>1, <1>5
      <3>3. Told(trades', Other(w), m)
        BY <1>9, <2>5, <3>1, <3>2 DEF Told, PayerRow
      <3>4. ASSUME NEW x \in Wallets, NEW j \in DOMAIN net'[x] PROVE Told(trades', x, net'[x][j])
        <4>1. x = Other(w) /\ net'[x][j] = m
          BY <1>1, <2>5, <3>4
        <4> QED BY <3>3, <4>1
      <3> QED BY <3>4 DEF MessagesTold
    <2> QED BY <1>7, <2>6, <2>7, <2>8 DEF PInv
  <1> QED BY <1>10, <1>11

LEMMA RecordPaymentSigned ==
    ASSUME IInv, PInv, NEW w \in Wallets, RecordPayment(w), env' = env
    PROVE  PInv'
  <1>1. /\ trades \in [Wallets -> Tables] /\ pending \in [Wallets -> SUBSET PendingRow]
        /\ net \in [Wallets -> Seq(CMessage)]
    BY DEF IInv
  <1>2. PICK r \in pending[w] :
           /\ trades' = [trades EXCEPT ![w][r.nonce] = IF @ = NoTrade THEN r.trade ELSE @]
           /\ pending' = [pending EXCEPT ![w] = {}]
           /\ UNCHANGED <<balance, net, faults>>
    BY DEF RecordPayment
  <1>3. PICK n \in PaidNonces : n = r.nonce
    BY <1>1, <1>2 DEF PendingRow
  <1>4. PICK ts \in Tables : ts = trades[w] /\ TableSigned(w, ts)
    BY <1>1 DEF PInv, TablesSigned
  <1>5. PICK t : t = r.trade
    OBVIOUS
  <1>6. t \in CTrade /\ t.role = "FOUNDER" /\ n \in Nonces
    BY <1>1, <1>2, <1>5, Constants DEF PendingRow, PInv, PayerConsole
  <1>7. PICK us : us = [ts EXCEPT ![n] = IF ts[n] = NoTrade THEN t ELSE ts[n]]
    OBVIOUS
  <1>8. trades' = [trades EXCEPT ![w] = us]
    BY <1>1, <1>2, <1>3, <1>4, <1>5, <1>7
  <1>9. /\ \A k \in Nonces : ts[k] # NoTrade => us[k] = ts[k]
        /\ \A k \in Nonces : us[k] = ts[k] \/ us[k] = t
    BY <1>7 DEF Tables
  <1>10. TableSigned(w, us)
    <2>1. PayeeSigned(w, t)
      BY <1>6 DEF PayeeSigned
    <2> QED BY <1>4, <1>9, <2>1 DEF TableSigned
  <1>11. TablesSigned'
    <2>1. ASSUME NEW x \in Wallets PROVE TableSigned(x, trades'[x])
      <3>1. CASE x = w
        BY <1>1, <1>8, <1>10, <3>1
      <3>2. CASE x # w
        BY <1>1, <1>8, <3>2 DEF PInv, TablesSigned
      <3> QED BY <3>1, <3>2
    <2> QED BY <2>1 DEF TablesSigned
  <1>12. \A x \in Wallets, k \in Nonces :
            /\ trades[x][k] # NoTrade => trades'[x][k] = trades[x][k]
            /\ PayerRow(trades[x][k]) => PayerRow(trades'[x][k])
    <2>1. ASSUME NEW x \in Wallets, NEW k \in Nonces
          PROVE  /\ trades[x][k] # NoTrade => trades'[x][k] = trades[x][k]
                 /\ PayerRow(trades[x][k]) => PayerRow(trades'[x][k])
      <3>1. CASE x = w
        <4>1. trades'[x] = us /\ trades[x] = ts
          BY <1>1, <1>4, <1>8, <3>1
        <4> QED BY <1>6, <1>9, <4>1 DEF PayerRow
      <3>2. CASE x # w
        BY <1>1, <1>8, <3>2
      <3> QED BY <3>1, <3>2
    <2> QED BY <2>1
  <1>13. MessagesTold'
    <2>1. ASSUME NEW x \in Wallets, NEW j \in DOMAIN net[x] PROVE Told(trades', x, net[x][j])
      <3>1. PICK m \in CMessage : m = net[x][j]
        BY <1>1
      <3>2. Told(trades, x, m)
        BY <3>1 DEF PInv, MessagesTold
      <3>3. Other(x) \in Wallets /\ m.nonce \in Nonces /\ m.nonce \in PaidNonces /\ m.nego \in SUBSET PaidNonces
        BY Constants DEF CMessage
      <3>4. PICK k : k = Agreed(m)
        OBVIOUS
      <3>5. k \in Nonces
        BY <3>3, <3>4, TheOK, Constants DEF Agreed
      <3>6. \A v \in Wallets, l \in Nonces :
               Waiting(trades[v][l]) => trades'[v][l] = trades[v][l]
        BY <1>12, NoTradeFacts DEF Waiting
      <3> QED BY <1>12, <3>1, <3>2, <3>3, <3>4, <3>5, <3>6 DEF Told
    <2>2. net' = net
      BY <1>2
    <2> QED BY <2>1, <2>2 DEF MessagesTold
  <1>14. OneAtATime' /\ PayerConsole'
    BY <1>1, <1>2 DEF PInv, OneAtATime, PayerConsole
  <1> QED BY <1>11, <1>13, <1>14 DEF PInv

LEMMA RefuseResignSigned ==
    ASSUME IInv, PInv, NEW w \in Wallets, NEW i \in DOMAIN net[w], RefuseResign(w, i), env' = env
    PROVE  PInv'
  <1>1. PICK none \in Seq(CMessage) : none = <<>>
    BY AnswersOK
  <1>2. PICK how : how = "sent"
    OBVIOUS
  <1>3. Answer(w, i, how, none) /\ trades' = trades /\ balance' = balance
    BY <1>1, <1>2 DEF RefuseResign
  <1>4. PICK ts \in Tables : ts = trades[w] /\ TableSigned(w, ts)
    BY DEF IInv, PInv, TablesSigned
  <1>5. PICK b : b = balance[w]
    OBVIOUS
  <1>6. Write(w, ts, b)
    BY <1>3, <1>4, <1>5 DEF Write, IInv
  <1> QED BY <1>1, <1>2, <1>3, <1>4, <1>6, HandlerSigned

LEMMA LoseSigned ==
    ASSUME IInv, PInv, NEW w \in Wallets, NEW i \in DOMAIN net[w], Lose(w, i), env' = env
    PROVE  PInv'
  <1>1. PICK none \in Seq(CMessage) : none = <<>>
    BY AnswersOK
  <1>2. net \in [Wallets -> Seq(CMessage)] /\ Other(w) \in Wallets /\ Other(w) # w
    BY Constants DEF IInv
  <1>3. \A x \in Wallets : x = w \/ net[x] = <<>>
    <2>1. net[w] # <<>>
      BY <1>2
    <2>2. net[Other(w)] = <<>>
      BY <2>1 DEF PInv, OneAtATime
    <2> QED BY <2>2 DEF Wallets, Other
  <1>4. net'[w] = <<>> /\ \A x \in Wallets : x # w => net'[x] = net[x]
    <2>1. i = 1 /\ Len(net[w]) = 1
      <3>1. PICK last \in Nat : last = Len(net[w])
        BY <1>2
      <3>2. i \in 1 .. last /\ last <= 1
        BY <1>2, <3>1 DEF PInv, OneAtATime
      <3>3. i = 1 /\ last = 1
        BY <3>2
      <3> QED BY <3>1, <3>3
    <2>2. RemoveAt(net[w], i) = <<>>
      BY <1>2, <2>1 DEF RemoveAt
    <2> QED BY <1>2, <2>2 DEF Lose
  <1>5. \A x \in Wallets : net'[x] = <<>>
    BY <1>3, <1>4
  <1>6. OneAtATime' /\ MessagesTold'
    BY <1>5, AnswersOK DEF OneAtATime, MessagesTold
  <1>7. trades' = trades /\ pending' = pending
    BY DEF Lose
  <1> QED BY <1>6, <1>7 DEF PInv, TablesSigned, PayerConsole

LEMMA InitSigned == Init => PInv
  <1> SUFFICES ASSUME Init PROVE PInv
    OBVIOUS
  <1>1. OneAtATime /\ MessagesTold /\ PayerConsole
    BY AnswersOK, Constants DEF Init, OneAtATime, MessagesTold, PayerConsole
  <1>2. ASSUME NEW w \in Wallets PROVE PayeeSigned(w, FoundingTrade(w))
    BY Constants DEF FoundingTrade, PayeeSigned, Wallets, Other
  <1>3. TablesSigned
    <2>1. ASSUME NEW w \in Wallets, NEW n \in Nonces, trades[w][n] # NoTrade
          PROVE  PayeeSigned(w, trades[w][n])
      <3>1. trades[w][n] = FoundingTrade(w)
        BY <2>1 DEF Init
      <3> QED BY <1>2, <3>1
    <2> QED BY <2>1 DEF TablesSigned, TableSigned
  <1> QED BY <1>1, <1>3 DEF PInv

LEMMA NextSigned == IInv /\ Careful /\ PInv /\ [Next]_vars => PInv'
  <1> SUFFICES ASSUME IInv, Careful, PInv, [Next]_vars PROVE PInv'
    OBVIOUS
  <1>1. CASE UNCHANGED vars
    BY <1>1 DEF PInv, OneAtATime, TablesSigned, PayerConsole, MessagesTold, vars
  <1>2. CASE Next
    <2>1. env' = env
      BY <1>2 DEF Next
    <2>2. PICK w \in Wallets :
             \/ \E p \in env.payments, how \in Outcomes \ {"crash"} : Pay(w, p, how)
             \/ RecordPayment(w)
             \/ CrashConsole(w)
             \/ \E i \in DOMAIN net[w] : (\E how \in Outcomes : Handle(w, i, how)) \/ Lose(w, i)
      BY <1>2 DEF Next
    <2>3. ASSUME NEW p \in env.payments, NEW how, Pay(w, p, how) PROVE PInv'
      BY <2>1, <2>3, PaySigned DEF Careful
    <2>4. CASE RecordPayment(w)
      BY <2>1, <2>4, RecordPaymentSigned
    <2>5. CASE CrashConsole(w)
      BY <2>5 DEF CrashConsole, Careful
    <2>6. ASSUME NEW i \in DOMAIN net[w], NEW how \in Outcomes, Handle(w, i, how) PROVE PInv'
      <3>1. how \in {"sent", "unsent"}
        BY DEF Outcomes, Careful
      <3> QED BY <2>1, <2>6, <3>1, RefuseResignSigned, HandleRsmcSigned, HandlePartnerResponseSigned,
                 HandleFounderResponseSigned DEF Handle
    <2>7. ASSUME NEW i \in DOMAIN net[w], Lose(w, i) PROVE PInv'
      BY <2>1, <2>7, LoseSigned
    <2> QED BY <2>2, <2>3, <2>4, <2>5, <2>6, <2>7
  <1> QED BY <1>1, <1>2

\* Where users wait for a payment to end and no wallet dies, whatever is lost,
\* reordered or not sent, and whichever resign requests that takes: a payee
\* holds for a confirmed trade both signatures, over the balances of its row,
\* which are the ones force_release_rsmc sends to the contract.
THEOREM PayeeSettles == Spec => []PayeeCanSettle
  <1>1. Init => (Careful => PInv)
    BY InitSigned
  <1>2. IInv /\ (Careful => PInv) /\ [Next]_vars => (Careful => PInv)'
    <2>1. [Next]_vars => (Careful' <=> Careful)
      BY DEF Next, vars, Careful
    <2> QED BY <2>1, NextSigned
  <1>3. IInv /\ (Careful => PInv) => PayeeCanSettle
    <2> SUFFICES ASSUME IInv, Careful, PInv, NEW w \in Wallets, NEW n \in Nonces,
                        NEW t, t = trades[w][n], t.state = "confirmed", t.role = "PARTNER"
                 PROVE  /\ t.commitment = {[payer |-> PayerOf(w, t), bal |-> t.bal]}
                        /\ t.peer_commitment = t.commitment
      BY DEF PayeeCanSettle, Careful
    <2>1. t # NoTrade
      BY DEF NoTrade
    <2>2. PayeeSigned(w, t)
      BY <2>1 DEF PInv, TablesSigned, TableSigned
    <2> QED BY <2>2 DEF PayeeSigned, PayerOf
  <1> QED BY <1>1, <1>2, <1>3, Invariance, PTL DEF Spec

-----------------------------------------------------------------------------
(* What two patient users' tables say of each other, as long as no message    *)
(* overtakes another and no wallet dies.                                     *)

Patient == env.patient /\ InOrder

Valid(t) == t.state \in {"confirming", "confirmed"}

\* The signature of a payer or payee on the payment of payer to the balances b.
Sig(payer, b) == {[payer |-> payer, bal |-> b]}

\* The signatures on the row t of w: a payer signs and confirms in one step or
\* has only signed, a payee signs with the balances of its row, and what w keeps
\* of its peer is what it signed itself.
RowSigned(w, t) ==
    /\ t.role = "FOUNDER" => t.state # "confirming"
    /\ t.role = "PARTNER" /\ t.state = "init" => t.commitment = {}
    /\ t.role = "PARTNER" /\ t.commitment # {} => t.commitment = Sig(Other(w), t.bal)
    /\ t.state # "init" => t.commitment # {}
    /\ t.peer_commitment = IF IsConfirmed(t) THEN t.commitment ELSE {}

\* The rows of w are valid up to v, and a row that awaits its payer is the last
\* of them, after a confirmed one.
Line(w, ts, v) ==
    /\ v \in Nonces
    /\ \A n \in Nonces : ts[n] # NoTrade => RowSigned(w, ts[n])
    /\ \A n \in Nonces : Valid(ts[n]) <=> n <= v
    /\ AwaitsPayer(ts[v]) => v - 1 \in Nonces /\ IsConfirmed(ts[v - 1])

\* Only a payee that waits for its payer is ahead, by one trade.
Ahead(ts, v, u) == v > u => v = u + 1 /\ AwaitsPayer(ts[v])

\* Of a trade valid at both, one is the payer, and both have signed the same.
Agree(ts, us) ==
    \A n \in Nonces : Valid(ts[n]) /\ Valid(us[n]) =>
        ts[n].role # us[n].role /\ ts[n].commitment = us[n].commitment

\* The tables ts of w and us of its peer, valid up to v and u.
Pair(w, ts, us, v, u) ==
    /\ Line(w, ts, v) /\ Line(Other(w), us, u)
    /\ Ahead(ts, v, u) /\ Ahead(us, u, v)
    /\ Agree(ts, us)

\* A payer has signed the row t before its payee.
Signed(t) == t # NoTrade /\ t.role = "FOUNDER" /\ t.state = "init" /\ t.commitment # {}

NoneSigned(ts) == \A n \in Nonces : ~Signed(ts[n])

\* It is the payer's next row, after one it has paid too; the payee awaits the
\* payer on that one, or has signed the same as the payer, or does not agree on
\* the balances: then it signs nothing more.
Early(ts, us, v, u, b, c) ==
    \A n \in Nonces : Signed(ts[n]) =>
        /\ n = v + 1 /\ ts[v].role = "FOUNDER"
        /\ \/ u = v /\ (AwaitsPayer(us[u]) \/ b # c)
           \/ u = n /\ us[n].role = "PARTNER" /\ us[n].commitment = ts[n].commitment

\* The peer's signature on the last confirmed row of ts, valid up to v, covers
\* the balance b.
Booked(ts, v, b) ==
    LET k == IF IsConfirmed(ts[v]) THEN v ELSE v - 1 IN
    \A s \in ts[k].peer_commitment : s.bal = b

Books(ts, us, v, u, b, c) == Orderly => Booked(ts, v, b) /\ Booked(us, u, c)

\* The tables and balances of w and of its peer.
Both(w, ts, us, b, c) ==
    LET v == LatestValid(ts)
        u == LatestValid(us) IN
    /\ Pair(w, ts, us, v, u) /\ Books(ts, us, v, u, b, c)
    /\ Early(ts, us, v, u, b, c) /\ Early(us, ts, u, v, c, b)

\* The row of a payment no one has signed, or of none yet.
Fresh(t) == t = NoTrade \/ (t.role = "FOUNDER" /\ t.state = "init" /\ t.commitment = {} /\ t.peer_commitment = {})

\* What the payer o, with table us and balance c, says in an Rsmc.
PaymentSays(o, us, c, m) ==
    /\ Fresh(us[m.nonce])
    /\ m.resign = ResignRequest(us)
    /\ m.resign = {} => m.bal = AfterPayment(c, o, m.payment)

\* The resign body of a payer: its signature on the row k of ts, the last valid
\* one, that awaits it.
Acks(ts, resign, k) ==
    /\ k = LatestValid(ts) /\ AwaitsPayer(ts[k])
    /\ resign = {[nonce |-> k, sig |-> ts[k].commitment]}

\* What a payee, with table us and balance c, says to the payer w with table ts
\* and balance b.
AnswerSays(w, ts, us, b, c, m) ==
    LET a == Agreed(m)
        r == ts[m.nonce] IN
    /\ Waiting(us[a]) /\ us[a].bal = m.bal /\ us[a].commitment = m.sig
    /\ \/ /\ m.sig # {} /\ a = LatestValid(us) /\ Matches(c, w, m.payment, m.bal)
          /\ m.resign = {} \/ Acks(ts, m.resign, a - 1)
       \/ /\ m.sig = {} /\ a = LatestValid(us) + 1
          /\ m.resign = ResignRequest(us) /\ m.resign # {}
    /\ \/ Fresh(r)
       \/ /\ Signed(r) /\ r.commitment = Sig(w, m.bal) /\ m.sig # {}
          /\ Matches(b, w, m.payment, m.bal)

\* What the payer o, with table us and balance c, says to the payee with table
\* ts and balance b when it has signed.
SignatureSays(o, ts, us, b, c, m) ==
    LET n == m.nonce IN
    /\ m.nego = {} /\ Waiting(ts[n])
    /\ \/ /\ m.sig = Sig(o, m.bal) /\ m.resign = {}
          /\ n = LatestValid(ts) /\ n <= LatestValid(us) /\ ts[n].bal = m.bal
          /\ Matches(b, o, m.payment, m.bal) /\ NoneSigned(us)
       \/ /\ m.sig = {} /\ n = LatestValid(ts) + 1 /\ Acks(ts, m.resign, n - 1)
          /\ Signed(us[n]) /\ us[n].commitment = Sig(o, m.bal)
          /\ Matches(c, o, m.payment, m.bal)

\* What the message m to w says of the tables and balances of both.
Says(w, ts, us, b, c, m) ==
    /\ m.role = -1 => PaymentSays(Other(w), us, c, m)
    /\ m.role = 0 => AnswerSays(w, ts, us, b, c, m)
    /\ m.role = 1 => SignatureSays(Other(w), ts, us, b, c, m)

AllTold ==
    \A w \in Wallets : \A i \in DOMAIN net[w] :
        Says(w, trades[w], trades[Other(w)], balance[w], balance[Other(w)], net[w][i])

AllPaired ==
    \A w \in Wallets : Both(w, trades[w], trades[Other(w)], balance[w], balance[Other(w)])

ConsolesFresh == \A w \in Wallets : \A r \in pending[w] : Fresh(r.trade)

AInv == AllPaired /\ AllTold /\ ConsolesFresh

-----------------------------------------------------------------------------
(* Lemmas about rows and tables.                                           *)

LEMMA Others ==
    \A w \in Wallets : /\ Other(w) \in Wallets /\ Other(w) # w /\ Other(Other(w)) = w
                       /\ \A x \in Wallets : x = w \/ x = Other(w)
  BY Constants DEF Wallets, Other

LEMMA Interval == Nonces = 1 .. MaxNonce /\ MaxNonce \in Nat /\ PaidNonces = 2 .. MaxNonce
  BY RsmcAssumption DEF Nonces, PaidNonces

LEMMA ValidFacts ==
    /\ ~Valid(NoTrade)
    /\ \A t : Valid(t) <=> IsConfirmed(t) \/ t.state = "confirming"
    /\ \A t \in CTrade : Valid(t) <=> t.state # "init"
    /\ \A t \in CTrade : t.role \in {"FOUNDER", "PARTNER"}
  BY NoTradeFacts DEF Valid, IsConfirmed, CTrade

\* A table has one length.
LEMMA LineLatest ==
    ASSUME NEW w, NEW ts \in Tables, NEW v, Line(w, ts, v)
    PROVE  /\ LatestValid(ts) = v /\ v \in Nonces /\ ts[v] \in CTrade
           /\ RowSigned(w, ts[v]) /\ Valid(ts[v])
  <1>1. PICK V : V = {n \in Nonces : IsConfirmed(ts[n]) \/ ts[n].state = "confirming"}
    OBVIOUS
  <1>2. V \in SUBSET Nonces /\ v \in V
    BY <1>1, Interval, ValidFacts DEF Line
  <1>3. Max(V) \in V /\ \A n \in V : n <= Max(V)
    BY <1>2, MaxOK
  <1>4. Max(V) <= v
    BY <1>1, <1>2, <1>3, ValidFacts DEF Line
  <1>5. LatestValid(ts) = v
    <2>1. LatestValid(ts) = Max(V)
      BY <1>1 DEF LatestValid
    <2>2. PICK x \in Nonces : x = Max(V)
      BY <1>2, <1>3
    <2>3. v <= x /\ x <= v /\ v \in Nonces
      BY <1>2, <1>3, <1>4, <2>2
    <2>4. x = v
      BY <2>3, Interval
    <2> QED BY <2>1, <2>2, <2>4
  <1>6. ts[v] \in CTrade
    BY <1>5, LatestFacts
  <1> QED BY <1>2, <1>5, <1>6, NoTradeFacts, Interval DEF Line

\* The last valid row of a wallet that does not await its payer is confirmed.
LEMMA LastConfirmed ==
    ASSUME NEW w, NEW ts \in Tables, NEW v, Line(w, ts, v)
    PROVE  /\ AwaitsPayer(ts[v]) => ts[v].role = "PARTNER" /\ ~IsConfirmed(ts[v]) /\ ts[v].peer_commitment = {}
           /\ ~AwaitsPayer(ts[v]) => IsConfirmed(ts[v])
  <1>1. ts[v] \in CTrade /\ RowSigned(w, ts[v]) /\ Valid(ts[v])
    BY LineLatest
  <1> QED BY <1>1, ValidFacts DEF RowSigned, AwaitsPayer, IsConfirmed, Valid, CTrade

LEMMA PairSwap ==
    ASSUME NEW w \in Wallets, NEW ts, NEW us, NEW v, NEW u, Pair(w, ts, us, v, u)
    PROVE  Pair(Other(w), us, ts, u, v)
  BY Others DEF Pair, Agree

LEMMA PairLatest ==
    ASSUME NEW w \in Wallets, NEW ts \in Tables, NEW us \in Tables, NEW v, NEW u, Pair(w, ts, us, v, u)
    PROVE  /\ LatestValid(ts) = v /\ LatestValid(us) = u
           /\ v \in Nonces /\ u \in Nonces /\ v \in Nat /\ u \in Nat
           /\ ts[v] \in CTrade /\ us[u] \in CTrade
           /\ RowSigned(w, ts[v]) /\ RowSigned(Other(w), us[u])
           /\ Valid(ts[v]) /\ Valid(us[u])
           /\ v <= u + 1 /\ u <= v + 1
  <1>1. Line(w, ts, v) /\ Line(Other(w), us, u)
    BY DEF Pair
  <1>2. /\ LatestValid(ts) = v /\ v \in Nonces /\ ts[v] \in CTrade /\ RowSigned(w, ts[v]) /\ Valid(ts[v])
    BY <1>1, LineLatest
  <1>3. /\ LatestValid(us) = u /\ u \in Nonces /\ us[u] \in CTrade /\ RowSigned(Other(w), us[u]) /\ Valid(us[u])
    BY <1>1, LineLatest
  <1>4. v \in Nat /\ u \in Nat
    BY <1>2, <1>3, Interval
  <1>5. v <= u + 1 /\ u <= v + 1
    BY <1>4 DEF Pair, Ahead
  <1> QED BY <1>2, <1>3, <1>4, <1>5

-----------------------------------------------------------------------------
(* Writing a row of one of the tables.                                     *)

\* A row nobody has a right to yet, beyond the valid ones.
LEMMA PairBeyond ==
    ASSUME NEW w \in Wallets, NEW ts \in Tables, NEW us \in Tables, NEW v, NEW u, Pair(w, ts, us, v, u),
           NEW n \in Nonces, n > v, NEW t \in CTrade \cup {NoTrade},
           t # NoTrade => t.state = "init" /\ RowSigned(w, t), NEW rs, Rewrites(rs, ts, n, t)
    PROVE  Pair(w, rs, us, v, u)
  <1>1. v \in Nonces /\ u \in Nonces
    BY PairLatest
  <1>2. ~Valid(t)
    BY ValidFacts
  <1>3. rs[v] = ts[v] /\ (v - 1 \in Nonces => rs[v - 1] = ts[v - 1])
    BY <1>1, Interval DEF Rewrites
  <1>4. Line(w, rs, v)
    <2>1. ASSUME NEW k \in Nonces PROVE (rs[k] # NoTrade => RowSigned(w, rs[k])) /\ (Valid(rs[k]) <=> k <= v)
      <3>1. CASE k = n
        BY <1>1, <1>2, <3>1, Interval DEF Rewrites
      <3>2. CASE k # n
        BY <3>2 DEF Rewrites, Pair, Line
      <3> QED BY <3>1, <3>2
    <2> QED BY <1>1, <1>3, <2>1 DEF Line, Pair
  <1>5. Agree(rs, us)
    <2>1. \A k \in Nonces : Valid(rs[k]) => rs[k] = ts[k]
      BY <1>2 DEF Rewrites
    <2> QED BY <2>1 DEF Agree, Pair
  <1>6. Ahead(rs, v, u) /\ Ahead(us, u, v)
    BY <1>3 DEF Ahead, Pair
  <1> QED BY <1>4, <1>5, <1>6 DEF Pair

\* The payer confirms the row its payee awaits it on.
LEMMA PairConfirms ==
    ASSUME NEW w \in Wallets, NEW ts \in Tables, NEW us \in Tables, NEW v, NEW u, Pair(w, ts, us, v, u),
           u = v + 1, NEW t \in CTrade, t.role = "FOUNDER", t.state = "confirmed",
           RowSigned(w, t), t.commitment = us[u].commitment, NEW rs, Rewrites(rs, ts, u, t)
    PROVE  Pair(w, rs, us, u, u)
  <1>1. v \in Nonces /\ u \in Nonces /\ v \in Nat
    BY PairLatest
  <1>2. Valid(t) /\ ~AwaitsPayer(t) /\ us[u].role = "PARTNER"
    BY <1>1 DEF Valid, AwaitsPayer, Pair, Ahead
  <1>3. Line(w, rs, u)
    <2>1. ASSUME NEW k \in Nonces PROVE (rs[k] # NoTrade => RowSigned(w, rs[k])) /\ (Valid(rs[k]) <=> k <= u)
      <3>1. CASE k = u
        BY <1>1, <1>2, <3>1, Interval DEF Rewrites
      <3>2. CASE k # u
        <4>1. k <= u <=> k <= v
          BY <1>1, <3>2, Interval
        <4> QED BY <3>2, <4>1 DEF Rewrites, Pair, Line
      <3> QED BY <3>1, <3>2
    <2>2. rs[u] = t
      BY DEF Rewrites
    <2> QED BY <1>1, <1>2, <2>1, <2>2 DEF Line
  <1>4. Agree(rs, us)
    <2>1. ASSUME NEW k \in Nonces, Valid(rs[k]), Valid(us[k])
          PROVE  rs[k].role # us[k].role /\ rs[k].commitment = us[k].commitment
      <3>1. CASE k = u
        <4>1. rs[u] = t
          BY DEF Rewrites
        <4> QED BY <1>2, <3>1, <4>1
      <3>2. CASE k # u
        BY <2>1, <3>2 DEF Rewrites, Pair, Agree
      <3> QED BY <3>1, <3>2
    <2> QED BY <2>1 DEF Agree
  <1>5. Ahead(rs, u, u) /\ Ahead(us, u, u)
    BY <1>1 DEF Ahead
  <1> QED BY <1>3, <1>4, <1>5 DEF Pair

\* The payee signs the row after the last of its payer's.
LEMMA PairSigns ==
    ASSUME NEW w \in Wallets, NEW ts \in Tables, NEW us \in Tables, NEW v, NEW u, Pair(w, ts, us, v, u),
           NEW n \in Nonces, n = u + 1, n = v \/ n = v + 1, IsConfirmed(ts[u]),
           NEW t \in CTrade, t.role = "PARTNER", t.state = "confirming",
           RowSigned(w, t), NEW rs, Rewrites(rs, ts, n, t)
    PROVE  Pair(w, rs, us, n, u)
  <1>1. v \in Nonces /\ u \in Nonces /\ v \in Nat /\ u \in Nat /\ n \in Nat
    BY PairLatest, Interval
  <1>2. Valid(t) /\ AwaitsPayer(t)
    BY DEF Valid, AwaitsPayer
  <1>3. rs[n] = t /\ rs[u] = ts[u]
    BY <1>1 DEF Rewrites
  <1>4. Line(w, rs, n)
    <2>1. ASSUME NEW k \in Nonces PROVE (rs[k] # NoTrade => RowSigned(w, rs[k])) /\ (Valid(rs[k]) <=> k <= n)
      <3>1. CASE k = n
        BY <1>1, <1>2, <3>1 DEF Rewrites
      <3>2. CASE k # n
        <4>1. k <= n <=> k <= v
          BY <1>1, <3>2, Interval
        <4> QED BY <3>2, <4>1 DEF Rewrites, Pair, Line
      <3> QED BY <3>1, <3>2
    <2>2. n - 1 = u
      BY <1>1
    <2> QED BY <1>1, <1>3, <2>1, <2>2 DEF Line
  <1>5. Agree(rs, us)
    <2>1. ASSUME NEW k \in Nonces, Valid(rs[k]), Valid(us[k])
          PROVE  rs[k].role # us[k].role /\ rs[k].commitment = us[k].commitment
      <3>1. k <= u
        BY <2>1 DEF Pair, Line
      <3>2. k # n
        BY <1>1, <3>1, Interval
      <3> QED BY <2>1, <3>2 DEF Rewrites, Pair, Agree
    <2> QED BY <2>1 DEF Agree
  <1>6. Ahead(rs, n, u) /\ Ahead(us, u, n)
    BY <1>1, <1>2, <1>3 DEF Ahead
  <1> QED BY <1>4, <1>5, <1>6 DEF Pair

\* The payee confirms the row it awaited its payer on.
LEMMA PairSettles ==
    ASSUME NEW w \in Wallets, NEW ts \in Tables, NEW us \in Tables, NEW v, NEW u, Pair(w, ts, us, v, u),
           v <= u, AwaitsPayer(ts[v]), NEW t \in CTrade, t.role = ts[v].role,
           t.commitment = ts[v].commitment, t.state = "confirmed", RowSigned(w, t),
           NEW rs, Rewrites(rs, ts, v, t)
    PROVE  Pair(w, rs, us, v, u)
  <1>1. v \in Nonces /\ u \in Nonces /\ v \in Nat /\ u \in Nat /\ Valid(ts[v])
    BY PairLatest
  <1>2. Valid(t) /\ ~AwaitsPayer(t) /\ rs[v] = t
    BY DEF Valid, AwaitsPayer, Rewrites
  <1>3. Line(w, rs, v)
    <2>1. ASSUME NEW k \in Nonces PROVE (rs[k] # NoTrade => RowSigned(w, rs[k])) /\ (Valid(rs[k]) <=> k <= v)
      <3>1. CASE k = v
        BY <1>1, <1>2, <3>1
      <3>2. CASE k # v
        BY <3>2 DEF Rewrites, Pair, Line
      <3> QED BY <3>1, <3>2
    <2> QED BY <1>1, <1>2, <2>1 DEF Line
  <1>4. Agree(rs, us)
    <2>1. ASSUME NEW k \in Nonces, Valid(rs[k]), Valid(us[k])
          PROVE  rs[k].role # us[k].role /\ rs[k].commitment = us[k].commitment
      <3>1. CASE k = v
        <4>1. ts[v].role # us[v].role /\ ts[v].commitment = us[v].commitment
          BY <1>1, <2>1, <3>1 DEF Pair, Agree
        <4> QED BY <1>2, <3>1, <4>1
      <3>2. CASE k # v
        BY <2>1, <3>2 DEF Rewrites, Pair, Agree
      <3> QED BY <3>1, <3>2
    <2> QED BY <2>1 DEF Agree
  <1>5. Ahead(rs, v, u)
    BY <1>1 DEF Ahead
  <1>6. Ahead(us, u, v)
    BY DEF Pair
  <1> QED BY <1>3, <1>4, <1>5, <1>6 DEF Pair

-----------------------------------------------------------------------------
(* Rows signed early.                                                      *)

LEMMA NoneEarly ==
    ASSUME NEW ts, NEW us, NEW v, NEW u, NEW b, NEW c, NoneSigned(ts)
    PROVE  Early(ts, us, v, u, b, c)
  BY DEF NoneSigned, Early

\* A wallet whose last valid row is a payee's has signed none.
LEMMA PayeeEarly ==
    ASSUME NEW ts, NEW us, NEW v, NEW u, NEW b, NEW c, Early(ts, us, v, u, b, c),
           ts[v].role = "PARTNER"
    PROVE  NoneSigned(ts)
  BY DEF NoneSigned, Early

\* Writing a row beyond the valid ones, in the peer's table and in one's own.
LEMMA EarlyBeyond ==
    ASSUME NEW ts, NEW us, NEW v \in Nonces, NEW u, NEW b, NEW c,
           NEW n \in Nonces, n > v, NEW t, NEW rs, Rewrites(rs, ts, n, t)
    PROVE  /\ Early(us, ts, u, v, c, b) => Early(us, rs, u, v, c, b)
           /\ Early(ts, us, v, u, b, c) /\ ~Signed(t) => Early(rs, us, v, u, b, c)
  <1>1. rs[v] = ts[v] /\ rs[n] = t /\ \A k \in Nonces : k # n => rs[k] = ts[k]
    BY Interval DEF Rewrites
  <1>2. ASSUME Early(us, ts, u, v, c, b), NEW k \in Nonces, Signed(us[k])
        PROVE  /\ k = u + 1 /\ us[u].role = "FOUNDER"
               /\ \/ v = u /\ (AwaitsPayer(rs[v]) \/ c # b)
                  \/ v = k /\ rs[k].role = "PARTNER" /\ rs[k].commitment = us[k].commitment
    BY <1>1, <1>2 DEF Early
  <1>3. ASSUME Early(ts, us, v, u, b, c), ~Signed(t), NEW k \in Nonces, Signed(rs[k])
        PROVE  /\ k = v + 1 /\ rs[v].role = "FOUNDER"
               /\ \/ u = v /\ (AwaitsPayer(us[u]) \/ b # c)
                  \/ u = k /\ us[k].role = "PARTNER" /\ us[k].commitment = rs[k].commitment
    <2>1. k # n /\ rs[k] = ts[k]
      BY <1>1, <1>3
    <2> QED BY <1>1, <1>3, <2>1 DEF Early
  <1> QED BY <1>2, <1>3 DEF Early

-----------------------------------------------------------------------------
(* Balances that the peer has signed.                                      *)

LEMMA SigBalance == \A p, b : \A s \in Sig(p, b) : s.bal = b
  BY DEF Sig

LEMMA BooksStep ==
    ASSUME NEW ts, NEW us, NEW v, NEW u, NEW b, NEW c, Books(ts, us, v, u, b, c),
           NEW rs, NEW x, NEW d, Booked(ts, v, b) => Booked(rs, x, d)
    PROVE  Books(rs, us, x, u, d, c)
  BY DEF Books

\* The rows that stay decide: a row beyond the valid ones does not count, and a
\* row the payee signs comes after the confirmed one.
LEMMA BookedBeyond ==
    ASSUME NEW w, NEW ts \in Tables, NEW v, Line(w, ts, v), NEW b, Booked(ts, v, b),
           NEW n \in Nonces, n > v, NEW t, NEW rs, Rewrites(rs, ts, n, t)
    PROVE  Booked(rs, v, b)
  <1>1. v \in Nonces /\ ~AwaitsPayer(ts[v]) => IsConfirmed(ts[v])
    BY LineLatest, LastConfirmed
  <1>2. v \in Nonces /\ v # n /\ v - 1 # n
    BY LineLatest, Interval
  <1>3. rs[v] = ts[v] /\ (~IsConfirmed(ts[v]) => rs[v - 1] = ts[v - 1])
    BY <1>1, <1>2 DEF Rewrites, Line
  <1> QED BY <1>3 DEF Booked

LEMMA BookedSigns ==
    ASSUME NEW ts, NEW v \in Nonces, NEW u \in Nonces, NEW b, Booked(ts, v, b), NEW n \in Nonces, n = u + 1,
           (n = v /\ ~IsConfirmed(ts[v])) \/ (u = v /\ IsConfirmed(ts[v])),
           NEW t, ~IsConfirmed(t), NEW rs, Rewrites(rs, ts, n, t)
    PROVE  Booked(rs, n, b)
  <1>1. u # n /\ n - 1 = u /\ (n = v => v - 1 = u)
    BY Interval
  <1>2. rs[n] = t /\ rs[u] = ts[u]
    BY <1>1 DEF Rewrites
  <1> QED BY <1>1, <1>2 DEF Booked

LEMMA BookedConfirms ==
    ASSUME NEW ts, NEW n, NEW b, NEW t, IsConfirmed(t), \A s \in t.peer_commitment : s.bal = b,
           NEW rs, Rewrites(rs, ts, n, t)
    PROVE  Booked(rs, n, b)
  BY DEF Booked, Rewrites

-----------------------------------------------------------------------------
(* Resigning.                                                              *)

\* A table whose last valid row awaits the payer has no signature on it to
\* settle with.
LEMMA NothingHeld ==
    ASSUME NEW w, NEW ts \in Tables, NEW v, Line(w, ts, v)
    PROVE  /\ SettleHeld(ts) = ts
           /\ ResignRequest(ts) = IF AwaitsPayer(ts[v]) THEN {[nonce |-> v, sig |-> ts[v].commitment]} ELSE {}
  <1>1. LatestValid(ts) = v
    BY LineLatest
  <1>2. AwaitsPayer(ts[v]) => ts[v].peer_commitment = {}
    BY LastConfirmed
  <1> QED BY <1>1, <1>2 DEF SettleHeld, ResignRequest

\* What a resign body that is accepted writes in a row not yet confirmed.
LEMMA ResignedRow ==
    ASSUME NEW w \in Wallets, NEW ts \in Tables, NEW r \in ResignBody, ResignAccepted(w, ts, r),
           NEW n \in Nonces, n = r.nonce, ~IsConfirmed(ts[n])
    PROVE  /\ ts[n] \in CTrade /\ r.sig = Sig(PayerOf(w, ts[n]), ts[n].bal)
           /\ \E t \in CTrade : /\ t.role = ts[n].role /\ t.bal = ts[n].bal
                                /\ t.commitment = IF ts[n].commitment = {} THEN r.sig ELSE ts[n].commitment
                                /\ t.peer_commitment = r.sig /\ t.state = "confirmed"
                                /\ Rewrites(Resigned(w, ts, r), ts, n, t)
  <1>1. PICK o \in CTrade : o = ts[n]
    BY LatestFacts DEF ResignAccepted
  <1>2. PICK own : own = {[payer |-> PayerOf(w, o), bal |-> o.bal]}
    OBVIOUS
  <1>3. own \in SUBSET Commitment /\ o.commitment \in SUBSET Commitment
    <2>1. o.bal \in CBal /\ o.commitment \in SUBSET Commitment
      BY DEF CTrade
    <2> QED BY <1>2, <2>1, PayerIsWallet, SignedOK
  <1>4. PICK d \in SUBSET Commitment : d = IF o.commitment = {} THEN own ELSE o.commitment
    BY <1>3
  <1>5. PICK p \in SUBSET Commitment : p = r.sig
    BY DEF ResignBody
  <1>6. p = own
    BY <1>1, <1>2, <1>5 DEF ResignAccepted
  <1>7. PICK s \in {"init", "confirming", "confirmed"} : s = "confirmed"
    OBVIOUS
  <1>8. PICK t : t = [o EXCEPT !.commitment = d, !.peer_commitment = p, !.state = s]
    OBVIOUS
  <1>9. /\ t \in CTrade /\ t.role = o.role /\ t.bal = o.bal
        /\ t.commitment = d /\ t.peer_commitment = p /\ t.state = "confirmed"
    BY <1>7, <1>8 DEF CTrade
  <1>10. PICK rs : rs = [ts EXCEPT ![n] = t]
    OBVIOUS
  <1>11. Rewrites(rs, ts, n, t)
    BY <1>10 DEF Rewrites, Tables
  <1>12. Resigned(w, ts, r) = rs
    BY <1>1, <1>2, <1>4, <1>5, <1>7, <1>8, <1>10 DEF Resigned
  <1>13. r.sig = Sig(PayerOf(w, o), o.bal)
    BY <1>2, <1>5, <1>6 DEF Sig
  <1> QED BY <1>1, <1>4, <1>5, <1>6, <1>9, <1>11, <1>12, <1>13

LEMMA SigOf ==
    \A p, q, b, c : Sig(p, b) = Sig(q, c) => p = q /\ b = c
  <1> SUFFICES ASSUME NEW p, NEW q, NEW b, NEW c, Sig(p, b) = Sig(q, c) PROVE p = q /\ b = c
    OBVIOUS
  <1>1. [payer |-> p, bal |-> b] = [payer |-> q, bal |-> c]
    BY DEF Sig
  <1>2. [payer |-> p, bal |-> b].payer = [payer |-> q, bal |-> c].payer
    BY <1>1
  <1>3. [payer |-> p, bal |-> b].bal = [payer |-> q, bal |-> c].bal
    BY <1>1
  <1> QED BY <1>2, <1>3

LEMMA TheOnly == \A x : The({x}) = x
  BY DEF The

\* The payer takes the request of a payee: its row is confirmed, and it has
\* signed none but the next one.
LEMMA RequestTaken ==
    ASSUME NEW w \in Wallets, NEW ts \in Tables, NEW us \in Tables, NEW v, NEW u, NEW b, NEW c,
           Pair(w, ts, us, v, u), Early(ts, us, v, u, b, c), Early(us, ts, u, v, c, b),
           NEW resign \in SUBSET ResignBody, resign = ResignRequest(us), resign # {},
           \A r \in resign : ResignAccepted(w, ts, r),
           NEW after \in Tables, after = TradesAfter(w, ts, resign), NEW d, d = BalanceAfter(ts, b, resign)
    PROVE  /\ AwaitsPayer(us[u]) /\ NoneSigned(us)
           /\ \E x \in {u, u + 1} : /\ Pair(w, after, us, x, u) /\ Early(after, us, x, u, d, c)
                                    /\ Booked(ts, v, b) => Booked(after, x, d)
           /\ IsConfirmed(after[u]) /\ after[u].role = "FOUNDER"
           /\ after[u].commitment = us[u].commitment /\ after[u].peer_commitment # {}
           /\ \A k \in Nonces : Signed(after[k]) => k = u + 1
           /\ \A k \in Nonces : k # u => after[k] = ts[k]
           /\ resign = {[nonce |-> u, sig |-> us[u].commitment]} /\ The(resign).nonce = u
  <1>1. /\ v \in Nonces /\ u \in Nonces /\ v \in Nat /\ u \in Nat /\ v <= u + 1 /\ u <= v + 1
        /\ us[u] \in CTrade /\ RowSigned(Other(w), us[u]) /\ Valid(us[u])
    BY PairLatest
  <1>2. /\ Line(w, ts, v) /\ Line(Other(w), us, u)
        /\ Ahead(ts, v, u) /\ Ahead(us, u, v) /\ Agree(ts, us)
    BY DEF Pair
  <1>3. PICK r : r = [nonce |-> u, sig |-> us[u].commitment]
    OBVIOUS
  <1>4. AwaitsPayer(us[u]) /\ resign = {r}
    BY <1>2, <1>3, NothingHeld
  <1>5. /\ r \in ResignBody /\ r.nonce = u /\ r.sig = us[u].commitment
        /\ The(resign) = r /\ ResignAccepted(w, ts, r)
    BY <1>3, <1>4, TheOnly
  <1>6. after = Resigned(w, ts, r) /\ d = ResignedBalance(ts, b, r)
    BY <1>4, <1>5 DEF TradesAfter, BalanceAfter
  <1>7. us[u].role = "PARTNER" /\ us[u].state = "confirming"
    BY <1>4 DEF AwaitsPayer
  <1>8. NoneSigned(us)
    BY <1>7, PayeeEarly
  <1>9. us[u].commitment # {} /\ us[u].commitment = Sig(w, us[u].bal)
    BY <1>1, <1>7, Others DEF RowSigned
  <1>10. CASE IsConfirmed(ts[u])
    <2>1. after = ts /\ d = b
      BY <1>5, <1>6, <1>10 DEF Resigned, ResignedBalance
    <2>2. Valid(ts[u]) /\ ts[u] \in CTrade
      BY <1>1, <1>10, ValidFacts, LatestFacts, NoTradeFacts
    <2>3. u <= v /\ v \in {u, u + 1}
      BY <1>1, <1>2, <2>2 DEF Line
    <2>4. ts[u].role = "FOUNDER" /\ ts[u].commitment = us[u].commitment
      BY <1>1, <1>2, <1>7, <2>2, ValidFacts DEF Agree
    <2>5. ts[u].peer_commitment = ts[u].commitment
      BY <1>1, <1>2, <1>10, <2>2, NoTradeFacts DEF Line, RowSigned
    <2>6. ASSUME NEW k \in Nonces, Signed(ts[k]) PROVE k = u + 1
      <3>1. k = v + 1 /\ ts[v].role = "FOUNDER"
        BY <2>6 DEF Early
      <3>2. ~(v > u)
        BY <1>2, <3>1 DEF Ahead, AwaitsPayer
      <3> QED BY <1>1, <2>3, <3>1, <3>2
    <2> QED BY <1>3, <1>4, <1>5, <1>8, <1>9, <1>10, <2>1, <2>3, <2>4, <2>5, <2>6
  <1>11. CASE ~IsConfirmed(ts[u])
    <2>1. PICK o \in CTrade : o = ts[u] /\ r.sig = Sig(PayerOf(w, o), o.bal)
      BY <1>1, <1>5, <1>11, ResignedRow
    <2>2. PICK t \in CTrade : /\ t.role = o.role /\ t.bal = o.bal
                              /\ t.commitment = IF o.commitment = {} THEN r.sig ELSE o.commitment
                              /\ t.peer_commitment = r.sig /\ t.state = "confirmed"
                              /\ Rewrites(after, ts, u, t)
      BY <1>1, <1>5, <1>6, <1>11, <2>1, ResignedRow
    <2>3. o.role = "FOUNDER"
      <3>1. PayerOf(w, o) = w
        BY <1>5, <1>9, <2>1, SigOf
      <3> QED BY <3>1, Others, ValidFacts DEF PayerOf
    <2>4. RowSigned(w, o)
      BY <1>1, <1>2, <2>1, NoTradeFacts DEF Line
    <2>5. o.state = "init"
      BY <1>11, <2>1, <2>3, <2>4 DEF RowSigned, CTrade, IsConfirmed
    <2>6. u = v + 1
      <3>1. ~Valid(o)
        BY <2>5 DEF Valid
      <3> QED BY <1>1, <1>2, <2>1, <3>1 DEF Line
    <2>7. t.commitment = us[u].commitment
      <3>1. CASE o.commitment = {}
        BY <1>5, <2>2, <3>1
      <3>2. CASE o.commitment # {}
        <4>1. Signed(ts[u])
          BY <2>1, <2>3, <2>5, <3>2, NoTradeFacts DEF Signed
        <4>2. us[u].commitment = ts[u].commitment
          BY <1>1, <2>6, <4>1 DEF Early
        <4> QED BY <2>1, <2>2, <3>2, <4>2
      <3> QED BY <3>1, <3>2
    <2>8. RowSigned(w, t) /\ t.role = "FOUNDER" /\ t.peer_commitment # {}
      BY <1>5, <1>9, <2>2, <2>3, <2>7 DEF RowSigned, IsConfirmed
    <2>9. Pair(w, after, us, u, u) /\ Booked(after, u, d)
      <3>1. Pair(w, after, us, u, u)
        BY <2>2, <2>6, <2>7, <2>8, PairConfirms
      <3>2. IsConfirmed(t)
        BY <2>2 DEF IsConfirmed
      <3>3. d = o.bal
        BY <1>5, <1>6, <1>11, <2>1 DEF ResignedBalance
      <3>4. \A s \in t.peer_commitment : s.bal = d
        BY <2>1, <2>2, <3>3, SigBalance
      <3>5. Booked(after, u, d)
        BY <2>2, <3>2, <3>4, BookedConfirms
      <3> QED BY <3>1, <3>5
    <2>10. after[u] = t /\ \A k \in Nonces : k # u => after[k] = ts[k]
      BY <2>2 DEF Rewrites
    <2>11. NoneSigned(after)
      <3>1. ASSUME NEW k \in Nonces, Signed(after[k]) PROVE FALSE
        <4>1. k # u
          BY <2>2, <2>10, <3>1 DEF Signed
        <4>2. Signed(ts[k])
          BY <2>10, <3>1, <4>1
        <4> QED BY <2>6, <4>1, <4>2 DEF Early
      <3> QED BY <3>1 DEF NoneSigned
    <2>12. Early(after, us, u, u, d, c)
      BY <2>11, NoneEarly
    <2>13. \A k \in Nonces : ~Signed(after[k])
      BY <2>11 DEF NoneSigned
    <2>14. IsConfirmed(after[u])
      BY <2>2, <2>10 DEF IsConfirmed
    <2> QED BY <1>3, <1>4, <1>5, <1>8, <2>7, <2>8, <2>9, <2>10, <2>12, <2>13, <2>14
  <1> QED BY <1>10, <1>11

\* A payee whose payer is not behind accepts the answer to its request, which
\* leads to the table after and the balance d.
TakesAck(w, ts, us, v, u, b, resign, after, d) ==
    /\ Pair(w, ts, us, v, u) /\ v <= u /\ Acks(ts, resign, v)
    /\ \A r \in resign : ResignAccepted(w, ts, r)
    /\ after = TradesAfter(w, ts, resign) /\ d = BalanceAfter(ts, b, resign)

\* The row it awaited its payer on is confirmed, the others stay.
LEMMA AckTaken ==
    ASSUME NEW w \in Wallets, NEW ts \in Tables, NEW us \in Tables, NEW v, NEW u, NEW b,
           NEW resign \in SUBSET ResignBody, NEW after \in Tables, NEW d,
           TakesAck(w, ts, us, v, u, b, resign, after, d)
    PROVE  /\ Pair(w, after, us, v, u) /\ Booked(after, v, d)
           /\ ts[v].role = "PARTNER" /\ after[v].role = "PARTNER" /\ IsConfirmed(after[v])
           /\ d = ts[v].bal /\ after[v].commitment = Sig(Other(w), d) /\ after[v].peer_commitment = Sig(Other(w), d)
           /\ \A j \in Nonces : j # v => after[j] = ts[j]
           /\ \A j \in Nonces : Signed(after[j]) => Signed(ts[j])
           /\ The(resign).nonce = v
  <1>1. /\ Pair(w, ts, us, v, u) /\ v <= u /\ Acks(ts, resign, v)
        /\ \A r \in resign : ResignAccepted(w, ts, r)
        /\ after = TradesAfter(w, ts, resign) /\ d = BalanceAfter(ts, b, resign)
    BY DEF TakesAck
  <1>2. /\ LatestValid(ts) = v /\ v \in Nonces /\ ts[v] \in CTrade /\ RowSigned(w, ts[v])
    BY <1>1, PairLatest
  <1>3. AwaitsPayer(ts[v])
    BY <1>1 DEF Acks
  <1>4. PICK r : r = [nonce |-> v, sig |-> ts[v].commitment]
    OBVIOUS
  <1>5. resign = {r}
    BY <1>2, <1>3, <1>4, <1>1 DEF Acks
  <1>6. /\ r \in ResignBody /\ r.nonce = v /\ r.sig = ts[v].commitment
        /\ The(resign) = r /\ ResignAccepted(w, ts, r)
    BY <1>4, <1>5, <1>1, TheOnly
  <1>7. ~IsConfirmed(ts[v]) /\ ts[v].role = "PARTNER" /\ ts[v].state = "confirming"
    BY <1>3 DEF AwaitsPayer, IsConfirmed
  <1>8. after = Resigned(w, ts, r) /\ d = ts[v].bal
    BY <1>5, <1>6, <1>7, <1>1 DEF TradesAfter, BalanceAfter, ResignedBalance
  <1>9. ts[v].commitment # {} /\ ts[v].commitment = Sig(Other(w), ts[v].bal)
    BY <1>2, <1>7 DEF RowSigned
  <1>10. PICK t \in CTrade : /\ t.role = ts[v].role /\ t.bal = ts[v].bal
                             /\ t.commitment = IF ts[v].commitment = {} THEN r.sig ELSE ts[v].commitment
                             /\ t.peer_commitment = r.sig /\ t.state = "confirmed"
                             /\ Rewrites(after, ts, v, t)
    BY <1>2, <1>6, <1>7, <1>8, ResignedRow
  <1>11. /\ t.role = "PARTNER" /\ t.commitment = ts[v].commitment /\ t.peer_commitment = ts[v].commitment
         /\ RowSigned(w, t)
    BY <1>6, <1>7, <1>9, <1>10 DEF RowSigned, IsConfirmed
  <1>12. Pair(w, after, us, v, u)
    BY <1>3, <1>10, <1>11, <1>1, PairSettles
  <1>13. after[v] = t /\ \A j \in Nonces : j # v => after[j] = ts[j]
    BY <1>10 DEF Rewrites
  <1>14. ASSUME NEW j \in Nonces, Signed(after[j]) PROVE Signed(ts[j])
    <2>1. j # v
      BY <1>11, <1>13, <1>14 DEF Signed
    <2> QED BY <1>13, <1>14, <2>1
  <1>15. IsConfirmed(after[v]) /\ IsConfirmed(t)
    BY <1>10, <1>13 DEF IsConfirmed
  <1>16. Booked(after, v, d)
    <2>1. \A s \in t.peer_commitment : s.bal = d
      BY <1>8, <1>9, <1>11, SigBalance
    <2> QED BY <1>10, <1>15, <2>1, BookedConfirms
  <1> QED BY <1>3, <1>6, <1>7, <1>8, <1>9, <1>11, <1>12, <1>13, <1>14, <1>15, <1>16

-----------------------------------------------------------------------------
(* The parts of a step.                                                    *)

LEMMA BothSwap ==
    ASSUME NEW w \in Wallets, NEW ts, NEW us, NEW b, NEW c, Both(w, ts, us, b, c)
    PROVE  Both(Other(w), us, ts, c, b)
  BY PairSwap DEF Both, Books

LEMMA BothOf ==
    ASSUME NEW w \in Wallets, NEW ts \in Tables, NEW us \in Tables, NEW v, NEW u, NEW b, NEW c,
           Pair(w, ts, us, v, u), Books(ts, us, v, u, b, c),
           Early(ts, us, v, u, b, c), Early(us, ts, u, v, c, b)
    PROVE  Both(w, ts, us, b, c)
  BY PairLatest DEF Both

\* What holds after a handler of w that writes the table rs and the balance d
\* and answers one message or none.
LEMMA HandlerAgreed ==
    ASSUME IInv, PInv, AInv, NEW w \in Wallets, NEW i \in DOMAIN net[w], NEW how, how # "crash",
           NEW rs \in Tables, NEW d, Write(w, rs, d),
           Both(w, rs, trades[Other(w)], d, balance[Other(w)]),
           NEW answers \in Seq(CMessage), Answer(w, i, how, answers), env' = env,
           answers = <<>> \/ \E a \in CMessage :
                /\ answers = <<a>>
                /\ how # "unsent" =>
                     Says(Other(w), trades[Other(w)], rs, balance[Other(w)], d, a)
    PROVE  AInv'
  <1>1. Len(answers) <= 1 /\ OneAtATime
    BY AnswersOK DEF PInv
  <1>2. /\ net'[w] = <<>> /\ net'[Other(w)] = IF how = "unsent" THEN <<>> ELSE answers
        /\ pending' = pending
    BY <1>1, AnswerOne
  <1>3. PICK o \in Wallets : o = Other(w)
    BY Others
  <1>4. o # w /\ Other(o) = w /\ \A x \in Wallets : x = w \/ x = o
    BY <1>3, Others
  <1>5. /\ trades'[w] = rs /\ trades'[o] = trades[o]
        /\ balance'[w] = d /\ balance'[o] = balance[o]
    <2>1. trades \in [Wallets -> Tables] /\ balance \in [Wallets -> CBal]
      BY DEF IInv
    <2> QED BY <1>4, <2>1 DEF Write
  <1>6. AllPaired'
    <2>1. Both(w, rs, trades[o], d, balance[o]) /\ Both(o, trades[o], rs, balance[o], d)
      BY <1>3, BothSwap
    <2>2. ASSUME NEW x \in Wallets
          PROVE  Both(x, trades'[x], trades'[Other(x)], balance'[x], balance'[Other(x)])
      <3>1. CASE x = w
        BY <1>3, <1>5, <2>1, <3>1
      <3>2. CASE x = o
        BY <1>4, <1>5, <2>1, <3>2
      <3> QED BY <1>4, <3>1, <3>2
    <2>3. Orderly' <=> Orderly
      BY DEF Orderly
    <2> QED BY <2>2, <2>3 DEF AllPaired, Both, Books
  <1>7. AllTold'
    <2>1. ASSUME NEW x \in Wallets, NEW j \in DOMAIN net'[x]
          PROVE  Says(x, trades'[x], trades'[Other(x)], balance'[x], balance'[Other(x)], net'[x][j])
      <3>1. x = o /\ how # "unsent" /\ net'[x] = answers /\ answers # <<>>
        BY <1>2, <1>3, <1>4, <2>1
      <3>2. PICK a \in CMessage : answers = <<a>> /\ Says(o, trades[o], rs, balance[o], d, a)
        BY <1>3, <3>1
      <3>3. net'[x][j] = a
        BY <2>1, <3>1, <3>2
      <3> QED BY <1>4, <1>5, <3>1, <3>2, <3>3
    <2> QED BY <2>1 DEF AllTold
  <1>8. ConsolesFresh'
    BY <1>2 DEF AInv, ConsolesFresh
  <1> QED BY <1>6, <1>7, <1>8 DEF AInv

\* What holds of the wallet that takes a message, of its peer and of the message.
Meeting(w, ts, us, v, u, b, c, m) ==
    /\ ts \in Tables /\ us \in Tables /\ v \in Nonces /\ u \in Nonces
    /\ b \in CBal /\ c \in CBal /\ m \in CMessage
    /\ Pair(w, ts, us, v, u) /\ Books(ts, us, v, u, b, c)
    /\ Early(ts, us, v, u, b, c) /\ Early(us, ts, u, v, c, b)
    /\ Says(w, ts, us, b, c, m)

LEMMA Meet ==
    ASSUME IInv, AInv, NEW w \in Wallets, NEW i \in DOMAIN net[w]
    PROVE  Meeting(w, trades[w], trades[Other(w)], LatestValid(trades[w]), LatestValid(trades[Other(w)]),
                   balance[w], balance[Other(w)], net[w][i])
  <1>1. /\ net[w][i] \in CMessage /\ trades[w] \in Tables /\ balance[w] \in CBal
    BY Taken
  <1>2. Other(w) \in Wallets /\ trades[Other(w)] \in Tables /\ balance[Other(w)] \in CBal
    BY Others DEF IInv
  <1>3. Both(w, trades[w], trades[Other(w)], balance[w], balance[Other(w)])
    BY DEF AInv, AllPaired
  <1>4. Says(w, trades[w], trades[Other(w)], balance[w], balance[Other(w)], net[w][i])
    BY DEF AInv, AllTold
  <1> QED BY <1>1, <1>2, <1>3, <1>4, LatestFacts DEF Meeting, Both

\* A payment leads from one pair of balances only to given ones.
LEMMA PaymentInjective ==
    ASSUME NEW b \in CBal, NEW c \in CBal, NEW p \in Nat, NEW payer \in Wallets,
           AfterPayment(b, payer, p) = AfterPayment(c, payer, p)
    PROVE  b = c
  <1>1. /\ b[payer] - p = c[payer] - p
        /\ b[Other(payer)] + p = c[Other(payer)] + p
    BY AfterPaymentFacts
  <1>2. b \in [Wallets -> Nat] /\ c \in [Wallets -> Nat] /\ Other(payer) \in Wallets
    BY Others DEF CBal, Balances
  <1>3. PICK x \in Nat, y \in Nat : x = b[payer] /\ y = c[payer]
    BY <1>2
  <1>4. PICK s \in Nat, t \in Nat : s = b[Other(payer)] /\ t = c[Other(payer)]
    BY <1>2
  <1>5. x = y /\ s = t
    BY <1>1, <1>3, <1>4
  <1>6. \A x1 \in Wallets : b[x1] = c[x1]
    BY <1>3, <1>4, <1>5, Others
  <1> QED BY <1>2, <1>6

-----------------------------------------------------------------------------
(* The steps, with patient users and messages in order.                     *)

\* The row a payee writes when it signs.
SignsAs(w, t, bal, sig, state) ==
    /\ t \in CTrade /\ t.role = "PARTNER" /\ t.bal = bal /\ t.commitment = sig
    /\ t.peer_commitment = {} /\ t.state = state

LEMMA PayeeRow ==
    ASSUME NEW w \in Wallets, NEW bal \in CBal, NEW t, NEW o, o = Other(w),
           SignsAs(w, t, bal, Sig(o, bal), "confirming") \/ SignsAs(w, t, bal, {}, "init")
    PROVE  /\ t \in CTrade /\ Waiting(t) /\ RowSigned(w, t) /\ ~Signed(t)
           /\ t # NoTrade /\ ~IsConfirmed(t)
  <1>1. Sig(o, bal) # {}
    BY DEF Sig
  <1> QED BY <1>1, NoTradeFacts DEF SignsAs, Waiting, RowSigned, Signed, IsConfirmed

\* The payee answers a payment whose payer asks for its signature on the last one.
LEMMA RsmcAsked ==
    ASSUME IInv, PInv, AInv, NEW w \in Wallets, NEW i \in DOMAIN net[w], NEW how \in {"sent", "unsent"},
           HandleRsmc(w, i, how), env' = env, net[w][i].role = -1, net[w][i].resign # {}
    PROVE  AInv'
  <1>1. PICK m \in CMessage : m = net[w][i] /\ m.role = -1 /\ m.resign # {}
    BY Taken
  <1>2. /\ m.nonce \in PaidNonces /\ m.payment \in Payments /\ m.bal \in CBal
        /\ m.resign \in SUBSET ResignBody /\ env.lastNonce \in 1 .. MaxNonce
    BY <1>1, Taken
  <1>3. PICK o \in Wallets : o = Other(w)
    BY Others
  <1>4. PICK ts \in Tables, us \in Tables, b \in CBal, c \in CBal :
           ts = trades[w] /\ us = trades[o] /\ b = balance[w] /\ c = balance[o]
    BY <1>3 DEF IInv
  <1>5. PICK v \in Nonces, u \in Nonces : v = LatestValid(ts) /\ u = LatestValid(us)
    BY LatestFacts
  <1>6. /\ Pair(w, ts, us, v, u) /\ Early(ts, us, v, u, b, c) /\ Early(us, ts, u, v, c, b)
        /\ Says(w, ts, us, b, c, m) /\ Books(ts, us, v, u, b, c)
    BY <1>1, <1>3, <1>4, <1>5, Meet DEF Meeting
  <1>7. Fresh(us[m.nonce]) /\ m.resign = ResignRequest(us)
    BY <1>1, <1>3, <1>6 DEF Says, PaymentSays
  <1>8. \A r \in m.resign : ResignAccepted(w, ts, r)
    BY <1>1, <1>4 DEF HandleRsmc
  <1>9. PICK after \in Tables, d \in CBal :
           after = TradesAfter(w, ts, m.resign) /\ d = BalanceAfter(ts, b, m.resign)
    BY <1>2, <1>8, Constants, ResignOK
  <1>10. /\ AwaitsPayer(us[u]) /\ NoneSigned(us)
         /\ \E x \in {u, u + 1} : /\ Pair(w, after, us, x, u) /\ Early(after, us, x, u, d, c)
                                  /\ Booked(ts, v, b) => Booked(after, x, d)
         /\ IsConfirmed(after[u]) /\ after[u].role = "FOUNDER"
         /\ after[u].commitment = us[u].commitment /\ after[u].peer_commitment # {}
         /\ \A k \in Nonces : Signed(after[k]) => k = u + 1
         /\ m.resign = {[nonce |-> u, sig |-> us[u].commitment]} /\ The(m.resign).nonce = u
    BY <1>1, <1>2, <1>6, <1>7, <1>8, <1>9, RequestTaken
  <1>11. PICK x \in Nonces : /\ x \in {u, u + 1} /\ Pair(w, after, us, x, u) /\ Early(after, us, x, u, d, c)
                            /\ Books(after, us, x, u, d, c)
    <2>1. PICK x \in {u, u + 1} : /\ Pair(w, after, us, x, u) /\ Early(after, us, x, u, d, c)
                                  /\ Booked(ts, v, b) => Booked(after, x, d)
      BY <1>10
    <2>2. x \in Nonces
      BY <2>1, PairLatest
    <2>3. Books(after, us, x, u, d, c)
      BY <1>6, <2>1, BooksStep
    <2> QED BY <2>1, <2>2, <2>3
  <1>12. PICK n : n = 1 + The(m.resign).nonce
    OBVIOUS
  <1>13. n = u + 1 /\ n \in PaidNonces /\ n \in Nonces
    <2>1. n <= env.lastNonce
      BY <1>1, <1>4, <1>12 DEF HandleRsmc
    <2> QED BY <1>2, <1>10, <1>12, <2>1, Interval
  <1>14. PICK own \in SUBSET Commitment : own = {[payer |-> o, bal |-> m.bal]} /\ own = Sig(o, m.bal)
    BY <1>2, SignedOK DEF Sig
  <1>15. PICK state \in {"init", "confirming", "confirmed"} : state = "confirming"
    OBVIOUS
  <1>16. PICK t : t = [UnsignedTrade("PARTNER", m.bal) EXCEPT !.commitment = own, !.state = state]
    OBVIOUS
  <1>17. SignsAs(w, t, m.bal, Sig(o, m.bal), "confirming")
    BY <1>2, <1>14, <1>15, <1>16 DEF UnsignedTrade, CTrade, SignsAs
  <1>18. t \in CTrade /\ Waiting(t) /\ RowSigned(w, t) /\ ~Signed(t) /\ t.role = "PARTNER"
         /\ t.state = "confirming" /\ t.bal = m.bal /\ t.commitment = own
    BY <1>2, <1>3, <1>14, <1>17, PayeeRow DEF SignsAs
  <1>19. PICK ack \in SUBSET ResignBody : ack = AckAfter(after, m.resign)
    BY <1>2, <1>8, <1>9, Constants, ResignOK
  <1>20. ack = {[nonce |-> u, sig |-> us[u].commitment]}
    BY <1>1, <1>10, <1>19, TheOnly DEF AckAfter, ResignAck, IsConfirmed
  <1>21. PICK a : a = [role |-> 0, nonce |-> m.nonce, nego |-> {n} \ {m.nonce}, payment |-> m.payment,
                       bal |-> m.bal, sig |-> own, resign |-> ack]
    OBVIOUS
  <1>22. /\ a \in CMessage /\ a.role = 0 /\ a.nonce = m.nonce /\ a.nego = {n} \ {m.nonce} /\ a.bal = m.bal
         /\ a.sig = own /\ a.resign = ack /\ a.payment = m.payment
    BY <1>2, <1>13, <1>21 DEF CMessage
  <1>23. Agreed(a) = n
    <2>1. n # m.nonce => a.nego = {n}
      BY <1>22
    <2>2. n = m.nonce => a.nego = {}
      BY <1>22
    <2> QED BY <1>22, <2>1, <2>2, TheOnly DEF Agreed
  <1>24. PICK answers \in Seq(CMessage), none \in Seq(CMessage) : answers = <<a>> /\ none = <<>>
    BY <1>22, AnswersOK
  <1>25. PICK row : row = [after EXCEPT ![n] = t]
    OBVIOUS
  <1>26. row \in Tables /\ Rewrites(row, after, n, t)
    BY <1>13, <1>18, <1>25, Constants, RowOK DEF Tables, Rewrites
  <1>27. Both(w, after, us, d, c)
    <2>1. Early(us, after, u, x, c, d)
      BY <1>10, NoneEarly
    <2> QED BY <1>11, <2>1, BothOf
  <1>28. Pair(w, row, us, n, u) /\ Both(w, row, us, d, c) /\ NoneSigned(row)
    <2>1. n = x \/ n = x + 1
      BY <1>11, <1>13
    <2>2. Pair(w, row, us, n, u)
      BY <1>10, <1>11, <1>13, <1>18, <1>26, <2>1, PairSigns
    <2>3. NoneSigned(row)
      <3>1. ASSUME NEW k \in Nonces, Signed(row[k]) PROVE FALSE
        <4>1. k # n
          BY <1>18, <1>26, <3>1 DEF Rewrites
        <4> QED BY <1>10, <1>13, <1>26, <3>1, <4>1 DEF Rewrites
      <3> QED BY <3>1 DEF NoneSigned
    <2>4. Early(row, us, n, u, d, c) /\ Early(us, row, u, n, c, d)
      BY <1>10, <2>3, NoneEarly
    <2>5. Books(row, us, n, u, d, c)
      <3>1. ~IsConfirmed(t)
        BY <1>18 DEF IsConfirmed
      <3>2. (n = x /\ ~IsConfirmed(after[x])) \/ (u = x /\ IsConfirmed(after[x]))
        <4>1. CASE x = u
          BY <1>10, <4>1
        <4>2. CASE x = u + 1
          <5>1. AwaitsPayer(after[x])
            BY <1>11, <1>13, <4>2, Interval DEF Pair, Ahead
          <5>2. n = x
            BY <1>13, <4>2
          <5> QED BY <5>1, <5>2 DEF AwaitsPayer, IsConfirmed
        <4> QED BY <1>11, <4>1, <4>2
      <3>3. Booked(after, x, d) => Booked(row, n, d)
        BY <1>13, <1>26, <3>1, <3>2, BookedSigns
      <3> QED BY <1>11, <3>3, BooksStep
    <2> QED BY <1>26, <2>2, <2>3, <2>4, <2>5, BothOf
  <1>29. CASE Answer(w, i, how, none) /\ Write(w, after, d)
    BY <1>3, <1>4, <1>24, <1>27, <1>29, HandlerAgreed
  <1>30. PICK table \in Tables : table = IF how = "sent" THEN row ELSE after
    BY <1>26
  <1>31. CASE Matches(d, o, m.payment, m.bal) /\ Answer(w, i, how, answers) /\ Write(w, table, d)
    <2>1. Both(w, table, us, d, c)
      BY <1>27, <1>28, <1>30
    <2>2. Says(o, us, row, c, d, a)
      <3>1. row[n] = t /\ LatestValid(row) = n /\ LatestValid(us) = u
        BY <1>5, <1>26, <1>28, PairLatest DEF Rewrites
      <3>2. Acks(us, ack, n - 1)
        <4>1. n - 1 = u
          BY <1>13, Interval
        <4> QED BY <1>10, <1>20, <3>1, <4>1 DEF Acks
      <3>3. own # {}
        BY <1>14
      <3>4. AnswerSays(o, us, row, c, d, a)
        BY <1>7, <1>18, <1>22, <1>23, <1>31, <3>1, <3>2, <3>3 DEF AnswerSays
      <3> QED BY <1>22, <3>4 DEF Says
    <2>3. how # "unsent" => Says(o, us, table, c, d, a)
      BY <1>30, <2>2
    <2> QED BY <1>3, <1>4, <1>22, <1>24, <1>31, <2>1, <2>3, HandlerAgreed
  <1>32. \/ Answer(w, i, how, none) /\ Write(w, after, d)
         \/ Matches(d, o, m.payment, m.bal) /\ Answer(w, i, how, answers) /\ Write(w, table, d)
    BY <1>1, <1>3, <1>4, <1>9, <1>12, <1>14, <1>15, <1>16, <1>19, <1>21, <1>24, <1>25, <1>30
       DEF HandleRsmc
  <1> QED BY <1>29, <1>31, <1>32

\* The payee answers a payment whose payer asks for nothing: it signs, or asks
\* for the payer's signature on the last one.
LEMMA RsmcUnasked ==
    ASSUME IInv, PInv, AInv, NEW w \in Wallets, NEW i \in DOMAIN net[w], NEW how \in {"sent", "unsent"},
           HandleRsmc(w, i, how), env' = env, net[w][i].role = -1, net[w][i].resign = {}
    PROVE  AInv'
  <1>1. PICK m \in CMessage : m = net[w][i] /\ m.role = -1 /\ m.resign = {}
    BY Taken
  <1>2. /\ m.nonce \in PaidNonces /\ m.payment \in Payments /\ m.payment \in Nat /\ m.bal \in CBal
        /\ env.lastNonce \in 1 .. MaxNonce
    BY <1>1, Taken
  <1>3. PICK o \in Wallets : o = Other(w)
    BY Others
  <1>4. PICK ts \in Tables, us \in Tables, b \in CBal, c \in CBal :
           ts = trades[w] /\ us = trades[o] /\ b = balance[w] /\ c = balance[o]
    BY <1>3 DEF IInv
  <1>5. PICK v \in Nonces, u \in Nonces : v = LatestValid(ts) /\ u = LatestValid(us)
    BY LatestFacts
  <1>6. /\ Pair(w, ts, us, v, u) /\ Early(ts, us, v, u, b, c) /\ Early(us, ts, u, v, c, b)
        /\ Says(w, ts, us, b, c, m) /\ Books(ts, us, v, u, b, c)
    BY <1>1, <1>3, <1>4, <1>5, Meet DEF Meeting
  <1>7. Fresh(us[m.nonce]) /\ {} = ResignRequest(us) /\ m.bal = AfterPayment(c, o, m.payment)
    BY <1>1, <1>3, <1>6 DEF Says, PaymentSays
  <1>8. /\ Line(w, ts, v) /\ Line(o, us, u) /\ Ahead(ts, v, u) /\ Ahead(us, u, v)
    BY <1>3, <1>6 DEF Pair
  <1>9. ~AwaitsPayer(us[u])
    BY <1>7, <1>8, NothingHeld
  <1>10. u <= v /\ v \in Nat /\ u \in Nat
    BY <1>8, <1>9, Interval DEF Ahead
  <1>11. PICK request \in SUBSET ResignBody : request = ResignRequest(ts)
    BY ResignRequestOK
  <1>12. PICK n : n = 1 + LatestValid(ts)
    OBVIOUS
  <1>13. n = v + 1 /\ n \in PaidNonces /\ n \in Nonces /\ n > v
    <2>1. n <= env.lastNonce
      BY <1>1, <1>4, <1>12 DEF HandleRsmc
    <2> QED BY <1>2, <1>5, <1>12, <2>1, Interval
  <1>14. PICK own \in SUBSET Commitment :
            own = IF request = {} THEN {[payer |-> o, bal |-> m.bal]} ELSE {}
    BY <1>2, SignedOK
  <1>15. PICK state \in {"init", "confirming", "confirmed"} :
            state = IF request = {} THEN "confirming" ELSE "init"
    OBVIOUS
  <1>16. PICK t : t = [UnsignedTrade("PARTNER", m.bal) EXCEPT !.commitment = own, !.state = state]
    OBVIOUS
  <1>17. SignsAs(w, t, m.bal, own, state)
    BY <1>2, <1>16 DEF UnsignedTrade, CTrade, SignsAs
  <1>18. t \in CTrade /\ Waiting(t) /\ RowSigned(w, t) /\ ~Signed(t) /\ t.role = "PARTNER"
         /\ t.state = state /\ t.bal = m.bal /\ t.commitment = own
    <2>1. CASE request = {}
      <3>1. own = Sig(o, m.bal) /\ state = "confirming"
        BY <1>14, <1>15, <2>1 DEF Sig
      <3> QED BY <1>2, <1>3, <1>17, <3>1, PayeeRow DEF SignsAs
    <2>2. CASE request # {}
      <3>1. own = {} /\ state = "init"
        BY <1>14, <1>15, <2>2
      <3> QED BY <1>2, <1>3, <1>17, <3>1, PayeeRow DEF SignsAs
    <2> QED BY <2>1, <2>2
  <1>19. PICK a : a = [role |-> 0, nonce |-> m.nonce, nego |-> {n} \ {m.nonce}, payment |-> m.payment,
                       bal |-> m.bal, sig |-> own, resign |-> request]
    OBVIOUS
  <1>20. /\ a \in CMessage /\ a.role = 0 /\ a.nonce = m.nonce /\ a.nego = {n} \ {m.nonce} /\ a.bal = m.bal
         /\ a.sig = own /\ a.resign = request /\ a.payment = m.payment
    BY <1>2, <1>13, <1>19 DEF CMessage
  <1>21. Agreed(a) = n
    <2>1. n # m.nonce => a.nego = {n}
      BY <1>20
    <2>2. n = m.nonce => a.nego = {}
      BY <1>20
    <2> QED BY <1>20, <2>1, <2>2, TheOnly DEF Agreed
  <1>22. PICK answers \in Seq(CMessage), none \in Seq(CMessage) : answers = <<a>> /\ none = <<>>
    BY <1>20, AnswersOK
  <1>23. PICK row : row = [ts EXCEPT ![n] = t]
    OBVIOUS
  <1>24. row \in Tables /\ Rewrites(row, ts, n, t) /\ row[n] = t
    BY <1>13, <1>18, <1>23, Constants, RowOK DEF Tables, Rewrites
  <1>25. Both(w, ts, us, b, c)
    BY <1>6, BothOf
  <1>26. CASE Answer(w, i, how, none) /\ Write(w, ts, b)
    BY <1>3, <1>4, <1>22, <1>25, <1>26, HandlerAgreed
  <1>27. PICK table \in Tables : table = IF how = "sent" THEN row ELSE ts
    BY <1>24
  <1>28. CASE /\ request = {} => Matches(b, o, m.payment, m.bal)
              /\ Answer(w, i, how, answers) /\ Write(w, table, b)
    <2>1. CASE request = {}
      <3>1. ~AwaitsPayer(ts[v]) /\ IsConfirmed(ts[v])
        <4>1. ~AwaitsPayer(ts[v])
          BY <1>8, <1>11, <2>1, NothingHeld
        <4> QED BY <1>8, <4>1, LastConfirmed
      <3>2. v = u
        BY <1>8, <1>10, <3>1 DEF Ahead
      <3>3. b = c
        BY <1>2, <1>7, <1>28, <2>1, PaymentInjective DEF Matches
      <3>4. NoneSigned(us)
        BY <1>6, <1>10, <3>1, <3>2, <3>3 DEF NoneSigned, Early
      <3>5. Pair(w, row, us, n, u)
        BY <1>6, <1>13, <1>15, <1>18, <1>24, <2>1, <3>1, <3>2, PairSigns
      <3>6. NoneSigned(row)
        <4>1. ASSUME NEW k \in Nonces, Signed(row[k]) PROVE FALSE
          <5>1. k # n
            BY <1>18, <1>24, <4>1 DEF Rewrites
          <5> QED BY <1>6, <1>13, <1>24, <4>1, <5>1 DEF Rewrites, Early
        <4> QED BY <4>1 DEF NoneSigned
      <3>7. Both(w, row, us, b, c)
        <4>1. Early(row, us, n, u, b, c) /\ Early(us, row, u, n, c, b)
          BY <3>4, <3>6, NoneEarly
        <4>2. ~IsConfirmed(t)
          BY <1>15, <1>18, <2>1 DEF IsConfirmed
        <4>3. Booked(ts, v, b) => Booked(row, n, b)
          BY <1>13, <1>24, <3>1, <3>2, <4>2, BookedSigns
        <4>4. Books(row, us, n, u, b, c)
          BY <1>6, <4>3, BooksStep
        <4> QED BY <1>24, <3>5, <4>1, <4>4, BothOf
      <3>8. Says(o, us, row, c, b, a)
        <4>1. LatestValid(row) = n
          BY <1>24, <3>5, PairLatest
        <4>2. own # {}
          BY <1>14, <2>1
        <4>3. AnswerSays(o, us, row, c, b, a)
          BY <1>7, <1>18, <1>20, <1>21, <1>24, <1>28, <2>1, <4>1, <4>2 DEF AnswerSays
        <4> QED BY <1>20, <4>3 DEF Says
      <3>9. Both(w, table, us, b, c) /\ (how # "unsent" => Says(o, us, table, c, b, a))
        BY <1>25, <1>27, <3>7, <3>8
      <3> QED BY <1>3, <1>4, <1>20, <1>22, <1>28, <3>9, HandlerAgreed
    <2>2. CASE request # {}
      <3>1. AwaitsPayer(ts[v])
        BY <1>8, <1>11, <2>2, NothingHeld
      <3>2. t.state = "init"
        BY <1>15, <1>18, <2>2
      <3>3. Pair(w, row, us, v, u)
        BY <1>6, <1>13, <1>18, <1>24, <3>2, PairBeyond
      <3>4. Early(row, us, v, u, b, c) /\ Early(us, row, u, v, c, b)
        BY <1>6, <1>13, <1>18, <1>24, EarlyBeyond
      <3>5. Both(w, row, us, b, c)
        <4>1. Booked(ts, v, b) => Booked(row, v, b)
          BY <1>8, <1>13, <1>24, BookedBeyond
        <4>2. Books(row, us, v, u, b, c)
          BY <1>6, <4>1, BooksStep
        <4> QED BY <1>24, <3>3, <3>4, <4>2, BothOf
      <3>6. Says(o, us, row, c, b, a)
        <4>1. LatestValid(row) = v
          BY <1>24, <3>3, PairLatest
        <4>2. ResignRequest(row) = request
          <5>1. row[v] = ts[v]
            <6>1. v # n
              BY <1>10, <1>13
            <6> QED BY <1>24, <6>1 DEF Rewrites
          <5> QED BY <1>5, <1>11, <4>1, <5>1 DEF ResignRequest
        <4>3. own = {}
          BY <1>14, <2>2
        <4>4. AnswerSays(o, us, row, c, b, a)
          BY <1>7, <1>13, <1>18, <1>20, <1>21, <1>24, <2>2, <4>1, <4>2, <4>3 DEF AnswerSays
        <4> QED BY <1>20, <4>4 DEF Says
      <3>7. Both(w, table, us, b, c) /\ (how # "unsent" => Says(o, us, table, c, b, a))
        BY <1>25, <1>27, <3>5, <3>6
      <3> QED BY <1>3, <1>4, <1>20, <1>22, <1>28, <3>7, HandlerAgreed
    <2> QED BY <2>1, <2>2
  <1>29. SettleHeld(ts) = ts /\ BalanceAfter(ts, b, m.resign) = b
    BY <1>1, <1>8, NothingHeld DEF BalanceAfter
  <1>30. \/ Answer(w, i, how, none) /\ Write(w, ts, b)
         \/ /\ request = {} => Matches(b, o, m.payment, m.bal)
            /\ Answer(w, i, how, answers) /\ Write(w, table, b)
    BY <1>1, <1>3, <1>4, <1>11, <1>12, <1>14, <1>15, <1>16, <1>19, <1>22, <1>23, <1>27, <1>29
       DEF HandleRsmc
  <1> QED BY <1>26, <1>28, <1>30

\* What renegotiating a nonce leaves of the payer's table: a new row beyond the
\* valid ones, which no one has signed.
LEMMA RenegotiatedBeyond ==
    ASSUME NEW w \in Wallets, NEW ts \in Tables, NEW us \in Tables, NEW v, NEW u, NEW b, NEW c,
           Pair(w, ts, us, v, u), Early(ts, us, v, u, b, c), Early(us, ts, u, v, c, b),
           NEW own \in PaidNonces, NEW n \in PaidNonces, n = v + 1, NEW bal \in CBal,
           NEW rs, rs = Renegotiated(ts, own, n, bal)
    PROVE  /\ rs \in Tables /\ Pair(w, rs, us, v, u)
           /\ Early(rs, us, v, u, b, c) /\ Early(us, rs, u, v, c, b)
           /\ Booked(ts, v, b) => Booked(rs, v, b)
           /\ n = own => rs[n] = ts[n]
           /\ n # own => Fresh(rs[n])
           /\ \A k \in Nonces : k <= v => rs[k] = ts[k]
           /\ \A k \in Nonces : Signed(rs[k]) => Signed(ts[k])
  <1> DEFINE Goal == /\ rs \in Tables /\ Pair(w, rs, us, v, u)
                     /\ Early(rs, us, v, u, b, c) /\ Early(us, rs, u, v, c, b)
                     /\ n = own => rs[n] = ts[n]
                     /\ n # own => Fresh(rs[n])
                     /\ \A k \in Nonces : k <= v => rs[k] = ts[k]
                     /\ \A k \in Nonces : Signed(rs[k]) => Signed(ts[k])
  <1>1. v \in Nonces /\ v \in Nat /\ n \in Nonces /\ own \in Nonces /\ n > v
    BY PairLatest, Constants
  <1>2. ASSUME n = own PROVE Goal
    BY <1>2 DEF Renegotiated
  <1>3. ASSUME n # own PROVE Goal
    <2>1. PICK t \in CTrade : t = UnsignedTrade("FOUNDER", bal)
      BY UnsignedOK
    <2>2. /\ t.role = "FOUNDER" /\ t.state = "init" /\ t.commitment = {} /\ t.peer_commitment = {}
      BY <2>1 DEF UnsignedTrade
    <2>3. Fresh(t) /\ ~Signed(t) /\ RowSigned(w, t)
      BY <2>2 DEF Fresh, Signed, RowSigned, IsConfirmed
    <2>4. PICK one : one = [ts EXCEPT ![n] = t]
      OBVIOUS
    <2>5. one \in Tables /\ Rewrites(one, ts, n, t)
      BY <1>1, <2>1, <2>4, RowOK, Constants DEF Tables, Rewrites
    <2>6. Pair(w, one, us, v, u)
      BY <1>1, <2>2, <2>3, <2>5, PairBeyond
    <2>7. Early(one, us, v, u, b, c) /\ Early(us, one, u, v, c, b)
      BY <1>1, <2>3, <2>5, EarlyBeyond
    <2>8. /\ \A k \in Nonces : k <= v => one[k] = ts[k]
          /\ \A k \in Nonces : Signed(one[k]) => Signed(ts[k])
      BY <1>1, <2>3, <2>5 DEF Rewrites
    <2>9. CASE n < own
      <3>1. PICK two : two = [one EXCEPT ![own] = NoTrade]
        OBVIOUS
      <3>2. two \in Tables /\ Rewrites(two, one, own, NoTrade) /\ own > v /\ ~Signed(NoTrade)
        BY <1>1, <2>5, <2>9, <3>1, RowOK, Constants DEF Tables, Rewrites, Signed, Nonces
      <3>3. Pair(w, two, us, v, u)
        BY <1>1, <2>5, <2>6, <3>2, PairBeyond
      <3>4. Early(two, us, v, u, b, c) /\ Early(us, two, u, v, c, b)
        BY <1>1, <2>7, <3>2, EarlyBeyond
      <3>5. rs = two
        <4>1. rs = [ts EXCEPT ![n] = t, ![own] = NoTrade]
          BY <1>3, <2>1, <2>9 DEF Renegotiated
        <4> QED BY <2>4, <3>1, <4>1
      <3>6. Fresh(two[n])
        BY <1>1, <1>3, <2>3, <2>5, <3>2 DEF Rewrites
      <3>7. /\ \A k \in Nonces : k <= v => two[k] = ts[k]
            /\ \A k \in Nonces : Signed(two[k]) => Signed(ts[k])
        <4>1. \A k \in Nonces : k = own \/ two[k] = one[k]
          BY <3>2 DEF Rewrites
        <4>2. two[own] = NoTrade
          BY <3>2 DEF Rewrites
        <4>3. \A k \in Nonces : k <= v => k # own
          BY <1>1, <3>2, Interval
        <4> QED BY <2>8, <3>2, <4>1, <4>2, <4>3
      <3> QED BY <1>3, <3>2, <3>3, <3>4, <3>5, <3>6, <3>7
    <2>10. CASE ~(n < own)
      <3>1. rs = one
        <4>1. rs = [ts EXCEPT ![n] = t, ![own] = ts[own]]
          BY <1>3, <2>1, <2>10 DEF Renegotiated
        <4>2. ts \in [Nonces -> CTrade \cup {NoTrade}]
          BY DEF Tables
        <4> QED BY <1>1, <1>3, <2>4, <4>1, <4>2
      <3>2. Fresh(one[n])
        BY <2>3, <2>5 DEF Rewrites
      <3> QED BY <1>3, <2>5, <2>6, <2>7, <2>8, <3>1, <3>2
    <2> QED BY <2>9, <2>10
  <1>4. Booked(ts, v, b) => Booked(rs, v, b)
    <2>1. \A k \in Nonces : k <= v => rs[k] = ts[k]
      BY <1>2, <1>3
    <2>2. Line(w, ts, v)
      BY DEF Pair
    <2>3. ~IsConfirmed(ts[v]) => v - 1 \in Nonces
      BY <2>2, LastConfirmed DEF Line
    <2>4. rs[v] = ts[v] /\ (~IsConfirmed(ts[v]) => rs[v - 1] = ts[v - 1])
      BY <1>1, <2>1, <2>3
    <2> QED BY <2>4 DEF Booked
  <1> QED BY <1>2, <1>3, <1>4

\* What a payer writes that signs, and that confirms too.
RowSignedWith(ts, n, own) == [ts EXCEPT ![n].commitment = own]

LEMMA PaymentSigned ==
    ASSUME NEW w \in Wallets, NEW ts \in Tables, NEW n \in PaidNonces, NEW sig \in SUBSET Commitment,
           ts[n] \in CTrade, ts[n].role = "FOUNDER", ts[n].state = "init",
           NEW own \in SUBSET Commitment, own # {},
           NEW signed, signed = RowSignedWith(ts, n, own),
           NEW confirmed, confirmed = Confirm(signed, n, sig)
    PROVE  /\ signed \in Tables /\ confirmed \in Tables
           /\ Signed(signed[n]) /\ signed[n].commitment = own /\ signed[n] \in CTrade
           /\ signed[n].peer_commitment = ts[n].peer_commitment
           /\ Rewrites(signed, ts, n, signed[n])
           /\ \E t \in CTrade : /\ t.role = "FOUNDER" /\ t.commitment = own
                                /\ t.peer_commitment = sig /\ t.state = "confirmed"
                                /\ Rewrites(confirmed, ts, n, t)
  <1>1. n \in Nonces /\ n # 1
    BY Constants
  <1>2. PICK o \in CTrade : o = ts[n]
    OBVIOUS
  <1>3. PICK s : s = [o EXCEPT !.commitment = own]
    OBVIOUS
  <1>4. s \in CTrade /\ s.role = "FOUNDER" /\ s.state = "init" /\ s.commitment = own
        /\ s.peer_commitment = o.peer_commitment
    BY <1>2, <1>3 DEF CTrade
  <1>5. PICK rs : rs = [ts EXCEPT ![n] = s]
    OBVIOUS
  <1>6. rs \in Tables /\ Rewrites(rs, ts, n, s) /\ rs[n] = s
    BY <1>1, <1>4, <1>5, RowOK DEF Tables, Rewrites
  <1>7. signed = rs
    BY <1>2, <1>3, <1>5 DEF RowSignedWith
  <1>8. Signed(s)
    BY <1>4, NoTradeFacts DEF Signed
  <1>9. rs[n] # NoTrade
    BY <1>4, <1>6, NoTradeFacts
  <1>10. Confirm(rs, n, sig) \in Tables
    BY <1>1, <1>6, <1>9, ConfirmRow
  <1>11. PICK t \in CTrade : /\ t.role = rs[n].role /\ t.commitment = rs[n].commitment
                             /\ t.peer_commitment = sig /\ t.state = "confirmed"
                             /\ Rewrites(Confirm(rs, n, sig), rs, n, t)
    BY <1>1, <1>6, <1>9, ConfirmRow
  <1>12. Rewrites(confirmed, ts, n, t)
    BY <1>6, <1>7, <1>11 DEF Rewrites
  <1> QED BY <1>2, <1>4, <1>6, <1>7, <1>8, <1>10, <1>11, <1>12

\* The payer takes the answer of a payee that has not signed: it confirms the
\* row the payee asks for, signs the next one and sends its signature on the
\* first.
LEMMA AnswerUnsigned ==
    ASSUME IInv, PInv, AInv, NEW w \in Wallets, NEW i \in DOMAIN net[w], NEW how \in {"sent", "unsent"},
           HandlePartnerResponse(w, i, how), env' = env, net[w][i].role = 0, net[w][i].sig = {}
    PROVE  AInv'
  <1>1. PICK m \in CMessage : m = net[w][i] /\ m.role = 0 /\ m.sig = {}
    BY Taken
  <1>2. /\ m.nonce \in PaidNonces /\ m.nego \in SUBSET PaidNonces /\ m.payment \in Payments
        /\ m.payment \in Nat /\ m.bal \in CBal /\ m.resign \in SUBSET ResignBody
    BY <1>1, Taken
  <1>3. PICK o \in Wallets : o = Other(w)
    BY Others
  <1>4. PICK ts \in Tables, us \in Tables, b \in CBal, c \in CBal :
           ts = trades[w] /\ us = trades[o] /\ b = balance[w] /\ c = balance[o]
    BY <1>3 DEF IInv
  <1>5. PICK v \in Nonces, u \in Nonces : v = LatestValid(ts) /\ u = LatestValid(us)
    BY LatestFacts
  <1>6. /\ Pair(w, ts, us, v, u) /\ Early(ts, us, v, u, b, c) /\ Early(us, ts, u, v, c, b)
        /\ Says(w, ts, us, b, c, m) /\ Books(ts, us, v, u, b, c)
    BY <1>1, <1>3, <1>4, <1>5, Meet DEF Meeting
  <1>7. PICK n \in PaidNonces : n = IF m.nego = {} THEN m.nonce ELSE The(m.nego)
    BY <1>2, TheOK
  <1>8. /\ Waiting(us[n]) /\ n = u + 1 /\ m.resign = ResignRequest(us) /\ m.resign # {}
        /\ Fresh(ts[m.nonce])
    <2>1. Agreed(m) = n
      BY <1>7 DEF Agreed
    <2> QED BY <1>1, <1>5, <1>6, <2>1 DEF Says, AnswerSays
  <1>9. \A r \in m.resign : ResignAccepted(w, ts, r)
    BY <1>1, <1>4 DEF HandlePartnerResponse
  <1>10. PICK after \in Tables, d \in CBal :
            after = TradesAfter(w, ts, m.resign) /\ d = BalanceAfter(ts, b, m.resign)
    BY <1>2, <1>9, Constants, ResignOK
  <1>11. /\ AwaitsPayer(us[u]) /\ NoneSigned(us)
         /\ \E x \in {u, u + 1} : /\ Pair(w, after, us, x, u) /\ Early(after, us, x, u, d, c)
                                  /\ Booked(ts, v, b) => Booked(after, x, d)
         /\ IsConfirmed(after[u]) /\ after[u].role = "FOUNDER"
         /\ after[u].commitment = us[u].commitment /\ after[u].peer_commitment # {}
         /\ \A k \in Nonces : Signed(after[k]) => k = u + 1
         /\ \A k \in Nonces : k # u => after[k] = ts[k]
         /\ m.resign = {[nonce |-> u, sig |-> us[u].commitment]} /\ The(m.resign).nonce = u
    BY <1>2, <1>6, <1>8, <1>9, <1>10, RequestTaken
  <1>12. PICK x \in Nonces : /\ x \in {u, u + 1} /\ Pair(w, after, us, x, u) /\ Early(after, us, x, u, d, c)
                             /\ Books(after, us, x, u, d, c) /\ x = LatestValid(after)
    <2>1. PICK x \in {u, u + 1} : /\ Pair(w, after, us, x, u) /\ Early(after, us, x, u, d, c)
                                  /\ Booked(ts, v, b) => Booked(after, x, d)
      BY <1>11
    <2>2. x \in Nonces /\ x = LatestValid(after)
      BY <2>1, PairLatest
    <2>3. Books(after, us, x, u, d, c)
      BY <1>6, <2>1, BooksStep
    <2> QED BY <2>1, <2>2, <2>3
  <1>13. u \in Nat /\ n \in Nonces /\ u # n /\ n > u /\ m.nonce \in Nonces
    BY <1>2, <1>8, Interval
  <1>14. PICK none \in Seq(CMessage) : none = <<>>
    BY AnswersOK
  <1>15. Early(us, after, u, x, c, d)
    BY <1>11, NoneEarly
  <1>16. Both(w, after, us, d, c)
    BY <1>12, <1>15, BothOf
  <1>17. CASE Answer(w, i, how, none) /\ Write(w, after, d)
    BY <1>3, <1>4, <1>14, <1>16, <1>17, HandlerAgreed
  <1>18. PICK bases \in SUBSET CBal : bases = ResignedBalances(after, m.resign)
    <2>1. \A r \in m.resign : after[r.nonce].bal \in CBal
      BY <1>2, <1>9, <1>10, Constants, ResignOK DEF CTrade
    <2> QED BY <2>1 DEF ResignedBalances
  <1>19. CASE (\E y \in bases : ~CanPay(y, w, m.payment)) \/ ~NonceAgrees(after, n)
    <2>1. Answer(w, i, how, none) /\ Write(w, after, d)
      BY <1>1, <1>4, <1>7, <1>10, <1>14, <1>18, <1>19 DEF HandlePartnerResponse
    <2> QED BY <1>17, <2>1
  <1>20. CASE ~((\E y \in bases : ~CanPay(y, w, m.payment)) \/ ~NonceAgrees(after, n))
    <2>1. x = u
      BY <1>8, <1>12, <1>13, <1>20, Interval DEF NonceAgrees
    <2>2. PICK bal \in CBal : bal = IF bases = {} THEN m.bal
                                    ELSE AfterPayment(The(bases), w, m.payment)
      <3>1. CASE bases = {}
        BY <1>2, <3>1
      <3>2. CASE bases # {}
        <4>1. PICK y \in bases : y = The(bases)
          BY <3>2, TheOK
        <4>2. y \in CBal /\ CanPay(y, w, m.payment)
          BY <1>20
        <4>3. AfterPayment(y, w, m.payment) \in CBal
          BY <1>2, <4>2, AfterPaymentFacts
        <4> QED BY <3>2, <4>1, <4>3
      <3> QED BY <3>1, <3>2
    <2>3. PICK mine \in PaidNonces : mine = m.nonce
      BY <1>2
    <2>4. PICK table : table = Renegotiated(after, mine, n, bal)
      OBVIOUS
    <2>5. /\ Pair(w, after, us, u, u) /\ Early(after, us, u, u, d, c) /\ Early(us, after, u, u, c, d)
          /\ n = u + 1
      BY <1>8, <1>12, <1>15, <2>1
    <2>6. /\ table \in Tables /\ Pair(w, table, us, u, u)
          /\ Early(table, us, u, u, d, c) /\ Early(us, table, u, u, c, d)
          /\ Booked(after, u, d) => Booked(table, u, d)
          /\ n = mine => table[n] = after[n]
          /\ n # mine => Fresh(table[n])
          /\ \A k \in Nonces : k <= u => table[k] = after[k]
          /\ \A k \in Nonces : Signed(table[k]) => Signed(after[k])
      BY <2>4, <2>5, RenegotiatedBeyond
    <2>7. /\ table \in Tables /\ Pair(w, table, us, u, u)
          /\ Early(table, us, u, u, d, c) /\ Early(us, table, u, u, c, d)
          /\ Booked(after, u, d) => Booked(table, u, d)
          /\ n = m.nonce => table[n] = after[n]
          /\ n # m.nonce => Fresh(table[n])
          /\ \A k \in Nonces : k <= u => table[k] = after[k]
          /\ \A k \in Nonces : Signed(table[k]) => Signed(after[k])
      BY <2>3, <2>6
    <2>8. Books(table, us, u, u, d, c)
      BY <1>12, <2>1, <2>7, BooksStep
    <2>9. Both(w, table, us, d, c)
      BY <2>7, <2>8, BothOf
    <2>10. PICK ack \in SUBSET ResignBody : ack = AckAfter(after, m.resign)
      BY <1>2, <1>9, <1>10, Constants, ResignOK
    <2>11. ack = {[nonce |-> u, sig |-> us[u].commitment]}
      BY <1>8, <1>11, <2>10, TheOnly DEF AckAfter, ResignAck, IsConfirmed
    <2>12. SignPayment(w, i, how, m, n, bal, table, d, ack)
      BY <1>1, <1>4, <1>7, <1>10, <1>18, <1>20, <2>2, <2>4, <2>10, <2>3 DEF HandlePartnerResponse
    <2>13. CASE table[n] = NoTrade \/ (table[n].commitment = {} /\ ~Matches(d, w, m.payment, bal))
      <3>1. Answer(w, i, how, none) /\ Write(w, table, d)
        BY <1>14, <2>12, <2>13 DEF SignPayment
      <3> QED BY <1>3, <1>4, <1>14, <2>7, <2>9, <3>1, HandlerAgreed
    <2>14. CASE ~(table[n] = NoTrade \/ (table[n].commitment = {} /\ ~Matches(d, w, m.payment, bal)))
      <3>1. Fresh(table[n])
        <4>1. n = m.nonce => table[n] = ts[n]
          BY <1>11, <1>13, <2>7
        <4> QED BY <1>8, <2>7, <4>1
      <3>2. /\ table[n] \in CTrade /\ table[n].role = "FOUNDER" /\ table[n].state = "init"
            /\ table[n].commitment = {} /\ table[n].peer_commitment = {} /\ Matches(d, w, m.payment, bal)
        BY <1>13, <2>7, <2>14, <3>1, LatestFacts DEF Fresh
      <3>3. PICK own \in SUBSET Commitment : own = {[payer |-> w, bal |-> bal]}
        BY SignedOK
      <3>4. own = Sig(w, bal) /\ own # {}
        BY <3>3 DEF Sig
      <3>5. PICK signed : signed = RowSignedWith(table, n, own)
        OBVIOUS
      <3>6. PICK sig \in SUBSET Commitment : sig = m.sig
        BY <1>1, Taken
      <3>7. PICK confirmed : confirmed = Confirm(signed, n, sig)
        OBVIOUS
      <3>8. /\ signed \in Tables
            /\ Signed(signed[n]) /\ signed[n].commitment = own /\ signed[n] \in CTrade
            /\ signed[n].peer_commitment = {}
            /\ Rewrites(signed, table, n, signed[n])
        BY <2>7, <3>2, <3>4, <3>5, <3>7, PaymentSigned
      <3>9. PICK a : a = [role |-> 1, nonce |-> n, nego |-> {}, payment |-> m.payment,
                          bal |-> bal, sig |-> {}, resign |-> ack]
        OBVIOUS
      <3>10. /\ a \in CMessage /\ a.role = 1 /\ a.nonce = n /\ a.nego = {} /\ a.bal = bal
             /\ a.sig = {} /\ a.resign = ack /\ a.payment = m.payment
        BY <1>2, <3>9 DEF CMessage
      <3>11. PICK answers \in Seq(CMessage) : answers = <<a>>
        BY <3>10, AnswersOK
      <3>12. Answer(w, i, how, answers) /\ Write(w, signed, d)
        BY <1>1, <2>12, <2>14, <3>2, <3>3, <3>5, <3>9, <3>11 DEF SignPayment, RowSignedWith
      <3>13. signed[n].role = "FOUNDER" /\ signed[n].state = "init" /\ RowSigned(w, signed[n])
        BY <3>8 DEF Signed, RowSigned, IsConfirmed
      <3>14. Pair(w, signed, us, u, u)
        BY <1>13, <2>7, <3>8, <3>13, PairBeyond
      <3>15. Early(signed, us, u, u, d, c)
        <4>1. signed[u].role = "FOUNDER"
          <5>1. signed[u] = table[u] /\ table[u] = after[u]
            BY <1>13, <2>7, <3>8 DEF Rewrites
          <5> QED BY <1>11, <5>1
        <4>2. ASSUME NEW k \in Nonces, Signed(signed[k]) PROVE k = u + 1
          <5>1. CASE k = n
            BY <1>8, <5>1
          <5>2. CASE k # n
            <6>1. Signed(table[k])
              BY <3>8, <4>2, <5>2 DEF Rewrites
            <6> QED BY <1>11, <2>7, <6>1
          <5> QED BY <5>1, <5>2
        <4> QED BY <1>11, <4>1, <4>2 DEF Early
      <3>16. Early(us, signed, u, u, c, d)
        BY <1>11, NoneEarly
      <3>17. Books(signed, us, u, u, d, c)
        <4>1. Line(w, table, u)
          BY <2>7 DEF Pair
        <4>2. Booked(table, u, d) => Booked(signed, u, d)
          BY <1>13, <2>7, <3>8, <4>1, BookedBeyond
        <4> QED BY <2>8, <4>2, BooksStep
      <3>18. Both(w, signed, us, d, c)
        BY <3>8, <3>14, <3>15, <3>16, <3>17, BothOf
      <3>19. Says(o, us, signed, c, d, a)
        <4>1. Acks(us, ack, n - 1)
          <5>1. n - 1 = u
            BY <1>8, <1>13
          <5> QED BY <1>5, <1>11, <2>11, <5>1 DEF Acks
        <4>2. SignatureSays(w, us, signed, c, d, a)
          BY <1>5, <1>8, <3>2, <3>4, <3>8, <3>10, <4>1 DEF SignatureSays
        <4>3. Other(o) = w
          BY <1>3, Others
        <4> QED BY <3>10, <4>2, <4>3 DEF Says
      <3> QED BY <1>3, <1>4, <3>8, <3>10, <3>11, <3>12, <3>18, <3>19, HandlerAgreed
    <2> QED BY <2>13, <2>14
  <1> QED BY <1>19, <1>20

\* A payment that leads to the balances of a message is booked with them.
LEMMA PaidMatches ==
    ASSUME NEW b \in CBal, NEW payer \in Wallets, NEW p \in Nat, NEW bal, Matches(b, payer, p, bal)
    PROVE  Paid(b, payer, p) = bal
  <1>1. CanPay(b, payer, p) /\ bal = AfterPayment(b, payer, p)
    BY DEF Matches
  <1>2. bal \in CBal
    BY <1>1, AfterPaymentFacts
  <1>3. \A x \in Wallets : bal[x] \in Nat /\ bal[x] >= 0
    BY <1>2 DEF CBal, Balances
  <1> QED BY <1>1, <1>3 DEF Paid

\* The payer takes the signature of a payee, with or without the answer to its
\* own request: it signs and confirms the row.
LEMMA AnswerSigned ==
    ASSUME IInv, PInv, AInv, NEW w \in Wallets, NEW i \in DOMAIN net[w], NEW how \in {"sent", "unsent"},
           Orderly => how = "sent",
           HandlePartnerResponse(w, i, how), env' = env, net[w][i].role = 0, net[w][i].sig # {}
    PROVE  AInv'
  <1>1. PICK m \in CMessage : m = net[w][i] /\ m.role = 0 /\ m.sig # {}
    BY Taken
  <1>2. /\ m.nonce \in PaidNonces /\ m.nego \in SUBSET PaidNonces /\ m.payment \in Payments
        /\ m.payment \in Nat /\ m.bal \in CBal /\ m.resign \in SUBSET ResignBody
        /\ m.sig \in SUBSET Commitment
    BY <1>1, Taken
  <1>3. PICK o \in Wallets : o = Other(w)
    BY Others
  <1>4. PICK ts \in Tables, us \in Tables, b \in CBal, c \in CBal :
           ts = trades[w] /\ us = trades[o] /\ b = balance[w] /\ c = balance[o]
    BY <1>3 DEF IInv
  <1>5. PICK v \in Nonces, u \in Nonces : v = LatestValid(ts) /\ u = LatestValid(us)
    BY LatestFacts
  <1>6. /\ Pair(w, ts, us, v, u) /\ Early(ts, us, v, u, b, c) /\ Early(us, ts, u, v, c, b)
        /\ Says(w, ts, us, b, c, m) /\ Books(ts, us, v, u, b, c)
    BY <1>1, <1>3, <1>4, <1>5, Meet DEF Meeting
  <1>7. PICK n \in PaidNonces : n = IF m.nego = {} THEN m.nonce ELSE The(m.nego)
    BY <1>2, TheOK
  <1>8. /\ Waiting(us[n]) /\ us[n].bal = m.bal /\ us[n].commitment = m.sig
        /\ n = u /\ Matches(c, w, m.payment, m.bal)
        /\ m.resign = {} \/ Acks(ts, m.resign, n - 1)
        /\ \/ Fresh(ts[m.nonce])
           \/ /\ Signed(ts[m.nonce]) /\ ts[m.nonce].commitment = Sig(w, m.bal)
              /\ Matches(b, w, m.payment, m.bal)
    <2>1. Agreed(m) = n
      BY <1>7 DEF Agreed
    <2> QED BY <1>1, <1>5, <1>6, <2>1 DEF Says, AnswerSays
  <1>9. us[n].role = "PARTNER" /\ m.sig = Sig(w, m.bal)
    <2>1. us[n].role = "PARTNER" /\ us[n] \in CTrade /\ n \in Nonces
      BY <1>8 DEF Waiting
    <2>2. RowSigned(o, us[n])
      BY <1>3, <1>6, <1>8, PairLatest
    <2> QED BY <1>1, <1>3, <1>8, <2>1, <2>2, Others DEF RowSigned
  <1>10. NoneSigned(us)
    BY <1>6, <1>8, <1>9, PayeeEarly
  <1>11. \A r \in m.resign : ResignAccepted(w, ts, r)
    BY <1>1, <1>4 DEF HandlePartnerResponse
  <1>12. PICK after \in Tables, d \in CBal :
            after = TradesAfter(w, ts, m.resign) /\ d = BalanceAfter(ts, b, m.resign)
    BY <1>2, <1>11, Constants, ResignOK
  <1>13. PICK ack \in SUBSET ResignBody : ack = AckAfter(after, m.resign)
    BY <1>2, <1>11, <1>12, Constants, ResignOK
  <1>14. v \in Nat /\ u \in Nat /\ n \in Nonces /\ m.nonce \in Nonces
    BY <1>2, <1>8, Interval
  <1>15. /\ Pair(w, after, us, v, u) /\ Early(after, us, v, u, d, c) /\ Books(after, us, v, u, d, c)
         /\ ack = {} /\ \A k \in Nonces : k # v => after[k] = ts[k]
         /\ ts[v].role = "FOUNDER" => d = b
    <2>1. CASE m.resign = {}
      <3>1. after = ts /\ d = b /\ ack = {}
        BY <1>12, <1>13, <2>1 DEF TradesAfter, BalanceAfter, AckAfter
      <3> QED BY <1>6, <3>1
    <2>2. CASE m.resign # {}
      <3>1. Acks(ts, m.resign, n - 1) /\ n - 1 = v
        BY <1>5, <1>8, <2>2 DEF Acks
      <3>2. PICK resign \in SUBSET ResignBody : resign = m.resign
        BY <1>2
      <3>3. TakesAck(w, ts, us, v, u, b, resign, after, d)
        BY <1>6, <1>8, <1>11, <1>12, <1>14, <3>1, <3>2 DEF TakesAck
      <3>4. /\ Pair(w, after, us, v, u) /\ Booked(after, v, d)
            /\ ts[v].role = "PARTNER" /\ after[v].role = "PARTNER" /\ IsConfirmed(after[v])
            /\ d = ts[v].bal /\ after[v].commitment = Sig(Other(w), d) /\ after[v].peer_commitment = Sig(Other(w), d)
            /\ \A j \in Nonces : j # v => after[j] = ts[j]
            /\ \A j \in Nonces : Signed(after[j]) => Signed(ts[j])
            /\ The(resign).nonce = v
        BY <3>3, AckTaken
      <3>5. NoneSigned(after)
        <4>1. NoneSigned(ts)
          BY <1>6, <3>4, PayeeEarly
        <4> QED BY <3>4, <4>1 DEF NoneSigned
      <3>6. Early(after, us, v, u, d, c)
        BY <3>5, NoneEarly
      <3>7. Books(after, us, v, u, d, c)
        BY <1>6, <3>4, BooksStep
      <3>8. ack = {}
        BY <1>13, <2>2, <3>4, <3>2 DEF AckAfter, ResignAck
      <3> QED BY <3>4, <3>6, <3>7, <3>8
    <2> QED BY <2>1, <2>2
  <1>16. PICK none \in Seq(CMessage) : none = <<>>
    BY AnswersOK
  <1>17. Early(us, after, u, v, c, d)
    BY <1>10, NoneEarly
  <1>18. Both(w, after, us, d, c)
    BY <1>15, <1>17, BothOf
  <1>19. PICK bases : bases = {} /\ bases = IF m.sig = {} THEN ResignedBalances(after, m.resign) ELSE {}
    BY <1>1
  <1>20. CASE ~NonceAgrees(after, n)
    <2>1. Answer(w, i, how, none) /\ Write(w, after, d)
      BY <1>1, <1>4, <1>7, <1>12, <1>16, <1>20 DEF HandlePartnerResponse
    <2> QED BY <1>3, <1>4, <1>16, <1>18, <2>1, HandlerAgreed
  <1>21. CASE NonceAgrees(after, n)
    <2>1. n = v + 1 /\ n # v /\ n > v /\ u = v + 1
      <3>1. LatestValid(after) = v
        BY <1>15, PairLatest
      <3> QED BY <1>8, <1>14, <1>21, <3>1 DEF NonceAgrees
    <2>2. PICK mine \in PaidNonces, bal \in CBal : mine = m.nonce /\ bal = m.bal
      BY <1>2
    <2>3. PICK table : table = Renegotiated(after, mine, n, bal)
      OBVIOUS
    <2>4. /\ table \in Tables /\ Pair(w, table, us, v, u)
          /\ Early(table, us, v, u, d, c) /\ Early(us, table, u, v, c, d)
          /\ Booked(after, v, d) => Booked(table, v, d)
          /\ n = m.nonce => table[n] = after[n]
          /\ n # m.nonce => Fresh(table[n])
      <3>1. /\ Pair(w, after, us, v, u) /\ Early(after, us, v, u, d, c) /\ Early(us, after, u, v, c, d)
            /\ n = v + 1
        BY <1>15, <1>17, <2>1
      <3>2. /\ table \in Tables /\ Pair(w, table, us, v, u)
            /\ Early(table, us, v, u, d, c) /\ Early(us, table, u, v, c, d)
            /\ Booked(after, v, d) => Booked(table, v, d)
            /\ n = mine => table[n] = after[n]
            /\ n # mine => Fresh(table[n])
        BY <2>3, <3>1, RenegotiatedBeyond
      <3> QED BY <2>2, <3>2
    <2>5. Books(table, us, v, u, d, c)
      BY <1>15, <2>4, BooksStep
    <2>6. Both(w, table, us, d, c)
      BY <2>4, <2>5, BothOf
    <2>7. SignPayment(w, i, how, m, n, m.bal, table, d, ack)
      BY <1>1, <1>4, <1>7, <1>12, <1>13, <1>19, <1>21, <2>3, <2>2 DEF HandlePartnerResponse
    <2>8. CASE table[n] = NoTrade \/ (table[n].commitment = {} /\ ~Matches(d, w, m.payment, m.bal))
      <3>1. Answer(w, i, how, none) /\ Write(w, table, d)
        BY <1>16, <2>7, <2>8 DEF SignPayment
      <3> QED BY <1>3, <1>4, <1>16, <2>4, <2>6, <3>1, HandlerAgreed
    <2>9. CASE ~(table[n] = NoTrade \/ (table[n].commitment = {} /\ ~Matches(d, w, m.payment, m.bal)))
      <3>1. \/ Fresh(table[n])
            \/ /\ Signed(table[n]) /\ table[n].commitment = Sig(w, m.bal)
               /\ Matches(d, w, m.payment, m.bal)
        <4>1. CASE n # m.nonce
          BY <2>4, <4>1
        <4>2. CASE n = m.nonce
          <5>1. table[n] = ts[n] /\ ts[n] = ts[m.nonce]
            BY <1>14, <1>15, <2>1, <2>4, <4>2
          <5>2. Signed(ts[n]) => d = b
            BY <1>6, <1>14, <1>15 DEF Early
          <5> QED BY <1>8, <5>1, <5>2
        <4> QED BY <4>1, <4>2
      <3>2. Matches(d, w, m.payment, m.bal)
        BY <2>9, <3>1 DEF Fresh
      <3>3. table[n] \in CTrade /\ table[n].role = "FOUNDER" /\ table[n].state = "init"
        BY <1>14, <2>4, <2>9, <3>1, LatestFacts DEF Fresh, Signed
      <3>4. PICK own \in SUBSET Commitment :
               own = Sig(w, m.bal) /\ own = IF table[n].commitment = {} THEN {[payer |-> w, bal |-> m.bal]}
                                            ELSE table[n].commitment
        <4>1. Sig(w, m.bal) \in SUBSET Commitment /\ Sig(w, m.bal) = {[payer |-> w, bal |-> m.bal]}
          BY <1>2, SignedOK DEF Sig
        <4>2. table[n].commitment = {} \/ table[n].commitment = Sig(w, m.bal)
          BY <2>9, <3>1 DEF Fresh
        <4> QED BY <4>1, <4>2
      <3>5. own # {}
        BY <3>4 DEF Sig
      <3>6. PICK signed : signed = RowSignedWith(table, n, own)
        OBVIOUS
      <3>7. PICK sig \in SUBSET Commitment : sig = m.sig
        BY <1>2
      <3>8. PICK confirmed : confirmed = Confirm(signed, n, sig)
        OBVIOUS
      <3>9. /\ confirmed \in Tables
            /\ \E t \in CTrade : /\ t.role = "FOUNDER" /\ t.commitment = own
                                 /\ t.peer_commitment = sig /\ t.state = "confirmed"
                                 /\ Rewrites(confirmed, table, n, t)
        BY <2>4, <3>3, <3>5, <3>6, <3>8, PaymentSigned
      <3>10. PICK t \in CTrade : /\ t.role = "FOUNDER" /\ t.commitment = own
                                 /\ t.peer_commitment = own /\ t.state = "confirmed"
                                 /\ Rewrites(confirmed, table, n, t)
        <4>1. sig = own
          BY <1>9, <3>4, <3>7
        <4> QED BY <3>9, <4>1
      <3>11. PICK paid : paid = IF how = "sent" THEN Paid(d, w, m.payment) ELSE d
        OBVIOUS
      <3>12. PICK a : a = [role |-> 1, nonce |-> n, nego |-> {}, payment |-> m.payment,
                           bal |-> m.bal, sig |-> own, resign |-> ack]
        OBVIOUS
      <3>13. /\ a \in CMessage /\ a.role = 1 /\ a.nonce = n /\ a.nego = {} /\ a.bal = m.bal
             /\ a.sig = own /\ a.resign = {} /\ a.payment = m.payment
        BY <1>2, <1>15, <3>12 DEF CMessage
      <3>14. PICK answers \in Seq(CMessage) : answers = <<a>>
        BY <3>13, AnswersOK
      <3>15. Answer(w, i, how, answers) /\ Write(w, confirmed, paid)
        BY <1>1, <2>7, <2>9, <3>4, <3>6, <3>7, <3>8, <3>11, <3>12, <3>14 DEF SignPayment, RowSignedWith
      <3>16. Pair(w, confirmed, us, u, u)
        <4>1. RowSigned(w, t) /\ t.commitment = us[u].commitment
          BY <1>8, <1>9, <3>4, <3>5, <3>10 DEF RowSigned, IsConfirmed
        <4> QED BY <1>8, <2>1, <2>4, <3>10, <4>1, PairConfirms
      <3>17. NoneSigned(confirmed)
        <4>1. ASSUME NEW k \in Nonces, Signed(confirmed[k]) PROVE FALSE
          <5>1. CASE k = n
            <6>1. confirmed[k] = t
              BY <3>10, <5>1 DEF Rewrites
            <6> QED BY <3>10, <4>1, <6>1 DEF Signed
          <5>2. CASE k # n
            <6>1. Signed(table[k])
              BY <3>10, <4>1, <5>2 DEF Rewrites
            <6> QED BY <2>1, <2>4, <5>2, <6>1 DEF Early
          <5> QED BY <5>1, <5>2
        <4> QED BY <4>1 DEF NoneSigned
      <3>18. Early(confirmed, us, u, u, paid, c) /\ Early(us, confirmed, u, u, c, paid)
        BY <1>10, <3>17, NoneEarly
      <3>19. Books(confirmed, us, u, u, paid, c)
        <4>1. ASSUME Orderly PROVE Booked(confirmed, u, paid)
          <5>1. paid = m.bal
            BY <1>2, <3>2, <3>11, <4>1, PaidMatches
          <5>2. t.peer_commitment = Sig(w, paid)
            BY <3>4, <3>10, <5>1
          <5>3. \A s \in t.peer_commitment : s.bal = paid
            BY <5>2, SigBalance
          <5>4. IsConfirmed(t)
            BY <3>10 DEF IsConfirmed
          <5> QED BY <1>8, <3>10, <5>3, <5>4, BookedConfirms
        <4> QED BY <2>5, <4>1 DEF Books
      <3>20. Both(w, confirmed, us, paid, c)
        BY <3>9, <3>16, <3>18, <3>19, BothOf
      <3>21. Says(o, us, confirmed, c, paid, a)
        <4>1. LatestValid(confirmed) = u
          BY <3>9, <3>16, PairLatest
        <4>2. /\ a.nonce = u /\ a.nego = {} /\ a.sig = Sig(w, a.bal) /\ a.resign = {} /\ a.bal = m.bal
              /\ Waiting(us[u]) /\ u = LatestValid(us) /\ u <= LatestValid(confirmed) /\ us[u].bal = a.bal
              /\ Matches(c, w, a.payment, a.bal) /\ NoneSigned(confirmed)
          <5>1. a.sig = Sig(w, a.bal)
            BY <3>4, <3>13
          <5>2. a.nonce = u /\ a.nego = {} /\ a.resign = {} /\ a.bal = m.bal
            BY <1>8, <3>13
          <5>3. Waiting(us[u]) /\ us[u].bal = a.bal
            BY <1>8, <3>13
          <5>4. Matches(c, w, a.payment, a.bal)
            BY <1>8, <3>13
          <5>5. u = LatestValid(us) /\ u <= LatestValid(confirmed)
            BY <1>5, <1>14, <4>1
          <5> QED BY <3>17, <5>1, <5>2, <5>3, <5>4, <5>5
        <4>3. SignatureSays(w, us, confirmed, c, paid, a)
          BY <4>2 DEF SignatureSays
        <4>4. Other(o) = w
          BY <1>3, Others
        <4> QED BY <3>13, <4>4, <4>3 DEF Says
      <3> QED BY <1>3, <1>4, <3>9, <3>13, <3>14, <3>15, <3>20, <3>21, HandlerAgreed
    <2> QED BY <2>8, <2>9
  <1> QED BY <1>20, <1>21

\* The payee takes the signature of its payer: its row is confirmed.
LEMMA SignatureConfirms ==
    ASSUME IInv, PInv, AInv, NEW w \in Wallets, NEW i \in DOMAIN net[w], NEW how \in {"sent", "unsent"},
           HandleFounderResponse(w, i, how), env' = env, net[w][i].role = 1, net[w][i].sig # {}
    PROVE  AInv'
  <1>1. PICK m \in CMessage : m = net[w][i] /\ m.role = 1 /\ m.sig # {}
    BY Taken
  <1>2. /\ m.nonce \in PaidNonces /\ m.payment \in Payments /\ m.payment \in Nat /\ m.bal \in CBal
    BY <1>1, Taken
  <1>3. PICK o \in Wallets : o = Other(w)
    BY Others
  <1>4. PICK ts \in Tables, us \in Tables, b \in CBal, c \in CBal :
           ts = trades[w] /\ us = trades[o] /\ b = balance[w] /\ c = balance[o]
    BY <1>3 DEF IInv
  <1>5. PICK v \in Nonces, u \in Nonces : v = LatestValid(ts) /\ u = LatestValid(us)
    BY LatestFacts
  <1>6. /\ Pair(w, ts, us, v, u) /\ Early(ts, us, v, u, b, c) /\ Early(us, ts, u, v, c, b)
        /\ Says(w, ts, us, b, c, m) /\ Books(ts, us, v, u, b, c)
    BY <1>1, <1>3, <1>4, <1>5, Meet DEF Meeting
  <1>7. /\ m.sig = Sig(o, m.bal) /\ m.resign = {} /\ m.nonce = v /\ v <= u
        /\ Waiting(ts[v]) /\ ts[v].bal = m.bal
        /\ Matches(b, o, m.payment, m.bal) /\ NoneSigned(us)
    BY <1>1, <1>3, <1>5, <1>6 DEF Says, SignatureSays
  <1>8. PICK n \in Nonces : n = m.nonce
    BY <1>7
  <1>9. AwaitsPayer(ts[v]) /\ ts[v].role = "PARTNER" /\ ts[v].commitment = Sig(o, m.bal) /\ ts[v] # NoTrade
    <2>1. RowSigned(w, ts[v]) /\ Valid(ts[v]) /\ ts[v] \in CTrade
      BY <1>6, PairLatest
    <2>2. ts[v].role = "PARTNER" /\ ts[v].peer_commitment = {} /\ ts[v].state # "init"
      BY <1>7, <2>1, ValidFacts DEF Waiting
    <2>3. ts[v].commitment # {} /\ ts[v].commitment = Sig(o, m.bal)
      BY <1>3, <1>7, <2>1, <2>2 DEF RowSigned
    <2>4. ~IsConfirmed(ts[v])
      BY <2>1, <2>2, <2>3 DEF RowSigned
    <2> QED BY <2>1, <2>2, <2>3, <2>4, ValidFacts, NoTradeFacts DEF AwaitsPayer
  <1>10. PICK sig \in SUBSET Commitment : sig = {[payer |-> o, bal |-> m.bal]} /\ sig = Sig(o, m.bal)
    BY <1>2, SignedOK DEF Sig
  <1>11. PICK confirmed \in Tables : confirmed = Confirm(ts, n, sig)
    <2>1. ts[n] # NoTrade
      BY <1>7, <1>8, <1>9
    <2> QED BY <2>1, ConfirmRow
  <1>12. PICK t \in CTrade : /\ t.role = "PARTNER" /\ t.commitment = sig
                             /\ t.peer_commitment = sig /\ t.state = "confirmed" /\ t.bal = m.bal
                             /\ Rewrites(confirmed, ts, v, t)
    <2>1. ts[n] # NoTrade
      BY <1>7, <1>8, <1>9
    <2>2. PICK t \in CTrade : /\ t.role = ts[n].role /\ t.bal = ts[n].bal
                              /\ t.commitment = ts[n].commitment
                              /\ t.peer_commitment = sig /\ t.state = "confirmed"
                              /\ Rewrites(Confirm(ts, n, sig), ts, n, t)
      BY <2>1, ConfirmRow
    <2> QED BY <1>7, <1>8, <1>9, <1>10, <1>11, <2>2
  <1>13. PICK paid : paid = IF how = "crash" THEN b ELSE Paid(b, o, m.payment)
    OBVIOUS
  <1>14. paid = m.bal
    BY <1>2, <1>7, <1>13, PaidMatches
  <1>15. PICK none \in Seq(CMessage) : none = <<>>
    BY AnswersOK
  <1>16. Answer(w, i, how, none) /\ Write(w, confirmed, paid)
    <2>1. TradesAfter(w, ts, m.resign) = ts /\ BalanceAfter(ts, b, m.resign) = b
      BY <1>7 DEF TradesAfter, BalanceAfter
    <2> QED BY <1>1, <1>3, <1>4, <1>7, <1>8, <1>10, <1>11, <1>13, <1>15, <2>1 DEF HandleFounderResponse
  <1>17. Pair(w, confirmed, us, v, u)
    <2>1. sig # {}
      BY <1>10
    <2>2. RowSigned(w, t)
      BY <1>3, <1>10, <1>12, <2>1 DEF RowSigned, IsConfirmed
    <2>3. t.role = ts[v].role /\ t.commitment = ts[v].commitment
      BY <1>9, <1>10, <1>12
    <2> QED BY <1>6, <1>7, <1>9, <1>12, <2>2, <2>3, PairSettles
  <1>18. NoneSigned(confirmed)
    <2>1. NoneSigned(ts)
      BY <1>6, <1>9, PayeeEarly
    <2>2. ~Signed(t)
      BY <1>12 DEF Signed
    <2> QED BY <1>12, <2>1, <2>2 DEF NoneSigned, Rewrites
  <1>19. Early(confirmed, us, v, u, paid, c) /\ Early(us, confirmed, u, v, c, paid)
    BY <1>7, <1>18, NoneEarly
  <1>20. Books(confirmed, us, v, u, paid, c)
    <2>1. t.peer_commitment = Sig(o, paid)
      BY <1>10, <1>12, <1>14
    <2>2. \A s \in t.peer_commitment : s.bal = paid
      BY <2>1, SigBalance
    <2>3. IsConfirmed(t)
      BY <1>12 DEF IsConfirmed
    <2>4. Booked(confirmed, v, paid)
      BY <1>12, <2>2, <2>3, BookedConfirms
    <2> QED BY <1>6, <2>4, BooksStep
  <1>21. Both(w, confirmed, us, paid, c)
    BY <1>17, <1>19, <1>20, BothOf
  <1> QED BY <1>3, <1>4, <1>15, <1>16, <1>21, HandlerAgreed

\* The payer has signed and asks for the payee's signature: the payee confirms the
\* row it awaited the payer on, and signs the next unless the balances differ.
LEMMA SignatureAsks ==
    ASSUME IInv, PInv, AInv, NEW w \in Wallets, NEW i \in DOMAIN net[w], NEW how \in {"sent", "unsent"},
           HandleFounderResponse(w, i, how), env' = env, net[w][i].role = 1, net[w][i].sig = {}
    PROVE  AInv'
  <1>1. PICK m \in CMessage : m = net[w][i] /\ m.role = 1 /\ m.sig = {}
    BY Taken
  <1>2. /\ m.nonce \in PaidNonces /\ m.payment \in Payments /\ m.payment \in Nat /\ m.bal \in CBal
    BY <1>1, Taken
  <1>3. PICK o \in Wallets : o = Other(w)
    BY Others
  <1>4. PICK ts \in Tables, us \in Tables, b \in CBal, c \in CBal :
           ts = trades[w] /\ us = trades[o] /\ b = balance[w] /\ c = balance[o]
    BY <1>3 DEF IInv
  <1>5. PICK v \in Nonces, u \in Nonces : v = LatestValid(ts) /\ u = LatestValid(us)
    BY LatestFacts
  <1>6. /\ Pair(w, ts, us, v, u) /\ Early(ts, us, v, u, b, c) /\ Early(us, ts, u, v, c, b)
        /\ Says(w, ts, us, b, c, m) /\ Books(ts, us, v, u, b, c)
    BY <1>1, <1>3, <1>4, <1>5, Meet DEF Meeting
  <1>7. PICK n \in PaidNonces : n = m.nonce
    BY <1>2
  <1>8. PICK resign \in SUBSET ResignBody : resign = m.resign
    BY <1>1, Taken
  <1>9. /\ m.nego = {} /\ Waiting(ts[n]) /\ n = v + 1 /\ Acks(ts, resign, n - 1)
        /\ Signed(us[n]) /\ us[n].commitment = Sig(o, m.bal) /\ Matches(c, o, m.payment, m.bal)
    <2>1. Sig(o, m.bal) # {}
      BY DEF Sig
    <2> QED BY <1>1, <1>3, <1>5, <1>6, <1>7, <1>8, <2>1 DEF Says, SignatureSays
  <1>10. /\ n \in Nonces /\ v \in Nat /\ u \in Nat /\ n - 1 = v /\ n # v /\ n > v
    BY <1>9, Interval
  <1>11. u = v /\ us[u].role = "FOUNDER" /\ \A k \in Nonces : Signed(us[k]) => k = u + 1
    BY <1>6, <1>9, <1>10 DEF Early
  <1>12. \A r \in resign : ResignAccepted(w, ts, r)
    BY <1>1, <1>4, <1>8 DEF HandleFounderResponse
  <1>13. PICK after \in Tables, d \in CBal :
            after = TradesAfter(w, ts, resign) /\ d = BalanceAfter(ts, b, resign)
    BY <1>12, Constants, ResignOK
  <1>14. TakesAck(w, ts, us, v, u, b, resign, after, d)
    BY <1>6, <1>9, <1>10, <1>11, <1>12, <1>13 DEF TakesAck
  <1>15. /\ Pair(w, after, us, v, u) /\ Booked(after, v, d)
         /\ ts[v].role = "PARTNER" /\ IsConfirmed(after[v])
         /\ \A j \in Nonces : j # v => after[j] = ts[j]
         /\ \A j \in Nonces : Signed(after[j]) => Signed(ts[j])
    BY <1>14, AckTaken
  <1>16. NoneSigned(after) /\ Books(after, us, v, u, d, c)
    <2>1. NoneSigned(ts)
      BY <1>6, <1>15, PayeeEarly
    <2>2. Books(after, us, v, u, d, c)
      BY <1>6, <1>15, BooksStep
    <2> QED BY <1>15, <2>1, <2>2 DEF NoneSigned
  <1>17. after[n] \in CTrade /\ after[n].role = "PARTNER" /\ after[n].peer_commitment = {} /\ after[n] # NoTrade
    BY <1>9, <1>10, <1>15, NoTradeFacts DEF Waiting
  <1>18. PICK sig \in SUBSET Commitment : sig = {[payer |-> o, bal |-> m.bal]} /\ sig = Sig(o, m.bal) /\ sig # {}
    BY <1>2, SignedOK DEF Sig
  <1>19. PICK none \in Seq(CMessage) : none = <<>>
    BY AnswersOK
  <1>20. PICK a : a = [m EXCEPT !.role = 0, !.sig = sig, !.resign = {}]
    OBVIOUS
  <1>21. /\ a \in CMessage /\ a.role = 0 /\ a.nonce = n /\ a.nego = {} /\ a.bal = m.bal
         /\ a.sig = sig /\ a.resign = {} /\ a.payment = m.payment
    BY <1>7, <1>9, <1>20 DEF CMessage
  <1>22. PICK answers \in Seq(CMessage) : answers = <<a>>
    BY <1>21, AnswersOK
  <1>23. PICK bal \in CBal : bal = m.bal
    BY <1>2
  <1>24. PICK signed \in Tables : signed = SignState(after, n, bal, sig)
    BY <1>17, SignStateRow
  <1>25. CASE /\ Matches(d, o, m.payment, m.bal)
              /\ Answer(w, i, how, answers) /\ Write(w, signed, d)
    <2>1. PICK t \in CTrade : /\ t.role = "PARTNER" /\ t.bal = m.bal /\ t.commitment = sig
                              /\ t.peer_commitment = {} /\ t.state = "confirming"
                              /\ Rewrites(signed, after, n, t)
      <3>1. PICK t \in CTrade : /\ t.role = after[n].role /\ t.bal = bal /\ t.commitment = sig
                                /\ t.peer_commitment = after[n].peer_commitment
                                /\ t.state = "confirming"
                                /\ Rewrites(SignState(after, n, bal, sig), after, n, t)
        BY <1>17, SignStateRow
      <3> QED BY <1>17, <1>23, <1>24, <3>1
    <2>2. /\ Waiting(t) /\ RowSigned(w, t) /\ ~Signed(t) /\ ~IsConfirmed(t)
      <3>1. SignsAs(w, t, bal, Sig(o, bal), "confirming")
        BY <1>18, <1>23, <2>1 DEF SignsAs
      <3> QED BY <1>3, <3>1, PayeeRow
    <2>3. signed[n] = t /\ \A k \in Nonces : k # n => signed[k] = after[k]
      BY <2>1 DEF Rewrites
    <2>4. Pair(w, signed, us, n, u)
      BY <1>9, <1>10, <1>11, <1>15, <2>1, <2>2, PairSigns
    <2>5. NoneSigned(signed)
      BY <1>16, <2>2, <2>3 DEF NoneSigned
    <2>6. Early(us, signed, u, n, c, d)
      <3>1. ASSUME NEW k \in Nonces, Signed(us[k])
            PROVE  k = u + 1 /\ n = k /\ signed[k].role = "PARTNER" /\ signed[k].commitment = us[k].commitment
        <4>1. k = n
          BY <1>9, <1>11, <3>1
        <4> QED BY <1>9, <1>11, <1>18, <2>1, <2>3, <4>1
      <3> QED BY <1>11, <3>1 DEF Early
    <2>7. Books(signed, us, n, u, d, c)
      <3>1. Booked(signed, n, d)
        BY <1>9, <1>10, <1>11, <1>15, <2>1, <2>2, BookedSigns
      <3> QED BY <1>16, <3>1, BooksStep
    <2>8. Both(w, signed, us, d, c)
      BY <2>4, <2>5, <2>6, <2>7, NoneEarly, BothOf
    <2>9. Says(o, us, signed, c, d, a)
      <3>1. n = LatestValid(signed)
        BY <2>4, PairLatest
      <3>2. Agreed(a) = n
        BY <1>21 DEF Agreed
      <3>3. /\ Waiting(signed[n]) /\ signed[n].bal = a.bal /\ signed[n].commitment = a.sig
            /\ a.sig # {} /\ Matches(d, o, a.payment, a.bal) /\ a.resign = {} /\ a.nonce = n
            /\ Signed(us[n]) /\ us[n].commitment = Sig(o, a.bal) /\ Matches(c, o, a.payment, a.bal)
        BY <1>9, <1>18, <1>21, <1>25, <2>1, <2>2, <2>3
      <3>4. AnswerSays(o, us, signed, c, d, a)
        BY <3>1, <3>2, <3>3 DEF AnswerSays
      <3> QED BY <1>21, <3>4 DEF Says
    <2> QED BY <1>3, <1>4, <1>21, <1>22, <1>25, <2>8, <2>9, HandlerAgreed
  <1>26. CASE /\ ~Matches(d, o, m.payment, m.bal)
              /\ Answer(w, i, how, none) /\ Write(w, after, d)
    <2>1. c # d
      BY <1>9, <1>26
    <2>2. Early(us, after, u, v, c, d)
      BY <1>11, <2>1 DEF Early
    <2>3. Both(w, after, us, d, c)
      BY <1>15, <1>16, <2>2, NoneEarly, BothOf
    <2> QED BY <1>3, <1>4, <1>19, <1>26, <2>3, HandlerAgreed
  <1>27. \/ /\ Matches(d, o, m.payment, m.bal)
            /\ Answer(w, i, how, answers) /\ Write(w, signed, d)
         \/ /\ ~Matches(d, o, m.payment, m.bal)
            /\ Answer(w, i, how, none) /\ Write(w, after, d)
    <2>1. PreviousConfirmed(after, n)
      BY <1>10, <1>15 DEF PreviousConfirmed
    <2> QED BY <1>1, <1>3, <1>4, <1>7, <1>8, <1>13, <1>18, <1>19, <1>20, <1>22, <1>23, <1>24, <2>1
            DEF HandleFounderResponse
  <1> QED BY <1>25, <1>26, <1>27

\* A message whose resign body is refused changes no table.
LEMMA RefuseResignAgreed ==
    ASSUME IInv, PInv, AInv, NEW w \in Wallets, NEW i \in DOMAIN net[w], RefuseResign(w, i), env' = env
    PROVE  AInv'
  <1>1. PICK none \in Seq(CMessage) : none = <<>>
    BY AnswersOK
  <1>2. PICK how \in {"sent", "unsent"} : how = "sent"
    OBVIOUS
  <1>3. PICK o \in Wallets : o = Other(w)
    BY Others
  <1>4. PICK ts \in Tables, b \in CBal : ts = trades[w] /\ b = balance[w]
    BY DEF IInv
  <1>5. Answer(w, i, how, none) /\ Write(w, ts, b)
    BY <1>1, <1>2, <1>4 DEF RefuseResign, Write, IInv
  <1>6. Both(w, ts, trades[o], b, balance[o])
    BY <1>3, <1>4 DEF AInv, AllPaired
  <1> QED BY <1>1, <1>2, <1>3, <1>5, <1>6, HandlerAgreed

\* What the console of a payer leaves of its table, before and after it sends.
LEMMA PayAgreed ==
    ASSUME IInv, PInv, AInv, NEW w \in Wallets, NEW p \in env.payments, NEW how, Pay(w, p, how),
           env' = env, env.patient
    PROVE  AInv'
  <1>1. PICK o \in Wallets : o = Other(w) /\ Other(o) = w /\ o # w /\ \A x \in Wallets : x = w \/ x = o
    BY Others
  <1>2. /\ \A x \in Wallets : net[x] = <<>> /\ pending[x] = {}
    BY DEF Pay
  <1>3. PICK ts \in Tables, b \in CBal : ts = trades[w] /\ b = balance[w]
    BY DEF IInv
  <1>4. PICK v \in Nonces : v = LatestValid(ts)
    BY LatestFacts
  <1>5. Line(w, ts, v)
    BY <1>3, <1>4 DEF AInv, AllPaired, Both, Pair
  <1>6. /\ SettleHeld(ts) = ts
        /\ ResignRequest(ts) = IF AwaitsPayer(ts[v]) THEN {[nonce |-> v, sig |-> ts[v].commitment]} ELSE {}
    BY <1>5, NothingHeld
  <1>7. trades' = trades /\ balance' = balance
    BY <1>3, <1>6 DEF Pay, IInv
  <1>8. AllPaired'
    <2>1. Orderly' <=> Orderly
      BY DEF Orderly
    <2> QED BY <1>7, <2>1 DEF AInv, AllPaired, Both, Books
  <1>9. CASE how = "unsent"
    <2>1. net' = net /\ pending' = pending
      BY <1>9 DEF Pay
    <2>2. \A x \in Wallets : DOMAIN net'[x] = {}
      BY <1>2, <2>1
    <2>3. AllTold' /\ ConsolesFresh'
      BY <1>2, <2>1, <2>2 DEF AllTold, ConsolesFresh
    <2> QED BY <1>8, <2>3 DEF AInv
  <1>10. CASE how # "unsent"
    <2>1. PICK base : base = IF ts[v].state = "confirming" THEN ts[v].bal ELSE b
      OBVIOUS
    <2>2. PICK nonce : nonce = LatestNonce(ts) + 1
      OBVIOUS
    <2>3. PICK m : m = [role |-> -1, nonce |-> nonce, nego |-> {}, payment |-> p,
                        bal |-> AfterPayment(base, w, p), sig |-> {}, resign |-> ResignRequest(ts)]
      OBVIOUS
    <2>4. PICK row : row = [nonce |-> nonce, trade |-> UnsignedTrade("FOUNDER", AfterPayment(base, w, p))]
      OBVIOUS
    <2>5. /\ net' = [net EXCEPT ![o] = Append(@, m)] /\ pending' = [pending EXCEPT ![w] = {row}]
          /\ nonce <= env.lastNonce
      BY <1>1, <1>3, <1>4, <1>10, <2>1, <2>2, <2>3, <2>4 DEF Pay
    <2>6. net'[w] = <<>> /\ net'[o] = <<m>>
      <3>1. net \in [Wallets -> Seq(CMessage)]
        BY DEF IInv
      <3>2. Append(<<>>, m) = <<m>>
        OBVIOUS
      <3> QED BY <1>1, <1>2, <2>5, <3>1, <3>2
    <2>7. ConsolesFresh'
      <3>1. Fresh(row.trade)
        BY <2>4 DEF UnsignedTrade, Fresh
      <3>2. pending'[w] = {row} /\ pending'[o] = {}
        BY <1>1, <1>2, <2>5 DEF IInv
      <3> QED BY <1>1, <3>1, <3>2 DEF ConsolesFresh
    <2>8. Fresh(ts[nonce])
      <3>1. LatestNonce(ts) \in 1 .. MaxNonce /\ \A n \in Recorded(ts) : n <= LatestNonce(ts)
        <4>1. ts[1] # NoTrade
          BY LatestFacts, NoTradeFacts
        <4>2. PICK S \in SUBSET Nonces : S = Recorded(ts)
          BY DEF Recorded
        <4>3. S # {}
          BY <4>1, <4>2, Constants DEF Recorded
        <4>4. Max(S) \in S /\ \A n \in S : n <= Max(S)
          BY <4>3, MaxOK
        <4> QED BY <4>2, <4>4 DEF LatestNonce, Nonces
      <3>2. env.lastNonce \in 1 .. MaxNonce
        <4>1. env \in Environment
          BY RsmcAssumption DEF IInv
        <4> QED BY <4>1 DEF Environment
      <3>3. nonce \in Nonces /\ ~(nonce <= LatestNonce(ts))
        BY <2>2, <2>5, <3>1, <3>2, Interval
      <3>4. ts[nonce] = NoTrade
        BY <3>1, <3>3 DEF Recorded
      <3> QED BY <3>4 DEF Fresh
    <2>9. PaymentSays(w, ts, b, m)
      <3>1. /\ m.nonce = nonce /\ m.resign = ResignRequest(ts) /\ m.payment = p
            /\ m.bal = AfterPayment(base, w, p)
        BY <2>3
      <3>2. ASSUME m.resign = {} PROVE base = b
        <4>1. ~AwaitsPayer(ts[v])
          BY <1>6, <3>1, <3>2
        <4>2. IsConfirmed(ts[v])
          BY <1>5, <4>1, LastConfirmed
        <4> QED BY <2>1, <4>2 DEF IsConfirmed
      <3> QED BY <2>8, <3>1, <3>2 DEF PaymentSays
    <2>10. AllTold'
      <3>1. Says(o, trades'[o], trades'[w], balance'[o], balance'[w], m)
        <4>1. m.role = -1
          BY <2>3
        <4> QED BY <1>1, <1>3, <1>7, <2>9, <4>1 DEF Says
      <3>2. ASSUME NEW x \in Wallets, NEW j \in DOMAIN net'[x]
            PROVE  Says(x, trades'[x], trades'[Other(x)], balance'[x], balance'[Other(x)], net'[x][j])
        <4>1. x = o /\ net'[x][j] = m
          BY <1>1, <2>6, <3>2
        <4> QED BY <1>1, <3>1, <4>1
      <3> QED BY <3>2 DEF AllTold
    <2> QED BY <1>8, <2>7, <2>10 DEF AInv
  <1> QED BY <1>9, <1>10

\* What the messages say stays true when a console records its payment under a
\* nonce that has no row.
LEMMA RowRecorded ==
    ASSUME NEW w \in Wallets, NEW o \in Wallets, o = Other(w), w = Other(o),
           NEW ts \in Tables, NEW us \in Tables, NEW v \in Nonces, v = LatestValid(ts),
           NEW rs \in Tables, LatestValid(rs) = v, NEW b, NEW c,
           \A k \in Nonces : ts[k] # NoTrade => rs[k] = ts[k],
           \A k \in Nonces : Fresh(ts[k]) => Fresh(rs[k]),
           NoneSigned(ts) => NoneSigned(rs), NEW m \in CMessage
    PROVE  /\ Says(w, ts, us, b, c, m) => Says(w, rs, us, b, c, m)
           /\ Says(o, us, ts, c, b, m) => Says(o, us, rs, c, b, m)
  <1>1. PICK n \in Nonces, a \in Nonces : n = m.nonce /\ a = Agreed(m)
    <2>1. m.nonce \in PaidNonces /\ m.nego \in SUBSET PaidNonces
      BY DEF CMessage
    <2> QED BY <2>1, TheOK, Constants DEF Agreed
  <1>2. ts[v] \in CTrade /\ rs[v] = ts[v]
    BY LatestFacts, NoTradeFacts
  <1>3. /\ ResignRequest(rs) = ResignRequest(ts)
        /\ \A resign, k : Acks(ts, resign, k) => Acks(rs, resign, k)
    BY <1>2 DEF ResignRequest, Acks
  <1>4. /\ \A k \in Nonces : Waiting(ts[k]) => rs[k] = ts[k]
        /\ \A k \in Nonces : Signed(ts[k]) => rs[k] = ts[k]
    BY NoTradeFacts DEF Waiting, Signed
  <1>5. ASSUME m.role = -1, PaymentSays(w, ts, b, m) PROVE PaymentSays(w, rs, b, m)
    BY <1>1, <1>3, <1>5 DEF PaymentSays
  <1>6. ASSUME m.role = 0, AnswerSays(w, ts, us, b, c, m) PROVE AnswerSays(w, rs, us, b, c, m)
    BY <1>1, <1>3, <1>4, <1>6 DEF AnswerSays
  <1>7. ASSUME m.role = 0, AnswerSays(o, us, ts, c, b, m) PROVE AnswerSays(o, us, rs, c, b, m)
    BY <1>1, <1>3, <1>4, <1>7 DEF AnswerSays
  <1>8. ASSUME m.role = 1, SignatureSays(o, ts, us, b, c, m) PROVE SignatureSays(o, rs, us, b, c, m)
    BY <1>1, <1>3, <1>4, <1>8 DEF SignatureSays
  <1>9. ASSUME m.role = 1, SignatureSays(w, us, ts, c, b, m) PROVE SignatureSays(w, us, rs, c, b, m)
    BY <1>1, <1>3, <1>4, <1>9 DEF SignatureSays
  <1> QED BY <1>5, <1>6, <1>7, <1>8, <1>9 DEF Says

LEMMA RecordPaymentAgreed ==
    ASSUME IInv, PInv, AInv, NEW w \in Wallets, RecordPayment(w), env' = env
    PROVE  AInv'
  <1>1. /\ trades \in [Wallets -> Tables] /\ pending \in [Wallets -> SUBSET PendingRow]
        /\ net \in [Wallets -> Seq(CMessage)]
    BY DEF IInv
  <1>2. PICK r \in pending[w] :
           /\ trades' = [trades EXCEPT ![w][r.nonce] = IF @ = NoTrade THEN r.trade ELSE @]
           /\ pending' = [pending EXCEPT ![w] = {}]
           /\ UNCHANGED <<balance, net, faults>>
    BY DEF RecordPayment
  <1>3. PICK n \in PaidNonces : n = r.nonce
    BY <1>1, <1>2 DEF PendingRow
  <1>4. PICK o \in Wallets : o = Other(w) /\ Other(o) = w /\ o # w /\ \A x \in Wallets : x = w \/ x = o
    BY Others
  <1>5. PICK ts \in Tables, us \in Tables, b \in CBal, c \in CBal :
           ts = trades[w] /\ us = trades[o] /\ b = balance[w] /\ c = balance[o]
    BY <1>4 DEF IInv
  <1>6. PICK t \in CTrade : t = r.trade /\ Fresh(t)
    BY <1>1, <1>2 DEF PendingRow, AInv, ConsolesFresh
  <1>7. PICK v \in Nonces, u \in Nonces : v = LatestValid(ts) /\ u = LatestValid(us)
    BY LatestFacts
  <1>8. /\ Pair(w, ts, us, v, u) /\ Early(ts, us, v, u, b, c) /\ Early(us, ts, u, v, c, b)
        /\ Books(ts, us, v, u, b, c) /\ Line(w, ts, v) /\ n \in Nonces
    <2>1. Both(w, ts, us, b, c)
      BY <1>4, <1>5 DEF AInv, AllPaired
    <2> QED BY <1>7, <2>1, Constants DEF Both, Pair
  <1>9. PICK rs : rs = [ts EXCEPT ![n] = IF ts[n] = NoTrade THEN t ELSE ts[n]]
    OBVIOUS
  <1>10. trades' = [trades EXCEPT ![w] = rs]
    BY <1>1, <1>2, <1>3, <1>5, <1>6, <1>9
  <1>11. trades'[w] = rs /\ trades'[o] = us /\ balance'[w] = b /\ balance'[o] = c
    BY <1>1, <1>2, <1>4, <1>5, <1>10
  <1>12. /\ t.role = "FOUNDER" /\ t.state = "init" /\ t.commitment = {} /\ t.peer_commitment = {}
         /\ ~Signed(t) /\ RowSigned(w, t)
    BY <1>6, NoTradeFacts DEF Fresh, Signed, RowSigned, IsConfirmed
  <1>13. /\ rs \in Tables /\ Both(w, rs, us, b, c) /\ LatestValid(rs) = v
         /\ \A k \in Nonces : ts[k] # NoTrade => rs[k] = ts[k]
         /\ \A k \in Nonces : rs[k] = ts[k] \/ rs[k] = t
    <2>1. CASE ts[n] # NoTrade
      <3>1. rs = ts
        BY <1>9, <2>1 DEF Tables
      <3> QED BY <1>7, <1>8, <3>1, BothOf
    <2>2. CASE ts[n] = NoTrade
      <3>1. rs = [ts EXCEPT ![n] = t]
        BY <1>9, <2>2
      <3>2. rs \in Tables /\ Rewrites(rs, ts, n, t)
        BY <1>8, <3>1, RowOK, Constants DEF Tables, Rewrites
      <3>3. n > v
        <4>1. ~(n <= v)
          BY <1>8, <2>2, ValidFacts DEF Line
        <4> QED BY <1>8, <4>1, Interval
      <3>4. Pair(w, rs, us, v, u)
        BY <1>8, <1>12, <3>2, <3>3, PairBeyond
      <3>5. Early(rs, us, v, u, b, c) /\ Early(us, rs, u, v, c, b)
        BY <1>8, <1>12, <3>2, <3>3, EarlyBeyond
      <3>6. Booked(ts, v, b) => Booked(rs, v, b)
        BY <1>8, <3>2, <3>3, BookedBeyond
      <3>7. Books(rs, us, v, u, b, c)
        BY <1>8, <3>6, BooksStep
      <3>8. Both(w, rs, us, b, c) /\ LatestValid(rs) = v
        BY <3>2, <3>4, <3>5, <3>7, BothOf, PairLatest
      <3> QED BY <2>2, <3>2, <3>8 DEF Rewrites
    <2> QED BY <2>1, <2>2
  <1>14. AllPaired'
    <2>1. Both(o, us, rs, c, b)
      BY <1>4, <1>13, BothSwap
    <2>2. ASSUME NEW x \in Wallets
          PROVE  Both(x, trades'[x], trades'[Other(x)], balance'[x], balance'[Other(x)])
      <3>1. CASE x = w
        BY <1>4, <1>11, <1>13, <3>1
      <3>2. CASE x = o
        BY <1>4, <1>11, <2>1, <3>2
      <3> QED BY <1>4, <3>1, <3>2
    <2>3. Orderly' <=> Orderly
      BY DEF Orderly
    <2> QED BY <2>2, <2>3 DEF AllPaired, Both, Books
  <1>15. AllTold'
    <2>1. /\ \A k \in Nonces : Fresh(ts[k]) => Fresh(rs[k])
          /\ NoneSigned(ts) => NoneSigned(rs)
      BY <1>6, <1>12, <1>13 DEF NoneSigned
    <2>2. ASSUME NEW m \in CMessage
          PROVE  /\ Says(w, ts, us, b, c, m) => Says(w, rs, us, b, c, m)
                 /\ Says(o, us, ts, c, b, m) => Says(o, us, rs, c, b, m)
      BY <1>4, <1>7, <1>13, <2>1, RowRecorded
    <2>3. ASSUME NEW x \in Wallets, NEW j \in DOMAIN net[x]
          PROVE  Says(x, trades'[x], trades'[Other(x)], balance'[x], balance'[Other(x)], net[x][j])
      <3>1. PICK m \in CMessage : m = net[x][j]
        BY <1>1
      <3>2. Says(x, trades[x], trades[Other(x)], balance[x], balance[Other(x)], m)
        BY <3>1 DEF AInv, AllTold
      <3>3. CASE x = w
        BY <1>4, <1>5, <1>11, <2>2, <3>1, <3>2, <3>3
      <3>4. CASE x = o
        BY <1>4, <1>5, <1>11, <2>2, <3>1, <3>2, <3>4
      <3> QED BY <1>4, <3>3, <3>4
    <2> QED BY <1>2, <2>3 DEF AllTold
  <1>16. ConsolesFresh'
    BY <1>1, <1>2 DEF AInv, ConsolesFresh
  <1> QED BY <1>14, <1>15, <1>16 DEF AInv

LEMMA LoseAgreed ==
    ASSUME IInv, PInv, AInv, NEW w \in Wallets, NEW i \in DOMAIN net[w], Lose(w, i), env' = env
    PROVE  AInv'
  <1>1. net \in [Wallets -> Seq(CMessage)] /\ Other(w) \in Wallets /\ Other(w) # w
    BY Others DEF IInv
  <1>2. net[Other(w)] = <<>>
    <2>1. net[w] # <<>>
      BY <1>1
    <2> QED BY <2>1 DEF PInv, OneAtATime
  <1>3. net'[w] = <<>> /\ net'[Other(w)] = <<>>
    <2>1. i = 1 /\ Len(net[w]) = 1
      <3>1. PICK last \in Nat : last = Len(net[w])
        BY <1>1
      <3>2. i \in 1 .. last /\ last <= 1
        BY <1>1, <3>1 DEF PInv, OneAtATime
      <3>3. i = 1 /\ last = 1
        BY <3>2
      <3> QED BY <3>1, <3>3
    <2>2. RemoveAt(net[w], i) = <<>>
      BY <1>1, <2>1 DEF RemoveAt
    <2> QED BY <1>1, <1>2, <2>2 DEF Lose
  <1>4. \A x \in Wallets : DOMAIN net'[x] = {}
    BY <1>3, Others
  <1>5. trades' = trades /\ pending' = pending /\ balance' = balance
    BY DEF Lose
  <1>6. Orderly' <=> Orderly
    BY DEF Orderly
  <1> QED BY <1>4, <1>5, <1>6 DEF AInv, AllPaired, AllTold, ConsolesFresh, Both, Books

LEMMA InitAgreed == Init => AInv
  <1> SUFFICES ASSUME Init PROVE AInv
    OBVIOUS
  <1>1. \A w \in Wallets : DOMAIN net[w] = {} /\ pending[w] = {} /\ balance[w] = Deposit
    BY DEF Init
  <1>2. trades \in [Wallets -> Tables]
    BY InitInv DEF IInv
  <1>3. ASSUME NEW w \in Wallets
        PROVE  /\ trades[w][1] = FoundingTrade(w) /\ \A n \in Nonces : n # 1 => trades[w][n] = NoTrade
    BY <1>3, Constants DEF Init
  <1>4. ASSUME NEW w \in Wallets, NEW t, t = FoundingTrade(w)
        PROVE  /\ IsConfirmed(t) /\ Valid(t) /\ ~AwaitsPayer(t) /\ ~Signed(t) /\ RowSigned(w, t)
               /\ t.role = (IF w = Founder THEN "FOUNDER" ELSE "PARTNER")
               /\ t.commitment = Sig(Founder, Deposit) /\ t.peer_commitment = Sig(Founder, Deposit)
    <2>1. /\ t.role = (IF w = Founder THEN "FOUNDER" ELSE "PARTNER") /\ t.state = "confirmed" /\ t.bal = Deposit
          /\ t.commitment = Sig(Founder, Deposit) /\ t.peer_commitment = Sig(Founder, Deposit)
      BY <1>4 DEF FoundingTrade, Sig
    <2>2. Sig(Founder, Deposit) # {}
      BY DEF Sig
    <2>3. RowSigned(w, t)
      BY <2>1, <2>2, Constants DEF RowSigned, IsConfirmed, Wallets, Other
    <2> QED BY <2>1, <2>3 DEF IsConfirmed, Valid, AwaitsPayer, Signed
  <1>5. ASSUME NEW w \in Wallets
        PROVE  Line(w, trades[w], 1) /\ NoneSigned(trades[w]) /\ Booked(trades[w], 1, Deposit)
    <2>1. ~Valid(NoTrade) /\ ~Signed(NoTrade)
      BY ValidFacts DEF Signed
    <2>2. Line(w, trades[w], 1)
      <3>1. ASSUME NEW n \in Nonces
            PROVE  (trades[w][n] # NoTrade => RowSigned(w, trades[w][n])) /\ (Valid(trades[w][n]) <=> n <= 1)
        BY <1>3, <1>4, <2>1, Interval
      <3> QED BY <1>3, <1>4, <3>1, Constants DEF Line
    <2>3. NoneSigned(trades[w])
      BY <1>3, <1>4, <2>1 DEF NoneSigned
    <2>4. Booked(trades[w], 1, Deposit)
      BY <1>3, <1>4, SigBalance DEF Booked
    <2> QED BY <2>2, <2>3, <2>4
  <1>6. ASSUME NEW w \in Wallets
        PROVE  Both(w, trades[w], trades[Other(w)], balance[w], balance[Other(w)])
    <2>1. PICK o \in Wallets : o = Other(w) /\ o # w
      BY Others
    <2>2. Agree(trades[w], trades[o])
      <3>1. ASSUME NEW n \in Nonces, Valid(trades[w][n])
            PROVE  trades[w][n].role # trades[o][n].role /\ trades[w][n].commitment = trades[o][n].commitment
        <4>1. n = 1
          BY <1>3, <3>1, ValidFacts
        <4>2. (w = Founder) <=> (o # Founder)
          BY <2>1 DEF Wallets
        <4> QED BY <1>3, <1>4, <2>1, <4>1, <4>2
      <3> QED BY <3>1 DEF Agree
    <2>3. Pair(w, trades[w], trades[o], 1, 1)
      BY <1>5, <2>1, <2>2 DEF Pair, Ahead
    <2>4. Early(trades[w], trades[o], 1, 1, Deposit, Deposit) /\ Early(trades[o], trades[w], 1, 1, Deposit, Deposit)
      BY <1>5, <2>1, NoneEarly
    <2>5. Books(trades[w], trades[o], 1, 1, Deposit, Deposit)
      BY <1>5, <2>1 DEF Books
    <2> QED BY <1>1, <1>2, <2>1, <2>3, <2>4, <2>5, BothOf
  <1> QED BY <1>1, <1>6 DEF AInv, AllPaired, AllTold, ConsolesFresh

LEMMA NextAgreed == IInv /\ PInv /\ Patient /\ AInv /\ [Next]_vars => AInv'
  <1> SUFFICES ASSUME IInv, PInv, Patient, AInv, [Next]_vars PROVE AInv'
    OBVIOUS
  <1>1. CASE UNCHANGED vars
    BY <1>1 DEF AInv, AllPaired, AllTold, ConsolesFresh, Both, Books, Orderly, vars
  <1>2. CASE Next
    <2>1. env' = env
      BY <1>2 DEF Next
    <2>2. PICK w \in Wallets :
             \/ \E p \in env.payments, how \in Outcomes \ {"crash"} : Pay(w, p, how)
             \/ RecordPayment(w)
             \/ CrashConsole(w)
             \/ \E i \in DOMAIN net[w] : (\E how \in Outcomes : Handle(w, i, how)) \/ Lose(w, i)
      BY <1>2 DEF Next
    <2>3. ASSUME NEW p \in env.payments, NEW how, Pay(w, p, how) PROVE AInv'
      BY <2>1, <2>3, PayAgreed DEF Patient
    <2>4. CASE RecordPayment(w)
      BY <2>1, <2>4, RecordPaymentAgreed
    <2>5. CASE CrashConsole(w)
      BY <2>5 DEF CrashConsole, Patient, InOrder
    <2>6. ASSUME NEW i \in DOMAIN net[w], NEW how \in Outcomes, Handle(w, i, how) PROVE AInv'
      <3>1. how \in {"sent", "unsent"} /\ (Orderly => how = "sent")
        BY DEF Outcomes, Patient, InOrder, Orderly
      <3>2. CASE RefuseResign(w, i)
        BY <2>1, <3>2, RefuseResignAgreed
      <3>3. CASE net[w][i].role = -1 /\ HandleRsmc(w, i, how)
        BY <2>1, <3>1, <3>3, RsmcAsked, RsmcUnasked
      <3>4. CASE net[w][i].role = 0 /\ HandlePartnerResponse(w, i, how)
        BY <2>1, <3>1, <3>4, AnswerSigned, AnswerUnsigned
      <3>5. CASE net[w][i].role = 1 /\ HandleFounderResponse(w, i, how)
        BY <2>1, <3>1, <3>5, SignatureConfirms, SignatureAsks
      <3> QED BY <2>6, <3>2, <3>3, <3>4, <3>5 DEF Handle
    <2>7. ASSUME NEW i \in DOMAIN net[w], Lose(w, i) PROVE AInv'
      BY <2>1, <2>7, LoseAgreed
    <2> QED BY <2>2, <2>3, <2>4, <2>5, <2>6, <2>7
  <1> QED BY <1>1, <1>2

\* With patient users and messages in order, the invariants of this module hold.
LEMMA Agreement == Spec => [](IInv /\ (Patient => PInv /\ AInv))
  <1>1. Init => (Patient => PInv /\ AInv)
    BY InitSigned, InitAgreed
  <1>2. IInv /\ (Patient => PInv /\ AInv) /\ [Next]_vars => (Patient => PInv /\ AInv)'
    <2>1. [Next]_vars => (Patient' <=> Patient)
      BY DEF Next, vars, Patient, InOrder
    <2>2. Patient => Careful
      BY DEF Patient, InOrder, Careful
    <2> QED BY <2>1, <2>2, NextSigned, NextAgreed
  <1> QED BY <1>1, <1>2, Invariance, PTL DEF Spec

\* Where users wait for a payment to end and messages arrive in order, whatever is
\* lost or not sent, and however often an answer is resigned: of a trade both
\* wallets hold as confirmed, each keeps the very signature the other gave.
THEOREM WalletsAgree == Spec => []AgreeOnConfirmed
  <1>1. IInv /\ (Patient => PInv /\ AInv) => AgreeOnConfirmed
    <2> SUFFICES ASSUME IInv, Patient, AInv, NEW n \in Nonces,
                        \A x \in Wallets : IsConfirmed(trades[x][n]), NEW w \in Wallets
                 PROVE  trades[w][n].commitment = trades[Other(w)][n].peer_commitment
      BY DEF AgreeOnConfirmed, Patient
    <2>1. PICK o \in Wallets : o = Other(w)
      BY Others
    <2>2. Line(o, trades[o], LatestValid(trades[o])) /\ Agree(trades[w], trades[o])
      BY <2>1 DEF AInv, AllPaired, Both, Pair
    <2>3. Valid(trades[w][n]) /\ Valid(trades[o][n]) /\ trades[o][n] # NoTrade
      BY ValidFacts, NoTradeFacts
    <2>4. trades[w][n].commitment = trades[o][n].commitment
      BY <2>2, <2>3 DEF Agree
    <2>5. trades[o][n].peer_commitment = trades[o][n].commitment
      BY <2>2, <2>3 DEF Line, RowSigned
    <2> QED BY <2>1, <2>4, <2>5
  <1> QED BY <1>1, Agreement, PTL

-----------------------------------------------------------------------------
(* What a wallet would close with.                                         *)

\* It is the last valid row, or the one before when that awaits its payer.
LEMMA LineConfirmed ==
    ASSUME NEW w, NEW ts \in Tables, NEW v, Line(w, ts, v)
    PROVE  /\ LatestConfirmed(ts) = IF IsConfirmed(ts[v]) THEN v ELSE v - 1
           /\ IsConfirmed(ts[v]) <=> ~AwaitsPayer(ts[v])
  <1>1. v \in Nonces /\ ts[v] \in CTrade
    BY LineLatest
  <1>2. IsConfirmed(ts[v]) <=> ~AwaitsPayer(ts[v])
    BY LastConfirmed
  <1>3. PICK C \in SUBSET Nonces : C = {n \in Nonces : IsConfirmed(ts[n])}
    OBVIOUS
  <1>4. PICK k \in Nonces : k = IF IsConfirmed(ts[v]) THEN v ELSE v - 1
    BY <1>1, <1>2 DEF Line
  <1>5. k \in C
    <2>1. IsConfirmed(ts[k])
      BY <1>2, <1>4 DEF Line
    <2> QED BY <1>3, <2>1
  <1>6. \A n \in C : n <= k
    <2>1. ASSUME NEW n \in C PROVE n <= k
      <3>1. n \in Nonces /\ IsConfirmed(ts[n])
        BY <1>3
      <3>2. n <= v
        BY <3>1, ValidFacts DEF Line
      <3>3. ~IsConfirmed(ts[v]) => n # v
        BY <3>1
      <3> QED BY <1>1, <1>4, <3>1, <3>2, <3>3, Interval
    <2> QED BY <2>1
  <1>7. Max(C) = k
    <2>1. PICK x \in Nonces : x = Max(C) /\ x \in C /\ \A n \in C : n <= x
      BY <1>5, MaxOK
    <2>2. x <= k /\ k <= x
      BY <1>5, <1>6, <2>1
    <2> QED BY <2>1, <2>2, Interval
  <1> QED BY <1>2, <1>3, <1>4, <1>7 DEF LatestConfirmed

\* Where only messages are lost and users wait for a payment to end: the balance
\* a wallet shows and pays from is the one its peer's signature covers on its last
\* confirmed trade.
THEOREM BookSigned == Spec => []BookIsSigned
  <1>1. IInv /\ (Patient => PInv /\ AInv) => BookIsSigned
    <2> SUFFICES ASSUME IInv, AInv, Orderly, NEW w \in Wallets,
                        NEW s \in trades[w][LatestConfirmed(trades[w])].peer_commitment
                 PROVE  s.bal = balance[w]
      BY DEF BookIsSigned, Patient, Orderly, InOrder
    <2>1. PICK ts \in Tables, b \in CBal : ts = trades[w] /\ b = balance[w]
      BY DEF IInv
    <2>2. PICK v : v = LatestValid(ts)
      OBVIOUS
    <2>3. Line(w, ts, v) /\ Booked(ts, v, b)
      BY <2>1, <2>2 DEF AInv, AllPaired, Both, Pair, Books
    <2>4. PICK k : k = LatestConfirmed(ts) /\ k = IF IsConfirmed(ts[v]) THEN v ELSE v - 1
      BY <2>3, LineConfirmed
    <2> QED BY <2>1, <2>3, <2>4 DEF Booked
  <1> QED BY <1>1, Agreement, PTL

\* Where users wait for a payment to end and messages arrive in order: a wallet
\* that closes with its last confirmed trade is at most one trade behind its peer.
\* Without the first condition the property is model-checked only.
THEOREM PatientCloserNeverConvicted == Spec /\ env.patient => []CloserNeverConvicted
  <1>1. IInv /\ (Patient => PInv /\ AInv) => (env.patient => CloserNeverConvicted)
    <2> SUFFICES ASSUME IInv, AInv, NEW w \in Wallets
                 PROVE  LatestConfirmed(trades[w]) <= LatestConfirmed(trades[Other(w)]) + 1
      BY DEF CloserNeverConvicted, Patient
    <2>1. PICK o \in Wallets : o = Other(w)
      BY Others
    <2>2. PICK ts \in Tables, us \in Tables : ts = trades[w] /\ us = trades[o]
      BY DEF IInv
    <2>3. PICK v \in Nonces, u \in Nonces : Pair(w, ts, us, v, u)
      BY <2>1, <2>2, LatestFacts DEF AInv, AllPaired, Both
    <2>4. /\ Line(w, ts, v) /\ Line(o, us, u) /\ Ahead(ts, v, u) /\ v \in Nat /\ u \in Nat
      BY <2>1, <2>3, Interval DEF Pair
    <2>5. PICK k : k = LatestConfirmed(ts) /\ k = IF AwaitsPayer(ts[v]) THEN v - 1 ELSE v
      BY <2>4, LineConfirmed
    <2>6. PICK l : l = LatestConfirmed(us) /\ l = IF AwaitsPayer(us[u]) THEN u - 1 ELSE u
      BY <2>4, LineConfirmed
    <2>7. k <= l + 1
      BY <2>4, <2>5, <2>6 DEF Ahead
    <2> QED BY <2>1, <2>2, <2>5, <2>6, <2>7
  <1>2. env.patient /\ [Next]_vars => env.patient'
    BY DEF Next, vars
  <1> QED BY <1>1, <1>2, Agreement, PTL DEF Spec

-----------------------------------------------------------------------------
(* Confirmed trades.                                                       *)

\* No row of ts that is confirmed is another one in rs.
KeepsConfirmed(ts, rs) == \A n \in Nonces : IsConfirmed(ts[n]) => rs[n] = ts[n]

Untouched == \A w \in Wallets : KeepsConfirmed(trades[w], trades'[w])

LEMMA KeepsBoth ==
    ASSUME NEW ts, NEW us, NEW rs, KeepsConfirmed(ts, us), KeepsConfirmed(us, rs)
    PROVE  KeepsConfirmed(ts, rs)
  BY DEF KeepsConfirmed

LEMMA KeepsOthers ==
    ASSUME NEW ts, NEW n, ~IsConfirmed(ts[n]), NEW t, NEW rs, Rewrites(rs, ts, n, t)
    PROVE  KeepsConfirmed(ts, rs)
  BY DEF KeepsConfirmed, Rewrites

LEMMA WriteKeeps ==
    ASSUME IInv, NEW w \in Wallets, NEW rs, NEW d, Write(w, rs, d), KeepsConfirmed(trades[w], rs)
    PROVE  Untouched
  BY DEF IInv, Write, Untouched, KeepsConfirmed

LEMMA ResignKeeps ==
    ASSUME NEW w \in Wallets, NEW ts \in Tables, NEW resign \in SUBSET ResignBody,
           \A r \in resign : ResignAccepted(w, ts, r)
    PROVE  KeepsConfirmed(ts, TradesAfter(w, ts, resign))
  <1>1. CASE resign = {}
    BY <1>1 DEF TradesAfter, KeepsConfirmed
  <1>2. CASE resign # {}
    <2>1. PICK r \in ResignBody : r = The(resign) /\ ResignAccepted(w, ts, r)
      BY <1>2, TheOK
    <2>2. TradesAfter(w, ts, resign) = Resigned(w, ts, r)
      BY <1>2, <2>1 DEF TradesAfter
    <2>3. PICK n \in Nonces : n = r.nonce
      BY DEF ResignBody
    <2>4. CASE IsConfirmed(ts[n])
      BY <2>2, <2>3, <2>4 DEF Resigned, KeepsConfirmed
    <2>5. CASE ~IsConfirmed(ts[n])
      BY <2>1, <2>2, <2>3, <2>5, ResignedRow, KeepsOthers
    <2> QED BY <2>4, <2>5
  <1> QED BY <1>1, <1>2

\* No row beyond the valid ones is confirmed.
LEMMA NotBeyond ==
    ASSUME NEW ts \in Tables, NEW n \in Nonces, IsConfirmed(ts[n])
    PROVE  n <= LatestValid(ts)
  <1>1. PICK V \in SUBSET Nonces : V = {k \in Nonces : IsConfirmed(ts[k]) \/ ts[k].state = "confirming"}
    OBVIOUS
  <1>2. n \in V
    BY <1>1
  <1> QED BY <1>1, <1>2, MaxOK DEF LatestValid

LEMMA RsmcKeeps ==
    ASSUME IInv, AInv, NEW w \in Wallets, NEW i \in DOMAIN net[w], NEW how,
           HandleRsmc(w, i, how), net[w][i].role = -1
    PROVE  Untouched
  <1>1. PICK m \in CMessage : m = net[w][i] /\ m.role = -1
    BY Taken
  <1>2. m.resign \in SUBSET ResignBody /\ env.lastNonce \in 1 .. MaxNonce
    BY <1>1, Taken
  <1>3. PICK o \in Wallets : o = Other(w)
    BY Others
  <1>4. PICK ts \in Tables, us \in Tables, b \in CBal, c \in CBal :
           ts = trades[w] /\ us = trades[o] /\ b = balance[w] /\ c = balance[o]
    BY <1>3 DEF IInv
  <1>5. PICK v \in Nonces, u \in Nonces : v = LatestValid(ts) /\ u = LatestValid(us)
    BY LatestFacts
  <1>6. /\ Pair(w, ts, us, v, u) /\ Early(ts, us, v, u, b, c) /\ Early(us, ts, u, v, c, b)
        /\ Says(w, ts, us, b, c, m)
    BY <1>1, <1>3, <1>4, <1>5, Meet DEF Meeting
  <1>7. PICK resign \in SUBSET ResignBody : resign = m.resign /\ \A r \in resign : ResignAccepted(w, ts, r)
    BY <1>1, <1>2, <1>4 DEF HandleRsmc
  <1>8. PICK d : d = BalanceAfter(ts, b, resign)
    OBVIOUS
  <1>9. PICK after \in Tables : after = IF resign # {} THEN TradesAfter(w, ts, resign) ELSE SettleHeld(ts)
    BY <1>7, Constants, ResignOK, SettleHeldOK
  <1>10. PICK nonce : nonce = 1 + IF resign # {} THEN The(resign).nonce ELSE LatestValid(ts)
    OBVIOUS
  <1>11. nonce <= env.lastNonce
    BY <1>1, <1>4, <1>7, <1>10 DEF HandleRsmc
  <1>12. KeepsConfirmed(ts, after) /\ nonce \in Nonces /\ ~IsConfirmed(after[nonce])
    <2>1. CASE resign = {}
      <3>1. after = ts
        BY <1>6, <1>9, <2>1, NothingHeld DEF Pair
      <3>2. nonce \in Nonces /\ nonce > v
        BY <1>2, <1>5, <1>10, <1>11, <2>1, Interval
      <3>3. ~IsConfirmed(after[nonce])
        <4>1. ~(nonce <= v)
          BY <3>2, Interval
        <4> QED BY <1>5, <3>1, <3>2, <4>1, NotBeyond
      <3> QED BY <3>1, <3>2, <3>3 DEF KeepsConfirmed
    <2>2. CASE resign # {}
      <3>1. after = TradesAfter(w, ts, resign) /\ resign = ResignRequest(us)
        BY <1>1, <1>3, <1>6, <1>7, <1>9, <2>2 DEF Says, PaymentSays
      <3>2. PICK x \in {u, u + 1} : Pair(w, after, us, x, u) /\ The(resign).nonce = u
        BY <1>6, <1>7, <1>8, <2>2, <3>1, RequestTaken
      <3>3. nonce = u + 1 /\ nonce \in Nonces /\ x \in Nonces
        BY <1>2, <1>10, <1>11, <2>2, <3>2, Interval, PairLatest
      <3>4. ASSUME IsConfirmed(after[nonce]) PROVE FALSE
        <4>1. nonce <= x
          BY <3>2, <3>3, <3>4, ValidFacts DEF Pair, Line
        <4>2. x = u + 1
          BY <3>2, <3>3, <4>1, Interval
        <4>3. AwaitsPayer(after[x])
          BY <3>2, <4>2, Interval DEF Pair, Ahead
        <4> QED BY <3>3, <3>4, <4>2, <4>3 DEF AwaitsPayer, IsConfirmed
      <3>5. KeepsConfirmed(ts, after)
        BY <1>7, <3>1, ResignKeeps
      <3> QED BY <3>3, <3>4, <3>5
    <2> QED BY <2>1, <2>2
  <1>13. PICK request : request = IF resign # {} THEN {} ELSE ResignRequest(ts)
    OBVIOUS
  <1>14. PICK own : own = IF request = {} THEN {[payer |-> Other(w), bal |-> m.bal]} ELSE {}
    OBVIOUS
  <1>15. PICK t : t = [UnsignedTrade("PARTNER", m.bal) EXCEPT
                         !.commitment = own, !.state = IF request = {} THEN "confirming" ELSE "init"]
    OBVIOUS
  <1>16. PICK row : row = [after EXCEPT ![nonce] = t]
    OBVIOUS
  <1>17. Rewrites(row, after, nonce, t)
    BY <1>12, <1>16 DEF Tables, Rewrites
  <1>18. KeepsConfirmed(ts, row)
    BY <1>12, <1>17, KeepsOthers, KeepsBoth
  <1>19. Write(w, after, d) \/ Write(w, IF how = "sent" THEN row ELSE after, d)
    BY <1>1, <1>4, <1>7, <1>8, <1>9, <1>10, <1>13, <1>14, <1>15, <1>16 DEF HandleRsmc
  <1>20. Write(w, after, d) \/ Write(w, row, d)
    BY <1>19
  <1> QED BY <1>4, <1>12, <1>18, <1>20, WriteKeeps

\* Renegotiating, signing and confirming a row beyond the valid ones.
LEMMA PaymentKeeps ==
    ASSUME NEW ts \in Tables, NEW own \in Nonces, NEW n \in Nonces, n = LatestValid(ts) + 1, NEW bal,
           NEW table, table = Renegotiated(ts, own, n, bal), NEW mine, NEW sig,
           NEW signed, signed = RowSignedWith(table, n, mine)
    PROVE  /\ KeepsConfirmed(ts, table) /\ KeepsConfirmed(ts, signed)
           /\ KeepsConfirmed(ts, Confirm(signed, n, sig))
  <1>1. LatestValid(ts) \in Nonces /\ DOMAIN ts = Nonces
    BY LatestFacts DEF Tables
  <1>2. ASSUME NEW k \in Nonces, IsConfirmed(ts[k]) PROVE k # n /\ (n <= own => k # own)
    <2>1. k <= LatestValid(ts)
      BY <1>2, NotBeyond
    <2> QED BY <1>1, <2>1, Interval
  <1>3. ASSUME NEW k \in Nonces, IsConfirmed(ts[k]) PROVE table[k] = ts[k] /\ DOMAIN table = Nonces
    <2>1. CASE n = own
      BY <1>1, <2>1 DEF Renegotiated
    <2>2. CASE n # own
      <3>1. k # n /\ (n < own => k # own)
        BY <1>2, <1>3, Interval
      <3> QED BY <1>1, <2>2, <3>1 DEF Renegotiated
    <2> QED BY <2>1, <2>2
  <1>4. ASSUME NEW k \in Nonces, IsConfirmed(ts[k]) PROVE signed[k] = ts[k] /\ DOMAIN signed = Nonces
    BY <1>2, <1>3, <1>4 DEF RowSignedWith
  <1>5. ASSUME NEW k \in Nonces, IsConfirmed(ts[k]) PROVE Confirm(signed, n, sig)[k] = ts[k]
    <2>1. k # n /\ signed[k] = ts[k] /\ DOMAIN signed = Nonces
      BY <1>2, <1>4, <1>5
    <2>2. PICK t : [signed EXCEPT ![n].peer_commitment = sig, ![n].state = "confirmed"] = [signed EXCEPT ![n] = t]
      OBVIOUS
    <2>3. [signed EXCEPT ![n] = t][k] = ts[k]
      BY <2>1
    <2> QED BY <2>1, <2>2, <2>3 DEF Confirm
  <1> QED BY <1>3, <1>4, <1>5 DEF KeepsConfirmed

LEMMA PartnerResponseKeeps ==
    ASSUME IInv, NEW w \in Wallets, NEW i \in DOMAIN net[w], NEW how, HandlePartnerResponse(w, i, how)
    PROVE  Untouched
  <1>1. PICK m \in CMessage : m = net[w][i]
    BY Taken
  <1>2. /\ m.nonce \in PaidNonces /\ m.nego \in SUBSET PaidNonces /\ m.resign \in SUBSET ResignBody
        /\ m.nonce \in Nonces
    BY <1>1, Taken, Constants
  <1>3. PICK ts \in Tables, b \in CBal : ts = trades[w] /\ b = balance[w]
    BY DEF IInv
  <1>4. \A r \in m.resign : ResignAccepted(w, ts, r)
    BY <1>1, <1>3 DEF HandlePartnerResponse
  <1>5. PICK after \in Tables, d \in CBal :
           after = TradesAfter(w, ts, m.resign) /\ d = BalanceAfter(ts, b, m.resign)
    BY <1>2, <1>4, Constants, ResignOK
  <1>6. KeepsConfirmed(ts, after)
    BY <1>2, <1>4, <1>5, ResignKeeps
  <1>7. PICK n \in Nonces : n = IF m.nego = {} THEN m.nonce ELSE The(m.nego)
    BY <1>2, TheOK, Constants
  <1>8. PICK bases : bases = IF m.sig = {} THEN ResignedBalances(after, m.resign) ELSE {}
    OBVIOUS
  <1>9. PICK bal : bal = IF bases = {} THEN m.bal ELSE AfterPayment(The(bases), w, m.payment)
    OBVIOUS
  <1>10. PICK table : table = Renegotiated(after, m.nonce, n, bal)
    OBVIOUS
  <1>11. PICK ack : ack = AckAfter(after, m.resign)
    OBVIOUS
  <1>12. CASE Write(w, after, d)
    BY <1>3, <1>6, <1>12, WriteKeeps
  <1>13. CASE NonceAgrees(after, n) /\ SignPayment(w, i, how, m, n, bal, table, d, ack)
    <2>1. PICK mine : mine = IF table[n].commitment = {} THEN {[payer |-> w, bal |-> bal]} ELSE table[n].commitment
      OBVIOUS
    <2>2. PICK signed : signed = RowSignedWith(table, n, mine)
      OBVIOUS
    <2>3. PICK paid : paid = IF how = "sent" THEN Paid(d, w, m.payment) ELSE d
      OBVIOUS
    <2>4. PICK confirmed : confirmed = Confirm(signed, n, m.sig)
      OBVIOUS
    <2>5. n = LatestValid(after) + 1
      BY <1>13 DEF NonceAgrees
    <2>6. KeepsConfirmed(after, table) /\ KeepsConfirmed(after, signed) /\ KeepsConfirmed(after, confirmed)
      BY <1>2, <1>10, <2>2, <2>4, <2>5, PaymentKeeps
    <2>7. Write(w, table, d) \/ Write(w, signed, d) \/ Write(w, confirmed, paid)
      BY <1>13, <2>1, <2>2, <2>3, <2>4 DEF SignPayment, RowSignedWith
    <2>8. KeepsConfirmed(ts, table) /\ KeepsConfirmed(ts, signed) /\ KeepsConfirmed(ts, confirmed)
      BY <1>6, <2>6, KeepsBoth
    <2> QED BY <1>3, <2>7, <2>8, WriteKeeps
  <1>14. \/ Write(w, after, d)
         \/ NonceAgrees(after, n) /\ SignPayment(w, i, how, m, n, bal, table, d, ack)
    BY <1>1, <1>3, <1>5, <1>7, <1>8, <1>9, <1>10, <1>11 DEF HandlePartnerResponse
  <1> QED BY <1>12, <1>13, <1>14

LEMMA FounderResponseKeeps ==
    ASSUME IInv, PInv, AInv, NEW w \in Wallets, NEW i \in DOMAIN net[w], NEW how,
           HandleFounderResponse(w, i, how), net[w][i].role = 1
    PROVE  Untouched
  <1>1. PICK m \in CMessage : m = net[w][i] /\ m.role = 1
    BY Taken
  <1>2. /\ m.nonce \in PaidNonces /\ m.resign \in SUBSET ResignBody /\ m.bal \in CBal
    BY <1>1, Taken
  <1>3. PICK o \in Wallets : o = Other(w)
    BY Others
  <1>4. PICK ts \in Tables, b \in CBal : ts = trades[w] /\ b = balance[w]
    BY DEF IInv
  <1>5. PICK n \in PaidNonces : n = m.nonce /\ n \in Nonces
    BY <1>2, Constants
  <1>6. \A r \in m.resign : ResignAccepted(w, ts, r)
    BY <1>1, <1>4 DEF HandleFounderResponse
  <1>7. PICK after \in Tables, d \in CBal :
           after = TradesAfter(w, ts, m.resign) /\ d = BalanceAfter(ts, b, m.resign)
    BY <1>2, <1>6, Constants, ResignOK
  <1>8. KeepsConfirmed(ts, after)
    BY <1>2, <1>6, <1>7, ResignKeeps
  <1>9. /\ Waiting(ts[n])
        /\ m.resign = {} \/ Acks(ts, m.resign, n - 1)
    <2>1. Says(w, ts, trades[o], b, balance[o], m)
      BY <1>1, <1>3, <1>4 DEF AInv, AllTold
    <2> QED BY <1>1, <1>5, <2>1 DEF Says, SignatureSays
  <1>10. ts[n] \in CTrade /\ ~IsConfirmed(ts[n])
    <2>1. TableSigned(w, ts) /\ ts[n] # NoTrade /\ ts[n].role = "PARTNER" /\ ts[n].peer_commitment = {}
      BY <1>4, <1>9, NoTradeFacts DEF PInv, TablesSigned, Waiting
    <2>2. PayeeSigned(w, ts[n])
      BY <1>5, <2>1 DEF TableSigned
    <2> QED BY <1>9, <2>1, <2>2 DEF PayeeSigned, IsConfirmed, Waiting
  <1>11. after[n] = ts[n]
    <2>1. CASE m.resign = {}
      BY <1>7, <2>1 DEF TradesAfter
    <2>2. CASE m.resign # {}
      <3>1. PICK k \in Nonces : k = n - 1 /\ k # n
        <4>1. n - 1 \in Nonces
          BY <1>5, Interval
        <4> QED BY <1>5, <4>1, Interval
      <3>2. PICK r \in ResignBody : r.nonce = k /\ m.resign = {r}
        <4>1. m.resign = {[nonce |-> k, sig |-> ts[k].commitment]}
          BY <1>9, <2>2, <3>1 DEF Acks
        <4>2. PICK r : r = [nonce |-> k, sig |-> ts[k].commitment]
          OBVIOUS
        <4> QED BY <1>2, <4>1, <4>2
      <3>3. after = Resigned(w, ts, r) /\ ResignAccepted(w, ts, r)
        BY <1>6, <1>7, <3>2, TheOnly DEF TradesAfter
      <3>4. CASE IsConfirmed(ts[k])
        BY <3>2, <3>3, <3>4 DEF Resigned
      <3>5. CASE ~IsConfirmed(ts[k])
        <4>1. PICK t \in CTrade : Rewrites(after, ts, k, t)
          BY <3>2, <3>3, <3>5, ResignedRow
        <4> QED BY <1>5, <3>1, <4>1 DEF Rewrites
      <3> QED BY <3>4, <3>5
    <2> QED BY <2>1, <2>2
  <1>12. PICK sig \in SUBSET Commitment : sig = {[payer |-> Other(w), bal |-> m.bal]}
    BY <1>2, Constants, SignedOK
  <1>13. PICK bal \in CBal : bal = m.bal
    BY <1>2
  <1>14. PICK confirmed, signed : confirmed = Confirm(after, n, sig) /\ signed = SignState(after, n, bal, sig)
    OBVIOUS
  <1>15. KeepsConfirmed(after, confirmed) /\ KeepsConfirmed(after, signed)
    <2>1. after[n] # NoTrade /\ ~IsConfirmed(after[n])
      BY <1>10, <1>11, NoTradeFacts
    <2>2. PICK t : Rewrites(confirmed, after, n, t)
      BY <1>5, <1>14, <2>1, ConfirmRow
    <2>3. PICK s : Rewrites(signed, after, n, s)
      BY <1>14, <2>1, SignStateRow
    <2> QED BY <2>1, <2>2, <2>3, KeepsOthers
  <1>16. KeepsConfirmed(ts, confirmed) /\ KeepsConfirmed(ts, signed)
    BY <1>8, <1>15, KeepsBoth
  <1>17. PICK paid : paid = IF how = "crash" THEN d ELSE Paid(d, Other(w), m.payment)
    OBVIOUS
  <1>18. Write(w, confirmed, paid) \/ Write(w, signed, d) \/ Write(w, after, d)
    BY <1>1, <1>4, <1>5, <1>7, <1>12, <1>13, <1>14, <1>17 DEF HandleFounderResponse
  <1> QED BY <1>4, <1>8, <1>16, <1>18, WriteKeeps

\* Paying, recording and losing touch no confirmed row either.
LEMMA NextKeeps ==
    ASSUME IInv, PInv, AInv, Patient, Next
    PROVE  Untouched
  <1>1. PICK w \in Wallets :
           \/ \E p \in env.payments, how \in Outcomes \ {"crash"} : Pay(w, p, how)
           \/ RecordPayment(w)
           \/ CrashConsole(w)
           \/ \E i \in DOMAIN net[w] : (\E how \in Outcomes : Handle(w, i, how)) \/ Lose(w, i)
    BY DEF Next
  <1>2. PICK ts \in Tables : ts = trades[w]
    BY DEF IInv
  <1>3. trades' = trades => Untouched
    BY DEF Untouched, KeepsConfirmed
  <1>4. ASSUME NEW p, NEW how, Pay(w, p, how) PROVE Untouched
    <2>1. Line(w, ts, LatestValid(ts))
      BY <1>2 DEF AInv, AllPaired, Both, Pair
    <2>2. SettleHeld(ts) = ts
      BY <2>1, NothingHeld
    <2>3. trades' = trades
      BY <1>2, <1>4, <2>2 DEF Pay, IInv
    <2> QED BY <1>3, <2>3
  <1>5. CASE RecordPayment(w)
    <2>1. /\ trades \in [Wallets -> Tables] /\ pending \in [Wallets -> SUBSET PendingRow]
      BY DEF IInv
    <2>2. PICK r \in pending[w] : trades' = [trades EXCEPT ![w][r.nonce] = IF @ = NoTrade THEN r.trade ELSE @]
      BY <1>5 DEF RecordPayment
    <2>3. ASSUME NEW x \in Wallets, NEW k \in Nonces, IsConfirmed(trades[x][k]) PROVE trades'[x][k] = trades[x][k]
      <3>1. trades[x][k] # NoTrade /\ trades[x] \in Tables
        BY <2>1, <2>3, NoTradeFacts
      <3> QED BY <2>1, <2>2, <3>1 DEF Tables
    <2> QED BY <2>3 DEF Untouched, KeepsConfirmed
  <1>6. CASE CrashConsole(w)
    BY <1>3, <1>6 DEF CrashConsole
  <1>7. ASSUME NEW i \in DOMAIN net[w], NEW how, Handle(w, i, how) PROVE Untouched
    <2>1. CASE RefuseResign(w, i)
      BY <1>3, <2>1 DEF RefuseResign
    <2> QED BY <1>7, <2>1, RsmcKeeps, PartnerResponseKeeps, FounderResponseKeeps DEF Handle
  <1>8. ASSUME NEW i \in DOMAIN net[w], Lose(w, i) PROVE Untouched
    BY <1>3, <1>8 DEF Lose
  <1> QED BY <1>1, <1>4, <1>5, <1>6, <1>7, <1>8

\* Where users wait for a payment to end and messages arrive in order: no late,
\* resigned or renegotiated answer overwrites or deletes a confirmed trade.
\* Without the first condition the property is model-checked only.
THEOREM PatientConfirmedStays == Spec /\ env.patient => ConfirmedStays
  <1>1. env.patient /\ [Next]_vars => env.patient'
    BY DEF Next, vars
  <1>2. IInv /\ (Patient => PInv /\ AInv) /\ env.patient /\ [Next]_vars =>
           [InOrder => \A w \in Wallets, n \in Nonces :
               IsConfirmed(trades[w][n]) => trades'[w][n] = trades[w][n]]_vars
    BY NextKeeps DEF Patient, Untouched, KeepsConfirmed
  <1> QED BY <1>1, <1>2, Agreement, PTL DEF Spec, ConfirmedStays
=============================================================================
