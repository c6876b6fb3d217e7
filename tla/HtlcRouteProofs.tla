-------------------------- MODULE HtlcRouteProofs --------------------------
(* Proofs about HtlcRoute, for every length of the route, every amount and  *)
(* every environment: whatever is lost, not sent, closed or unlocked on the *)
(* chain, and however often.                                                *)
EXTENDS HtlcRoute, TLAPS

USE DEF Hops, Sides

Books == [Sides -> [free : Balances, lock : Int]]
HtlcTables == [Hops -> [Sides -> HtlcTrade \cup {NoTrade}]]
Lists == [1 .. N -> Seq(Message)]

-----------------------------------------------------------------------------
(* The inductive invariant.                                                *)

Row(i, s) == htlc[i][s] # NoTrade

\* Side s of hop i has the secret in its row.
Got(i, s) == Row(i, s) /\ htlc[i][s].rcode

Locking == {"Htlc", "HtlcSign0", "HtlcSign1"}

In(m, boxes) == \E w \in 1 .. N : \E k \in DOMAIN boxes[w] : boxes[w][k] = m

\* Every message is in the list of the wallet that has its side of its hop.
Addressed(boxes) ==
    \A w \in 1 .. N : \A k \in DOMAIN boxes[w] :
        WalletAt(boxes[w][k].hop, boxes[w][k].to) = w

\* A hop is locked by one message at a time.
Unique(boxes) ==
    \A v, w \in 1 .. N : \A j \in DOMAIN boxes[v], k \in DOMAIN boxes[w] :
        /\ boxes[v][j].kind \in Locking /\ boxes[w][k].kind \in Locking
        /\ boxes[v][j].hop = boxes[w][k].hop
        => v = w /\ j = k

NetOK(boxes) == boxes \in Lists /\ Addressed(boxes) /\ Unique(boxes)

\* What the tables say of the hop a message on its way is about.
LockingOK(m) ==
    /\ m.kind = "Htlc" =>
           /\ m.to = "payee" /\ m.delay >= Day * (N - m.hop)
           /\ Row(m.hop, "payer") /\ ~ Row(m.hop, "payee")
    /\ m.kind \in {"HtlcSign0", "HtlcSign1"} =>
           /\ m.to = IF m.kind = "HtlcSign0" THEN "payer" ELSE "payee"
           /\ Row(m.hop, "payer") /\ Row(m.hop, "payee")
           /\ book[m.hop]["payee"].free["payer"] >= Amount[m.hop]
    /\ m.kind \in Locking => (m.hop + 1 \in Hops => ~ Row(m.hop + 1, "payer"))

PayingOK(m) ==
    /\ m.kind = "Rsmc" => Got(m.hop, Opp(m.to))
    /\ m.kind = "Sign0" => /\ Got(m.hop, m.to) /\ Row(m.hop, Opp(m.to))
                           /\ m.good => Got(m.hop, Opp(m.to))
    /\ m.kind = "Sign1" => Got(m.hop, m.to) /\ Got(m.hop, Opp(m.to))

MsgsOK == \A m \in Message : In(m, net) => LockingOK(m) /\ PayingOK(m)

\* The rows of a hop: who has one, how long it lasts, where it leads.
PayerRowOK(i) ==
    Row(i, "payer") =>
        /\ htlc[i]["payer"].next = i - 1
        /\ htlc[i]["payer"].delay <= now + Day * (N - i)
        /\ i # 1 => Row(i - 1, "payee") /\ htlc[i - 1]["payee"].signed

PayeeRowOK(i) ==
    Row(i, "payee") =>
        /\ Row(i, "payer")
        /\ htlc[i]["payee"].delay >= Day * (N - i)
        /\ htlc[i]["payee"].next \in {i, i + 1}
        /\ htlc[i]["payee"].next = i + 1 => i + 1 \in Hops /\ Row(i + 1, "payer")

\* Who was paid on the hop, off the chain or on it, had the secret.
SecretOK(i) ==
    /\ \A s, f \in Sides : rsmc[i][s][f] = "confirmed" => Got(i, s)
    /\ claimed[i] # "nobody" => Row(i, claimed[i])
    /\ claimed[i] = "payee" /\ ~ notice[i] => Got(i, "payer")
    /\ notice[i] => claimed[i] # "nobody"

BookOK(i, s) ==
    LET b == book[i][s] IN
    /\ b.lock >= 0 /\ b.free["payer"] >= 0 /\ b.free["payee"] >= 0
    /\ b.free["payer"] + b.free["payee"] + b.lock = Free[i]["payer"] + Free[i]["payee"]

TablesOK ==
    /\ now \in 0 .. MaxNow
    /\ chan \in [Hops -> [Sides -> {"OPENED", "SETTLED"}]]
    /\ book \in [Hops -> Books]
    /\ htlc \in HtlcTables
    /\ rsmc \in [Hops -> [Sides -> [Sides -> {"none", "init", "confirming", "confirmed"}]]]
    /\ claimed \in [Hops -> Sides \cup {"nobody"}]
    /\ notice \in [Hops -> BOOLEAN]
    /\ env \in Environments
    /\ faults \in 0 .. env.maxFaults

RowsOK == \A i \in Hops : PayerRowOK(i) /\ PayeeRowOK(i)
SecretsOK == \A i \in Hops : SecretOK(i)
BooksOK == \A i \in Hops, s \in Sides : BookOK(i, s)

IInv == TablesOK /\ NetOK(net) /\ MsgsOK /\ RowsOK /\ SecretsOK /\ BooksOK

-----------------------------------------------------------------------------
(* Lemmas about the lists of messages.                                     *)

LEMMA SideFacts ==
    /\ \A s \in Sides : Opp(s) \in Sides /\ Opp(s) # s /\ Opp(Opp(s)) = s
    /\ \A i \in Hops, s \in Sides : WalletAt(i, s) \in 1 .. N
  BY RouteAssumption DEF Opp, WalletAt

LEMMA HeadOK ==
    ASSUME NetOK(net), NEW w \in 1 .. N, net[w] # <<>>
    PROVE  /\ Head(net[w]) \in Message /\ In(Head(net[w]), net)
           /\ WalletAt(Head(net[w]).hop, Head(net[w]).to) = w
  <1>1. net[w] \in Seq(Message)
    BY DEF NetOK, Lists
  <1>2. 1 \in DOMAIN net[w] /\ Head(net[w]) = net[w][1] /\ Head(net[w]) \in Message
    BY <1>1
  <1> QED BY <1>2 DEF NetOK, Addressed, In

\* Taking a message leaves the others, and no other locks the same hop.
LEMMA RestOK ==
    ASSUME NetOK(net), NEW w \in 1 .. N, net[w] # <<>>
    PROVE  /\ NetOK(Rest(w))
           /\ \A m \in Message : In(m, Rest(w)) => In(m, net)
           /\ \A m \in Message :
                  In(m, Rest(w)) /\ m.kind \in Locking /\ Head(net[w]).kind \in Locking
                  => m.hop # Head(net[w]).hop
  <1> DEFINE rest == Rest(w)
             Place(v, k) == IF v = w THEN k + 1 ELSE k
  <1>1. net \in Lists /\ net[w] \in Seq(Message) /\ Head(net[w]) = net[w][1]
        /\ 1 \in DOMAIN net[w]
    BY DEF NetOK, Lists
  <1>2. rest \in Lists
    BY <1>1 DEF Rest, Lists
  <1>3. ASSUME NEW v \in 1 .. N, NEW k \in DOMAIN rest[v]
        PROVE  /\ Place(v, k) \in DOMAIN net[v] /\ rest[v][k] = net[v][Place(v, k)]
               /\ v = w => Place(v, k) # 1
               /\ k \in Nat
    <2>1. net[v] \in Seq(Message) /\ rest[v] = IF v = w THEN Tail(net[w]) ELSE net[v]
      BY <1>1 DEF Rest, Lists
    <2>2. CASE v = w
      <3>1. k \in 1 .. Len(net[w]) - 1 /\ rest[v][k] = net[w][k + 1]
        BY <1>1, <2>1, <2>2
      <3>2. k + 1 \in DOMAIN net[w]
        BY <1>1, <3>1
      <3> QED BY <2>2, <3>1, <3>2
    <2>3. CASE v # w
      BY <2>1, <2>3
    <2> QED BY <2>2, <2>3
  <1>4. Addressed(rest)
    BY <1>3 DEF NetOK, Addressed
  <1>5. Unique(rest)
    <2> SUFFICES ASSUME NEW u \in 1 .. N, NEW v \in 1 .. N,
                        NEW j \in DOMAIN rest[u], NEW k \in DOMAIN rest[v],
                        rest[u][j].kind \in Locking, rest[v][k].kind \in Locking,
                        rest[u][j].hop = rest[v][k].hop
                 PROVE  u = v /\ j = k
      BY DEF Unique
    <2>1. u = v /\ Place(u, j) = Place(v, k)
      BY <1>3 DEF NetOK, Unique
    <2> QED BY <1>3, <2>1
  <1>6. \A m \in Message : In(m, rest) => In(m, net)
    BY <1>3 DEF In
  <1>7. ASSUME NEW m \in Message, In(m, rest), m.kind \in Locking,
               Head(net[w]).kind \in Locking, m.hop = Head(net[w]).hop
        PROVE  FALSE
    <2>1. PICK v \in 1 .. N : \E k \in DOMAIN rest[v] : rest[v][k] = m
      BY <1>7 DEF In
    <2>2. PICK k \in DOMAIN rest[v] : rest[v][k] = m
      BY <2>1
    <2>3. v = w /\ Place(v, k) = 1
      BY <1>1, <1>3, <1>7, <2>2 DEF NetOK, Unique
    <2> QED BY <1>3, <2>3
  <1> QED BY <1>2, <1>4, <1>5, <1>6, <1>7 DEF NetOK

\* Sending a message that locks no hop another message locks.
LEMMA SentOK ==
    ASSUME NEW boxes, NetOK(boxes), NEW m \in Message, NEW happens \in BOOLEAN,
           happens /\ m.kind \in Locking =>
               \A x \in Message : In(x, boxes) /\ x.kind \in Locking => x.hop # m.hop
    PROVE  /\ NetOK(SentIf(happens, boxes, m))
           /\ \A x \in Message :
                  In(x, SentIf(happens, boxes, m)) => In(x, boxes) \/ (happens /\ x = m)
  <1>1. CASE ~ happens
    BY <1>1 DEF SentIf
  <1>2. CASE happens
    <2> DEFINE d == WalletAt(m.hop, m.to)
               sent == SentIf(happens, boxes, m)
               last == Len(boxes[d]) + 1
    <2>1. d \in 1 .. N
      BY SideFacts DEF Message
    <2>2. boxes \in Lists /\ boxes[d] \in Seq(Message) /\ last \in Nat
      BY <2>1 DEF NetOK, Lists
    <2>3. /\ sent[d] = Append(boxes[d], m)
          /\ \A v \in 1 .. N : v # d => sent[v] = boxes[v]
          /\ sent \in Lists
      BY <1>2, <2>1, <2>2 DEF SentIf, Lists
    <2>4. ASSUME NEW v \in 1 .. N, NEW k \in DOMAIN sent[v]
          PROVE  \/ k \in DOMAIN boxes[v] /\ sent[v][k] = boxes[v][k]
                 \/ v = d /\ k = last /\ sent[v][k] = m
      <3>1. CASE v = d
        BY <2>2, <2>3, <3>1
      <3>2. CASE v # d
        BY <2>3, <3>2
      <3> QED BY <3>1, <3>2
    <2> HIDE DEF sent, last
    <2>5. Addressed(sent)
      BY <2>4 DEF NetOK, Addressed
    <2>6. ASSUME NEW v \in 1 .. N, NEW k \in DOMAIN boxes[v],
                 boxes[v][k].kind \in Locking, m.kind \in Locking
          PROVE  boxes[v][k].hop # m.hop
      <3>1. boxes[v][k] \in Message
        BY <2>2 DEF Lists
      <3> QED BY <1>2, <2>6, <3>1 DEF In
    <2>7. Unique(sent)
      <3> SUFFICES ASSUME NEW u \in 1 .. N, NEW v \in 1 .. N,
                          NEW j \in DOMAIN sent[u], NEW k \in DOMAIN sent[v],
                          sent[u][j].kind \in Locking, sent[v][k].kind \in Locking,
                          sent[u][j].hop = sent[v][k].hop
                   PROVE  u = v /\ j = k
        BY DEF Unique
      <3>1. \/ j \in DOMAIN boxes[u] /\ sent[u][j] = boxes[u][j]
            \/ u = d /\ j = last /\ sent[u][j] = m
        BY <2>4
      <3>2. \/ k \in DOMAIN boxes[v] /\ sent[v][k] = boxes[v][k]
            \/ v = d /\ k = last /\ sent[v][k] = m
        BY <2>4
      <3> QED BY <2>6, <3>1, <3>2 DEF NetOK, Unique
    <2>8. \A x \in Message : In(x, sent) => In(x, boxes) \/ x = m
      BY <2>4 DEF In
    <2> QED BY <1>2, <2>3, <2>5, <2>7, <2>8 DEF NetOK, sent
  <1> QED BY <1>1, <1>2

-----------------------------------------------------------------------------
(* Lemmas about the tables.                                                *)

LEMMA TradeIsRow == \A t \in HtlcTrade : t # NoTrade
  BY DEF HtlcTrade, NoTrade

\* Writing one row.
LEMMA OneRow ==
    ASSUME TablesOK, NEW i \in Hops, NEW s \in Sides, NEW t \in HtlcTrade,
           htlc' = [htlc EXCEPT ![i][s] = t]
    PROVE  /\ htlc' \in HtlcTables /\ htlc'[i][s] = t
           /\ \A j \in Hops, r \in Sides : j # i \/ r # s => htlc'[j][r] = htlc[j][r]
  <1> DEFINE side == [htlc[i] EXCEPT ![s] = t]
  <1>1. side \in [Sides -> HtlcTrade \cup {NoTrade}] /\ side[s] = t
        /\ \A r \in Sides : r # s => side[r] = htlc[i][r]
    BY DEF TablesOK, HtlcTables
  <1>2. htlc' = [htlc EXCEPT ![i] = side]
    OBVIOUS
  <1> HIDE DEF side
  <1> QED BY <1>1, <1>2 DEF TablesOK, HtlcTables

\* Writing one book.
LEMMA OneBook ==
    ASSUME TablesOK, NEW i \in Hops, NEW s \in Sides, NEW b \in [free : Balances, lock : Int]
    PROVE  LET after == [book EXCEPT ![i][s] = b] IN
           /\ after \in [Hops -> Books] /\ after[i][s] = b
           /\ \A j \in Hops, r \in Sides : j # i \/ r # s => after[j][r] = book[j][r]
  <1> DEFINE side == [book[i] EXCEPT ![s] = b]
  <1>1. side \in Books /\ side[s] = b /\ \A r \in Sides : r # s => side[r] = book[i][r]
    BY DEF TablesOK, Books
  <1>2. [book EXCEPT ![i][s] = b] = [book EXCEPT ![i] = side]
    OBVIOUS
  <1> HIDE DEF side
  <1> QED BY <1>1, <1>2 DEF TablesOK

\* Closing a channel at one side.
LEMMA OneChannel ==
    ASSUME TablesOK, NEW i \in Hops, NEW s \in Sides
    PROVE  [chan EXCEPT ![i][s] = "SETTLED"] \in [Hops -> [Sides -> {"OPENED", "SETTLED"}]]
  BY DEF TablesOK

\* What locking an amount, and paying a lock, do to a book.
LEMMA BookFacts ==
    ASSUME NEW b \in [free : Balances, lock : Int], NEW p \in Nat, NEW f \in Sides
    PROVE  /\ Locked(b, p) \in [free : Balances, lock : Int]
           /\ Locked(b, p).free["payer"] = b.free["payer"] - p
           /\ Locked(b, p).free["payee"] = b.free["payee"]
           /\ Locked(b, p).lock = b.lock + p
           /\ Unlocked(b, p) \in [free : Balances, lock : Int]
           /\ Unlocked(b, p).free["payer"] = b.free["payer"]
           /\ Unlocked(b, p).free["payee"] = b.free["payee"] + p
           /\ Unlocked(b, p).lock = b.lock - p
           /\ Paying(b, f, p) \in Balances
  <1>1. b.free \in Balances /\ b.lock \in Int
    OBVIOUS
  <1> DEFINE less == [b.free EXCEPT !["payer"] = @ - p]
             more == [b.free EXCEPT !["payee"] = @ + p]
  <1>2. less \in Balances /\ less["payer"] = b.free["payer"] - p /\ less["payee"] = b.free["payee"]
    BY <1>1 DEF Balances
  <1>3. more \in Balances /\ more["payer"] = b.free["payer"] /\ more["payee"] = b.free["payee"] + p
    BY <1>1 DEF Balances
  <1>4. [b.free EXCEPT ![Opp(f)] = @ + p] \in Balances
    BY <1>1, SideFacts DEF Balances
  <1> HIDE DEF less, more
  <1>5. Locked(b, p) = [free |-> less, lock |-> b.lock + p]
    BY DEF Locked, less
  <1>6. Unlocked(b, p) = [free |-> more, lock |-> b.lock - p]
    BY DEF Unlocked, more
  <1> QED BY <1>1, <1>2, <1>3, <1>4, <1>5, <1>6 DEF Paying

\* The payment of a lock keeps the book's sum and takes no more than is locked.
LEMMA PaidKeepsBook ==
    ASSUME TablesOK, NEW i \in Hops, NEW s \in Sides, NEW f \in Sides,
           BookOK(i, s), book' = [book EXCEPT ![i][s] = Paid(@, f, Amount[i])],
           BooksOK
    PROVE  /\ book' \in [Hops -> Books] /\ BooksOK'
           /\ \A j \in Hops : book'[j]["payee"].free["payer"] = book[j]["payee"].free["payer"]
  <1> DEFINE b == book[i][s]
             after == Paid(b, f, Amount[i])
  <1>1. b \in [free : Balances, lock : Int] /\ Amount[i] \in Nat
    <2>1. b \in [free : Balances, lock : Int]
      BY DEF TablesOK, Books
    <2>2. Amount[i] \in Nat
      BY RouteAssumption
    <2> QED BY <2>1, <2>2
  <1>2. after = b \/ (b.lock >= Amount[i] /\ after = Unlocked(b, Amount[i]))
    BY DEF Paid
  <1>3. after \in [free : Balances, lock : Int] /\ after.free["payer"] = b.free["payer"]
        /\ after.lock >= 0 /\ after.free["payee"] >= 0 /\ after.free["payer"] >= 0
        /\ after.free["payer"] + after.free["payee"] + after.lock =
               Free[i]["payer"] + Free[i]["payee"]
    <2>1. /\ b.lock >= 0 /\ b.free["payer"] >= 0 /\ b.free["payee"] >= 0
          /\ b.free["payer"] + b.free["payee"] + b.lock = Free[i]["payer"] + Free[i]["payee"]
          /\ b.lock \in Int /\ b.free["payer"] \in Int /\ b.free["payee"] \in Int
      BY <1>1 DEF BookOK, Balances
    <2> HIDE DEF b, after
    <2>2. CASE after = b
      BY <1>1, <2>1, <2>2
    <2>3. CASE b.lock >= Amount[i] /\ after = Unlocked(b, Amount[i])
      <3>1. /\ Unlocked(b, Amount[i]) \in [free : Balances, lock : Int]
            /\ Unlocked(b, Amount[i]).free["payer"] = b.free["payer"]
            /\ Unlocked(b, Amount[i]).free["payee"] = b.free["payee"] + Amount[i]
            /\ Unlocked(b, Amount[i]).lock = b.lock - Amount[i]
        BY <1>1, BookFacts
      <3> QED BY <1>1, <2>1, <2>3, <3>1
    <2> QED BY <1>2, <2>2, <2>3
  <1>4. book' = [book EXCEPT ![i][s] = after]
    OBVIOUS
  <1> HIDE DEF after
  <1>5. /\ book' \in [Hops -> Books] /\ book'[i][s] = after
        /\ \A j \in Hops, r \in Sides : j # i \/ r # s => book'[j][r] = book[j][r]
    <2> DEFINE books == [book EXCEPT ![i][s] = after]
    <2>1. /\ books \in [Hops -> Books] /\ books[i][s] = after
          /\ \A j \in Hops, r \in Sides : j # i \/ r # s => books[j][r] = book[j][r]
      BY <1>3, OneBook
    <2> HIDE DEF books
    <2>2. book' = books
      BY <1>4 DEF books
    <2> QED BY <2>1, <2>2
  <1>6. ASSUME NEW j \in Hops, NEW r \in Sides PROVE BookOK(j, r)'
    <2>1. CASE j = i /\ r = s
      BY <1>3, <1>5, <2>1 DEF BookOK
    <2>2. CASE j # i \/ r # s
      BY <1>5, <2>2 DEF BooksOK, BookOK
    <2> QED BY <2>1, <2>2
  <1> QED BY <1>3, <1>5, <1>6 DEF BooksOK

-----------------------------------------------------------------------------
(* What most steps have in common.                                         *)

\* A row that is there stays, with its expiry, what is signed and its secret;
\* it may come to lead to the next hop.
Grows ==
    \A i \in Hops, s \in Sides : Row(i, s) =>
        /\ Row(i, s)'
        /\ htlc[i][s].rcode => htlc'[i][s].rcode
        /\ htlc[i][s].signed => htlc'[i][s].signed
        /\ htlc'[i][s].delay = htlc[i][s].delay
        /\ \/ htlc'[i][s].next = htlc[i][s].next
           \/ /\ s = "payee" /\ htlc'[i][s].next = i + 1
              /\ i + 1 \in Hops /\ Row(i + 1, "payer")'

NoNewRow == \A i \in Hops, s \in Sides : Row(i, s)' => Row(i, s)

\* A step that leaves a locking message right.
Spares(m) ==
    m.kind \in Locking =>
        /\ Row(m.hop, "payee")' => Row(m.hop, "payee")
        /\ book'[m.hop]["payee"].free["payer"] = book[m.hop]["payee"].free["payer"]
        /\ m.hop + 1 \in Hops => (Row(m.hop + 1, "payer")' => Row(m.hop + 1, "payer"))

LEMMA OldMessage ==
    ASSUME Grows, NEW m \in Message, LockingOK(m), PayingOK(m), Spares(m)
    PROVE  LockingOK(m)' /\ PayingOK(m)'
  <1>1. m.hop \in Hops /\ m.to \in Sides /\ Opp(m.to) \in Sides
    BY SideFacts DEF Message
  <1>2. \A s \in Sides : (Row(m.hop, s) => Row(m.hop, s)') /\ (Got(m.hop, s) => Got(m.hop, s)')
    BY <1>1 DEF Grows, Got
  <1>3. LockingOK(m)'
    BY <1>1, <1>2 DEF LockingOK, Spares, Locking
  <1>4. PayingOK(m)'
    BY <1>1, <1>2 DEF PayingOK
  <1> QED BY <1>3, <1>4

\* A row that was there stays right; the rows of another side may be new.
LEMMA OldRow ==
    ASSUME TablesOK, RowsOK, Grows, now' \in Nat, now' >= now, NEW i \in Hops
    PROVE  /\ (Row(i, "payer")' => Row(i, "payer")) => PayerRowOK(i)'
           /\ (Row(i, "payee")' => Row(i, "payee")) => PayeeRowOK(i)'
  <1>1. PayerRowOK(i) /\ PayeeRowOK(i)
    BY DEF RowsOK
  <1>2. /\ i - 1 \in Nat /\ (i # 1 => i - 1 \in Hops)
        /\ Day * (N - i) \in Int /\ now \in Nat
    BY RouteAssumption DEF TablesOK
  <1>3. ASSUME Row(i, "payer")' => Row(i, "payer")
        PROVE  PayerRowOK(i)'
    <2> SUFFICES ASSUME Row(i, "payer")'
                 PROVE  /\ htlc'[i]["payer"].next = i - 1
                        /\ htlc'[i]["payer"].delay <= now' + Day * (N - i)
                        /\ i # 1 => Row(i - 1, "payee")' /\ htlc'[i - 1]["payee"].signed
      BY DEF PayerRowOK
    <2>1. Row(i, "payer")
      BY <1>3
    <2>2. /\ htlc'[i]["payer"].next = htlc[i]["payer"].next
          /\ htlc'[i]["payer"].delay = htlc[i]["payer"].delay
          /\ htlc[i]["payer"].delay \in Nat
      BY <2>1, TradeIsRow DEF Grows, TablesOK, HtlcTables, HtlcTrade, Row
    <2>3. i # 1 => Row(i - 1, "payee")' /\ htlc'[i - 1]["payee"].signed
      BY <1>1, <1>2, <2>1 DEF PayerRowOK, Grows
    <2> QED BY <1>1, <1>2, <2>1, <2>2, <2>3 DEF PayerRowOK
  <1>4. ASSUME Row(i, "payee")' => Row(i, "payee")
        PROVE  PayeeRowOK(i)'
    BY <1>1, <1>4 DEF PayeeRowOK, Grows
  <1> QED BY <1>3, <1>4

LEMMA OldRows ==
    ASSUME TablesOK, RowsOK, Grows, NoNewRow, now' \in Nat, now' >= now
    PROVE  RowsOK'
  BY OldRow DEF RowsOK, NoNewRow

LEMMA OldSecrets ==
    ASSUME SecretsOK, Grows, UNCHANGED <<claimed, notice>>,
           \A i \in Hops, s, f \in Sides :
               rsmc'[i][s][f] = "confirmed" => rsmc[i][s][f] = "confirmed" \/ Got(i, s)',
           TablesOK
    PROVE  SecretsOK'
  <1> SUFFICES ASSUME NEW i \in Hops PROVE SecretOK(i)'
    BY DEF SecretsOK
  <1>1. SecretOK(i)
    BY DEF SecretsOK
  <1>2. \A s \in Sides : Got(i, s) => Got(i, s)'
    BY DEF Grows, Got
  <1>3. \A s \in Sides : Row(i, s) => Row(i, s)'
    BY DEF Grows
  <1>4. claimed[i] # "nobody" => claimed[i] \in Sides
    BY DEF TablesOK
  <1> QED BY <1>1, <1>2, <1>3, <1>4 DEF SecretOK

LEMMA OldBooks ==
    ASSUME BooksOK, UNCHANGED book
    PROVE  BooksOK'
  BY DEF BooksOK, BookOK

LEMMA SameRows ==
    ASSUME UNCHANGED htlc
    PROVE  Grows /\ NoNewRow
  BY DEF Grows, NoNewRow, Row

\* A step that adds no row and takes nothing off the payee's side, with at most
\* one message sent.
LEMMA OldMessages ==
    ASSUME MsgsOK, Grows, NoNewRow,
           \A i \in Hops : book'[i]["payee"].free["payer"] = book[i]["payee"].free["payer"],
           NEW new \in Message, NEW happens \in BOOLEAN,
           \A m \in Message : In(m, net') => In(m, net) \/ (happens /\ m = new),
           happens => LockingOK(new)' /\ PayingOK(new)'
    PROVE  MsgsOK'
  <1> SUFFICES ASSUME NEW m \in Message, In(m, net') PROVE LockingOK(m)' /\ PayingOK(m)'
    BY DEF MsgsOK
  <1>1. CASE happens /\ m = new
    BY <1>1
  <1>2. CASE In(m, net)
    <2>1. m.hop \in Hops /\ (m.hop + 1 \in Hops => m.hop + 1 \in Hops)
      BY DEF Message
    <2>2. Spares(m)
      BY <2>1 DEF Spares, NoNewRow
    <2>3. LockingOK(m) /\ PayingOK(m)
      BY <1>2 DEF MsgsOK
    <2> QED BY <2>2, <2>3, OldMessage
  <1> QED BY <1>1, <1>2

\* A step that sends nothing.
LEMMA NoMessage ==
    ASSUME MsgsOK, Grows, NoNewRow,
           \A i \in Hops : book'[i]["payee"].free["payer"] = book[i]["payee"].free["payer"],
           \A m \in Message : In(m, net') => In(m, net)
    PROVE  MsgsOK'
  <1> SUFFICES ASSUME NEW m \in Message, In(m, net') PROVE LockingOK(m)' /\ PayingOK(m)'
    BY DEF MsgsOK
  <1>1. m.hop \in Hops
    BY DEF Message
  <1>2. Spares(m)
    BY <1>1 DEF Spares, NoNewRow
  <1>3. LockingOK(m) /\ PayingOK(m)
    BY DEF MsgsOK
  <1> QED BY <1>2, <1>3, OldMessage

LEMMA FaultOK ==
    ASSUME TablesOK, UNCHANGED env, NEW kind, NEW happens \in BOOLEAN, Fault(kind, happens)
    PROVE  env' \in Environments /\ faults' \in 0 .. env'.maxFaults
  <1>1. env.maxFaults \in Nat
    BY RouteAssumption DEF TablesOK, Environment
  <1> QED BY <1>1 DEF TablesOK, Fault

\* A row that gets a new state, a signature or the secret.
LEMMA RowUpdated ==
    ASSUME TablesOK, NEW i \in Hops, NEW s \in Sides, NEW t \in HtlcTrade, Row(i, s),
           htlc[i][s].rcode => t.rcode, htlc[i][s].signed => t.signed,
           t.delay = htlc[i][s].delay, t.next = htlc[i][s].next,
           htlc' = [htlc EXCEPT ![i][s] = t]
    PROVE  /\ htlc' \in HtlcTables /\ Grows /\ NoNewRow
           /\ htlc'[i][s] = t
           /\ \A j \in Hops, r \in Sides : j # i \/ r # s => htlc'[j][r] = htlc[j][r]
  <1>1. /\ htlc' \in HtlcTables /\ htlc'[i][s] = t
        /\ \A j \in Hops, r \in Sides : j # i \/ r # s => htlc'[j][r] = htlc[j][r]
    BY OneRow, ZenonT(30)
  <1>2. Grows
    <2> SUFFICES ASSUME NEW j \in Hops, NEW r \in Sides, Row(j, r)
                 PROVE  /\ Row(j, r)'
                        /\ htlc[j][r].rcode => htlc'[j][r].rcode
                        /\ htlc[j][r].signed => htlc'[j][r].signed
                        /\ htlc'[j][r].delay = htlc[j][r].delay
                        /\ htlc'[j][r].next = htlc[j][r].next
      BY DEF Grows
    <2>1. CASE j = i /\ r = s
      BY <1>1, <2>1, TradeIsRow DEF Row
    <2>2. CASE j # i \/ r # s
      BY <1>1, <2>2 DEF Row
    <2> QED BY <2>1, <2>2
  <1>3. NoNewRow
    BY <1>1 DEF NoNewRow, Row
  <1> QED BY <1>1, <1>2, <1>3

\* The rows the handlers write are rows.
LEMMA RowFacts ==
    ASSUME NEW row \in HtlcTrade
    PROVE  /\ Signed(row) \in HtlcTrade /\ Signed(row).signed
           /\ Signed(row).rcode = row.rcode
           /\ Signed(row).delay = row.delay /\ Signed(row).next = row.next
           /\ [row EXCEPT !.rcode = TRUE] \in HtlcTrade
           /\ [row EXCEPT !.rcode = TRUE].rcode
           /\ [row EXCEPT !.rcode = TRUE].signed = row.signed
           /\ [row EXCEPT !.rcode = TRUE].delay = row.delay
           /\ [row EXCEPT !.rcode = TRUE].next = row.next
           /\ [row EXCEPT !.state = "confirmed"] \in HtlcTrade
           /\ [row EXCEPT !.state = "confirmed"].rcode = row.rcode
           /\ [row EXCEPT !.state = "confirmed"].signed = row.signed
           /\ [row EXCEPT !.state = "confirmed"].delay = row.delay
           /\ [row EXCEPT !.state = "confirmed"].next = row.next
  <1>1. /\ Signed(row) \in HtlcTrade /\ Signed(row).signed
        /\ Signed(row).rcode = row.rcode
        /\ Signed(row).delay = row.delay /\ Signed(row).next = row.next
    <2> DEFINE r1 == [row EXCEPT !.state = "confirming"]
    <2>1. /\ r1 \in HtlcTrade /\ r1.rcode = row.rcode /\ r1.delay = row.delay
          /\ r1.next = row.next
      BY DEF HtlcTrade
    <2>2. Signed(row) = [r1 EXCEPT !.signed = TRUE]
      BY DEF Signed
    <2> HIDE DEF r1
    <2> QED BY <2>1, <2>2 DEF HtlcTrade
  <1>2. /\ [row EXCEPT !.rcode = TRUE] \in HtlcTrade
        /\ [row EXCEPT !.rcode = TRUE].rcode
        /\ [row EXCEPT !.rcode = TRUE].signed = row.signed
        /\ [row EXCEPT !.rcode = TRUE].delay = row.delay
        /\ [row EXCEPT !.rcode = TRUE].next = row.next
    BY DEF HtlcTrade
  <1>3. /\ [row EXCEPT !.state = "confirmed"] \in HtlcTrade
        /\ [row EXCEPT !.state = "confirmed"].rcode = row.rcode
        /\ [row EXCEPT !.state = "confirmed"].signed = row.signed
        /\ [row EXCEPT !.state = "confirmed"].delay = row.delay
        /\ [row EXCEPT !.state = "confirmed"].next = row.next
    BY DEF HtlcTrade
  <1> QED BY <1>1, <1>2, <1>3

\* The messages wallets send.
LEMMA MessageFacts ==
    ASSUME TablesOK, NEW i \in Hops, NEW s \in Sides
    PROVE  /\ Msg("RResponse", i, s) \in Message /\ Msg("RResponse", i, s).kind = "RResponse"
           /\ HtlcRequest(i) \in Message /\ HtlcRequest(i).kind = "Htlc"
           /\ HtlcRequest(i).hop = i /\ HtlcRequest(i).to = "payee"
           /\ HtlcRequest(i).delay = Delay(i) /\ Delay(i) \in Nat
           /\ \A bal \in Balances :
                  LET m == [Msg("Rsmc", i, s) EXCEPT !.bal = bal] IN
                  m \in Message /\ m.kind = "Rsmc" /\ m.hop = i /\ m.to = s
  <1>1. [r \in Sides |-> 0] \in Balances
    BY DEF Balances
  <1>2. Msg("RResponse", i, s) \in Message /\ Msg("RResponse", i, s).kind = "RResponse"
    BY <1>1 DEF Msg, Message
  <1>3. Delay(i) \in Nat
    <2>1. N - i \in Nat /\ Day \in Nat /\ now \in Nat
      BY RouteAssumption DEF TablesOK
    <2>2. Day * (N - i) \in Nat
      BY <2>1
    <2> QED BY <2>1, <2>2 DEF Delay
  <1>4. Locked(book[i]["payer"], Amount[i]).free \in Balances
    <2>1. book[i]["payer"] \in [free : Balances, lock : Int] /\ Amount[i] \in Nat
      BY RouteAssumption, SMTT(30) DEF TablesOK, Books
    <2>2. Locked(book[i]["payer"], Amount[i]) \in [free : Balances, lock : Int]
      BY <2>1, BookFacts
    <2> QED BY <2>2
  <1>5. HtlcRequest(i) = [kind |-> "Htlc", hop |-> i, to |-> "payee",
                          bal |-> Locked(book[i]["payer"], Amount[i]).free,
                          delay |-> Delay(i), good |-> FALSE]
    <2> DEFINE m0 == Msg("Htlc", i, "payee")
               m1 == [m0 EXCEPT !.bal = Locked(book[i]["payer"], Amount[i]).free]
    <2>1. m1 = [kind |-> "Htlc", hop |-> i, to |-> "payee",
                bal |-> Locked(book[i]["payer"], Amount[i]).free,
                delay |-> 0, good |-> FALSE]
      <3>1. m0 = [kind |-> "Htlc", hop |-> i, to |-> "payee", bal |-> [r \in Sides |-> 0],
                  delay |-> 0, good |-> FALSE]
        BY DEF Msg
      <3>2. m1 = [kind |-> m0.kind, hop |-> m0.hop, to |-> m0.to,
                  bal |-> Locked(book[i]["payer"], Amount[i]).free,
                  delay |-> m0.delay, good |-> m0.good]
        BY <3>1
      <3>3. /\ m0.kind = "Htlc" /\ m0.hop = i /\ m0.to = "payee"
            /\ m0.delay = 0 /\ m0.good = FALSE
        BY <3>1
      <3> HIDE DEF m0, m1
      <3> QED BY <3>2, <3>3
    <2>2. HtlcRequest(i) = [m1 EXCEPT !.delay = Delay(i)]
      BY DEF HtlcRequest
    <2> HIDE DEF m1
    <2> QED BY <2>1, <2>2
  <1>6. ASSUME NEW bal \in Balances
        PROVE  LET m == [Msg("Rsmc", i, s) EXCEPT !.bal = bal] IN
               m \in Message /\ m.kind = "Rsmc" /\ m.hop = i /\ m.to = s
    BY <1>1 DEF Msg, Message
  <1>7. /\ HtlcRequest(i) \in Message /\ HtlcRequest(i).kind = "Htlc"
        /\ HtlcRequest(i).hop = i /\ HtlcRequest(i).to = "payee"
        /\ HtlcRequest(i).delay = Delay(i)
    BY <1>3, <1>4, <1>5 DEF Message
  <1> QED BY <1>2, <1>3, <1>6, <1>7

-----------------------------------------------------------------------------
(* The steps.                                                              *)

LEMMA InitInv == Init => IInv
  <1> SUFFICES ASSUME Init PROVE IInv
    OBVIOUS
  <1>1. Free \in [Hops -> [Sides -> Nat]]
    BY RouteAssumption
  <1>2. TablesOK
    <2>1. now \in 0 .. MaxNow
      BY RouteAssumption DEF Init
    <2>2. book \in [Hops -> Books]
      <3>1. \A i \in Hops : Free[i] \in Balances
        BY <1>1 DEF Balances
      <3> QED BY <3>1 DEF Init, Books
    <2>3. env.maxFaults \in Nat
      BY RouteAssumption DEF Init, Environment
    <2>4. htlc \in HtlcTables
      BY DEF Init, HtlcTables
    <2> QED BY <2>1, <2>2, <2>3, <2>4 DEF Init, TablesOK
  <1>3. \A w \in 1 .. N : net[w] = <<>>
    BY DEF Init
  <1>4. NetOK(net)
    <2>1. net \in Lists
      BY DEF Init, Lists
    <2> QED BY <1>3, <2>1 DEF NetOK, Addressed, Unique
  <1>5. MsgsOK
    BY <1>3 DEF MsgsOK, In
  <1>6. RowsOK
    BY DEF Init, RowsOK, PayerRowOK, PayeeRowOK, Row
  <1>7. SecretsOK
    BY DEF Init, SecretsOK, SecretOK
  <1>8. BooksOK
    <2> SUFFICES ASSUME NEW i \in Hops, NEW s \in Sides PROVE BookOK(i, s)
      BY DEF BooksOK
    <2>1. book[i][s] = [free |-> Free[i], lock |-> 0]
      BY DEF Init
    <2>2. Free[i]["payer"] \in Nat /\ Free[i]["payee"] \in Nat
      BY <1>1
    <2> QED BY <2>1, <2>2 DEF BookOK
  <1> QED BY <1>2, <1>4, <1>5, <1>6, <1>7, <1>8 DEF IInv

\* A step that neither takes nor sends a message, and writes no row and no book.
LEMMA QuietStep ==
    ASSUME IInv, UNCHANGED <<htlc, book, rsmc, net>>, TablesOK', now' >= now, SecretsOK'
    PROVE  IInv'
  <1>1. Grows /\ NoNewRow
    BY SameRows
  <1>2. NetOK(net')
    BY DEF IInv
  <1>3. MsgsOK'
    BY <1>1, NoMessage DEF IInv
  <1>4. RowsOK'
    BY <1>1, OldRows DEF IInv, TablesOK
  <1>5. BooksOK'
    BY OldBooks DEF IInv
  <1> QED BY <1>2, <1>3, <1>4, <1>5 DEF IInv, NetOK

LEMMA TickStep ==
    ASSUME IInv, UNCHANGED env, Tick PROVE IInv'
  <1>1. TablesOK' /\ now' >= now
    <2>1. MaxNow \in Nat
      BY RouteAssumption
    <2> QED BY <2>1 DEF IInv, TablesOK, Tick, tables
  <1>2. SecretsOK'
    BY SameRows, OldSecrets DEF IInv, Tick, tables
  <1> QED BY <1>1, <1>2, QuietStep DEF Tick, tables

LEMMA UnlockStep ==
    ASSUME IInv, UNCHANGED env, NEW i \in Hops, NEW s \in Sides, Unlock(i, s) PROVE IInv'
  <1>1. TablesOK' /\ now' >= now
    <2>1. env' \in Environments /\ faults' \in 0 .. env'.maxFaults
      BY FaultOK DEF IInv, Unlock
    <2> QED BY <2>1 DEF IInv, TablesOK, Unlock, tables
  <1>2. SecretsOK'
    <2> SUFFICES ASSUME NEW j \in Hops PROVE SecretOK(j)'
      BY DEF SecretsOK
    <2>1. SecretOK(j)
      BY DEF IInv, SecretsOK
    <2>2. UNCHANGED <<htlc, rsmc>> /\ Row(i, s)
      BY DEF Unlock, tables, Row
    <2>3. CASE j = i
      <3>1. claimed'[i] = s /\ notice'[i] = TRUE /\ s # "nobody"
        BY DEF IInv, TablesOK, Unlock
      <3>2. (\A r, f \in Sides : rsmc[i][r][f] = "confirmed" => Got(i, r))'
        BY <2>1, <2>2, <2>3 DEF SecretOK, Got, Row
      <3> QED BY <2>2, <2>3, <3>1, <3>2 DEF SecretOK, Row
    <2>4. CASE j # i
      <3>1. claimed'[j] = claimed[j] /\ notice'[j] = notice[j]
        BY <2>4 DEF IInv, TablesOK, Unlock
      <3> QED BY <2>1, <2>2, <3>1 DEF SecretOK, Got, Row
    <2> QED BY <2>3, <2>4
  <1> QED BY <1>1, <1>2, QuietStep DEF Unlock, tables

\* A channel is closed at one side.
LEMMA ClosingStep ==
    ASSUME IInv, UNCHANGED <<book, htlc, rsmc, net, now, claimed, notice, env>>,
           chan' \in [Hops -> [Sides -> {"OPENED", "SETTLED"}]],
           faults' \in 0 .. env.maxFaults
    PROVE  IInv'
  <1>1. TablesOK' /\ now' >= now
    BY DEF IInv, TablesOK
  <1>2. SecretsOK'
    BY SameRows, OldSecrets DEF IInv
  <1> QED BY <1>1, <1>2, QuietStep

LEMMA ClosedStep ==
    ASSUME IInv, UNCHANGED env, NEW i \in Hops, NEW s \in Sides, Closed(i, s) PROVE IInv'
  <1>1. faults' \in 0 .. env.maxFaults
    BY FaultOK DEF IInv, Closed
  <1>2. chan' \in [Hops -> [Sides -> {"OPENED", "SETTLED"}]]
    BY OneChannel DEF IInv, Closed
  <1> QED BY <1>1, <1>2, ClosingStep DEF Closed, chain

LEMMA SettledStep ==
    ASSUME IInv, UNCHANGED env, NEW i \in Hops, Settled(i) PROVE IInv'
  <1>1. claimed[i] \in Sides
    BY DEF IInv, TablesOK, Settled
  <1>2. chan' \in [Hops -> [Sides -> {"OPENED", "SETTLED"}]]
    BY <1>1, OneChannel DEF IInv, Settled
  <1>3. faults' \in 0 .. env.maxFaults
    BY DEF IInv, TablesOK, Settled
  <1> QED BY <1>2, <1>3, ClosingStep DEF Settled, chain

LEMMA LoseStep ==
    ASSUME IInv, UNCHANGED env, NEW w \in 1 .. N, Lose(w) PROVE IInv'
  <1>1. Grows /\ NoNewRow
    BY SameRows DEF Lose, tables
  <1>2. NetOK(net') /\ \A m \in Message : In(m, net') => In(m, net)
    BY RestOK DEF IInv, Lose
  <1>3. TablesOK' /\ now' >= now
    <2>1. env' \in Environments /\ faults' \in 0 .. env'.maxFaults
      BY FaultOK DEF IInv, Lose
    <2> QED BY <2>1 DEF IInv, TablesOK, Lose, tables, chain
  <1>4. MsgsOK'
    BY <1>1, <1>2, NoMessage DEF IInv, Lose, tables
  <1>5. RowsOK'
    BY <1>1, <1>3, OldRows DEF IInv, TablesOK
  <1>6. SecretsOK' /\ BooksOK'
    BY <1>1, OldSecrets, OldBooks DEF IInv, Lose, tables, chain
  <1> QED BY <1>2, <1>3, <1>4, <1>5, <1>6 DEF IInv, NetOK

-----------------------------------------------------------------------------
(* The handlers of payments.                                               *)

PaymentStates == {"none", "init", "confirming", "confirmed"}

\* What a handler knows of the message it takes.
LEMMA Taken ==
    ASSUME IInv, NEW w \in 1 .. N, NEW kind, Takes(w, kind)
    PROVE  \E m \in Message :
               /\ m = Head(net[w]) /\ m.kind = kind /\ m.hop \in Hops /\ m.to \in Sides
               /\ Opp(m.to) \in Sides /\ Opp(m.to) # m.to /\ Opp(Opp(m.to)) = m.to
               /\ m.bal \in Balances /\ m.delay \in Nat /\ m.good \in BOOLEAN
               /\ LockingOK(m) /\ PayingOK(m) /\ WalletAt(m.hop, m.to) = w
  <1>1. net[w] # <<>> /\ Head(net[w]).kind = kind
    BY DEF Takes
  <1>2. Head(net[w]) \in Message /\ In(Head(net[w]), net)
        /\ WalletAt(Head(net[w]).hop, Head(net[w]).to) = w
    BY <1>1, HeadOK DEF IInv
  <1>3. LockingOK(Head(net[w])) /\ PayingOK(Head(net[w]))
    BY <1>2 DEF IInv, MsgsOK
  <1>4. PICK m \in Message : m = Head(net[w])
    BY <1>2
  <1> QED BY <1>1, <1>2, <1>3, <1>4, SideFacts DEF Message

\* A message that locks nothing is sent, or none.
LEMMA Answered ==
    ASSUME IInv, NEW w \in 1 .. N, NEW kind, Takes(w, kind),
           NEW new \in Message, new.kind \notin Locking, NEW happens \in BOOLEAN,
           happens => PayingOK(new)',
           net' = SentIf(happens, Rest(w), new),
           Grows, NoNewRow,
           \A i \in Hops : book'[i]["payee"].free["payer"] = book[i]["payee"].free["payer"]
    PROVE  NetOK(net') /\ MsgsOK'
  <1>1. NetOK(Rest(w)) /\ \A x \in Message : In(x, Rest(w)) => In(x, net)
    BY RestOK DEF IInv, Takes
  <1>2. /\ NetOK(SentIf(happens, Rest(w), new))
        /\ \A x \in Message : In(x, SentIf(happens, Rest(w), new))
                                => In(x, Rest(w)) \/ (happens /\ x = new)
    BY <1>1, SentOK
  <1>3. NetOK(net') /\ \A x \in Message : In(x, net') => In(x, net) \/ (happens /\ x = new)
    BY <1>1, <1>2
  <1>4. LockingOK(new)'
    BY DEF LockingOK, Locking
  <1>5. MsgsOK'
    BY <1>3, <1>4, OldMessages DEF IInv
  <1> QED BY <1>3, <1>5

\* What a handler has to keep.
LEMMA AddingStep ==
    ASSUME IInv, UNCHANGED <<now, chan, claimed, notice, env>>,
           NetOK(net'), MsgsOK', Grows, RowsOK', htlc' \in HtlcTables,
           book' \in [Hops -> Books], BooksOK',
           rsmc' \in [Hops -> [Sides -> [Sides -> PaymentStates]]],
           \A i \in Hops, s, f \in Sides :
               rsmc'[i][s][f] = "confirmed" => rsmc[i][s][f] = "confirmed" \/ Got(i, s)',
           faults' \in 0 .. env.maxFaults
    PROVE  IInv'
  <1>1. TablesOK'
    BY DEF IInv, TablesOK, PaymentStates
  <1>2. SecretsOK'
    BY OldSecrets DEF IInv
  <1> QED BY <1>1, <1>2 DEF IInv

\* All a handler does that adds no row.
LEMMA HandlerStep ==
    ASSUME IInv, UNCHANGED <<now, chan, claimed, notice, env>>,
           NetOK(net'), MsgsOK', Grows, NoNewRow, htlc' \in HtlcTables,
           book' \in [Hops -> Books], BooksOK',
           rsmc' \in [Hops -> [Sides -> [Sides -> PaymentStates]]],
           \A i \in Hops, s, f \in Sides :
               rsmc'[i][s][f] = "confirmed" => rsmc[i][s][f] = "confirmed" \/ Got(i, s)',
           NEW kind, NEW happens \in BOOLEAN, Fault(kind, happens)
    PROVE  IInv'
  <1>1. faults' \in 0 .. env.maxFaults
    BY FaultOK DEF IInv
  <1>2. now' \in Nat /\ now' >= now
    BY DEF IInv, TablesOK
  <1>3. RowsOK'
    BY <1>2, OldRows DEF IInv
  <1> QED BY <1>1, <1>3, AddingStep

LEMMA SamePayment ==
    ASSUME TablesOK, UNCHANGED rsmc
    PROVE  /\ rsmc' \in [Hops -> [Sides -> [Sides -> PaymentStates]]]
           /\ \A i \in Hops, s, f \in Sides :
                  rsmc'[i][s][f] = "confirmed" => rsmc[i][s][f] = "confirmed" \/ Got(i, s)'
  BY DEF TablesOK, PaymentStates

\* A payment of a lock gets a new state.
LEMMA OnePaymentStep ==
    ASSUME TablesOK, NEW i \in Hops, NEW s \in Sides, NEW f \in Sides,
           NEW state \in PaymentStates, rsmc' = [rsmc EXCEPT ![i][s][f] = state],
           state = "confirmed" => Got(i, s)'
    PROVE  /\ rsmc' \in [Hops -> [Sides -> [Sides -> PaymentStates]]]
           /\ \A j \in Hops, r, g \in Sides :
                  rsmc'[j][r][g] = "confirmed" => rsmc[j][r][g] = "confirmed" \/ Got(j, r)'
  <1> DEFINE row == [rsmc[i][s] EXCEPT ![f] = state]
             side == [rsmc[i] EXCEPT ![s] = row]
  <1>1. row \in [Sides -> PaymentStates] /\ row[f] = state
        /\ \A g \in Sides : g # f => row[g] = rsmc[i][s][g]
    BY DEF TablesOK, PaymentStates
  <1>2. rsmc' = [rsmc EXCEPT ![i] = side]
    OBVIOUS
  <1> HIDE DEF row
  <1>3. side \in [Sides -> [Sides -> PaymentStates]] /\ side[s] = row
        /\ \A r \in Sides : r # s => side[r] = rsmc[i][r]
    BY <1>1 DEF TablesOK, PaymentStates
  <1> HIDE DEF side
  <1>4. rsmc' \in [Hops -> [Sides -> [Sides -> PaymentStates]]]
        /\ rsmc'[i] = side /\ \A j \in Hops : j # i => rsmc'[j] = rsmc[j]
    BY <1>2, <1>3 DEF TablesOK, PaymentStates
  <1>5. ASSUME NEW j \in Hops, NEW r \in Sides, NEW g \in Sides, rsmc'[j][r][g] = "confirmed"
        PROVE  rsmc[j][r][g] = "confirmed" \/ Got(j, r)'
    <2>1. CASE j = i /\ r = s /\ g = f
      BY <1>1, <1>3, <1>4, <1>5, <2>1
    <2>2. CASE j # i \/ r # s \/ g # f
      BY <1>1, <1>3, <1>4, <1>5, <2>2
    <2> QED BY <2>1, <2>2
  <1> QED BY <1>4, <1>5

LEMMA SameBooks ==
    ASSUME IInv, UNCHANGED book
    PROVE  /\ book' \in [Hops -> Books] /\ BooksOK'
           /\ \A i \in Hops : book'[i]["payee"].free["payer"] = book[i]["payee"].free["payer"]
  BY OldBooks DEF IInv, TablesOK

LEMMA HandleRsmcStep ==
    ASSUME IInv, UNCHANGED env, NEW w \in 1 .. N, NEW unsent \in BOOLEAN, HandleRsmc(w, unsent)
    PROVE  IInv'
  <1>1. PICK m \in Message :
            /\ m = Head(net[w]) /\ m.kind = "Rsmc" /\ m.hop \in Hops /\ m.to \in Sides
            /\ Opp(m.to) \in Sides /\ Opp(m.to) # m.to /\ Opp(Opp(m.to)) = m.to
            /\ PayingOK(m)
    BY Taken, ZenonT(30) DEF HandleRsmc
  <1>2. PICK i \in Hops, s \in Sides : i = m.hop /\ s = m.to
    BY <1>1
  <1>3. PICK ok \in BOOLEAN :
            ok = (AgreesToPay(i, s, Opp(s), m.bal) /\ htlc[i][s] # NoTrade /\ ~unsent)
    OBVIOUS
  <1>4. PICK good : good = htlc[i][s].rcode
    OBVIOUS
  <1>5. PICK new : new = [m EXCEPT !.kind = "Sign0", !.to = Opp(s), !.good = good]
    OBVIOUS
  <1>6. /\ UNCHANGED <<chan, book, htlc, now, claimed, notice>>
        /\ net' = SentIf(ok, Rest(w), new)
        /\ rsmc' = IF ok THEN [rsmc EXCEPT ![i][s][Opp(s)] = "confirming"] ELSE rsmc
        /\ Fault("unsent", unsent) /\ Takes(w, "Rsmc")
    BY <1>1, <1>2, <1>3, <1>4, <1>5 DEF HandleRsmc, chain
  <1>7. Grows /\ NoNewRow
    BY <1>6, SameRows
  <1>8. ok => /\ new \in Message /\ new.kind = "Sign0" /\ new.hop = i /\ new.to = Opp(s)
              /\ new.good = good
    <2> SUFFICES ASSUME ok
                 PROVE  /\ new \in Message /\ new.kind = "Sign0" /\ new.hop = i /\ new.to = Opp(s)
                        /\ new.good = good
      OBVIOUS
    <2>1. good \in BOOLEAN
      <3>1. htlc[i][s] # NoTrade
        BY <1>3
      <3>2. htlc[i][s] \in HtlcTrade
        BY <3>1 DEF IInv, TablesOK, HtlcTables
      <3> QED BY <1>4, <3>2 DEF HtlcTrade
    <2>2. PICK m1 : m1 = [m EXCEPT !.kind = "Sign0"]
      OBVIOUS
    <2>3. m1 \in Message /\ m1.kind = "Sign0" /\ m1.hop = i
      BY <1>2, <2>2 DEF Message
    <2>4. PICK m2 : m2 = [m1 EXCEPT !.to = Opp(s)]
      OBVIOUS
    <2>5. m2 \in Message /\ m2.kind = "Sign0" /\ m2.hop = i /\ m2.to = Opp(s)
      BY <1>1, <1>2, <2>3, <2>4 DEF Message
    <2>6. new = [m2 EXCEPT !.good = good]
      BY <1>5, <2>2, <2>4
    <2> QED BY <2>1, <2>5, <2>6 DEF Message
  <1>9. ok => PayingOK(new)'
    <2> SUFFICES ASSUME ok PROVE PayingOK(new)'
      OBVIOUS
    <2>1. Got(i, Opp(s))' /\ Row(i, s)' /\ (good => Got(i, s)')
      BY <1>1, <1>2, <1>3, <1>4, <1>6 DEF PayingOK, Got, Row
    <2> QED BY <1>1, <1>2, <1>8, <2>1 DEF PayingOK
  <1>10. /\ book' \in [Hops -> Books] /\ BooksOK'
         /\ \A j \in Hops : book'[j]["payee"].free["payer"] = book[j]["payee"].free["payer"]
    BY <1>6, SameBooks
  <1>11. NetOK(net') /\ MsgsOK'
    <2>1. CASE ok
      BY <1>6, <1>7, <1>8, <1>9, <1>10, <2>1, Answered DEF Locking
    <2>2. CASE ~ ok
      <3>1. net' = SentIf(FALSE, Rest(w), Msg("RResponse", i, s))
        BY <1>6, <2>2 DEF SentIf
      <3>2. Msg("RResponse", i, s) \in Message /\ Msg("RResponse", i, s).kind \notin Locking
        BY MessageFacts DEF IInv, Locking
      <3> QED BY <1>6, <1>7, <1>10, <3>1, <3>2, Answered
    <2> QED BY <2>1, <2>2
  <1>12. /\ rsmc' \in [Hops -> [Sides -> [Sides -> PaymentStates]]]
         /\ \A j \in Hops, r, f \in Sides :
                rsmc'[j][r][f] = "confirmed" => rsmc[j][r][f] = "confirmed" \/ Got(j, r)'
    <2>1. CASE ok
      <3>1. rsmc' = [rsmc EXCEPT ![i][s][Opp(s)] = "confirming"]
        BY <1>6, <2>1
      <3>2. Opp(s) \in Sides /\ "confirming" \in PaymentStates
        BY <1>1, <1>2 DEF PaymentStates
      <3> QED BY <3>1, <3>2, OnePaymentStep DEF IInv
    <2>2. CASE ~ ok
      BY <1>6, <2>2, SamePayment DEF IInv
    <2> QED BY <2>1, <2>2
  <1> QED BY <1>6, <1>7, <1>10, <1>11, <1>12, HandlerStep DEF IInv, TablesOK

LEMMA HandleSign0Step ==
    ASSUME IInv, UNCHANGED env, NEW w \in 1 .. N, NEW unsent \in BOOLEAN, HandleSign0(w, unsent)
    PROVE  IInv'
  <1>1. PICK m \in Message :
            /\ m = Head(net[w]) /\ m.kind = "Sign0" /\ m.hop \in Hops /\ m.to \in Sides
            /\ Opp(m.to) \in Sides /\ Opp(m.to) # m.to /\ Opp(Opp(m.to)) = m.to
            /\ PayingOK(m)
    BY Taken, ZenonT(30) DEF HandleSign0
  <1>2. PICK i \in Hops, s \in Sides : i = m.hop /\ s = m.to
    BY <1>1
  <1>3. PICK ok \in BOOLEAN : ok = (AgreesToPay(i, s, s, m.bal) /\ m.good)
    OBVIOUS
  <1>4. PICK new : new = [m EXCEPT !.kind = "Sign1", !.to = Opp(s)]
    OBVIOUS
  <1>5. PICK answers \in BOOLEAN : answers = (ok /\ ~unsent)
    OBVIOUS
  <1>6. /\ UNCHANGED <<chan, now, claimed, notice>>
        /\ net' = SentIf(answers, Rest(w), new)
        /\ rsmc' = IF ok THEN [rsmc EXCEPT ![i][s][s] = "confirmed"] ELSE rsmc
        /\ IF answers THEN /\ htlc' = [htlc EXCEPT ![i][s].state = "confirmed"]
                           /\ book' = [book EXCEPT ![i][s] = Paid(@, s, Amount[i])]
                      ELSE UNCHANGED <<htlc, book>>
        /\ Fault("unsent", unsent) /\ Takes(w, "Sign0")
    BY <1>1, <1>2, <1>3, <1>4, <1>5 DEF HandleSign0, Confirmed, chain
  <1>7. new \in Message /\ new.kind = "Sign1" /\ new.hop = i /\ new.to = Opp(s)
    <2>1. PICK m1 : m1 = [m EXCEPT !.kind = "Sign1"]
      OBVIOUS
    <2>2. m1 \in Message /\ m1.kind = "Sign1" /\ m1.hop = i
      BY <1>2, <2>1 DEF Message
    <2>3. new = [m1 EXCEPT !.to = Opp(s)]
      BY <1>4, <2>1
    <2> QED BY <1>1, <1>2, <2>2, <2>3 DEF Message
  <1>8. Got(i, s) /\ Row(i, s) /\ (ok => Got(i, Opp(s)))
    BY <1>1, <1>2, <1>3 DEF PayingOK, Got
  <1>9. htlc' \in HtlcTables /\ Grows /\ NoNewRow
    <2>1. CASE answers
      <3>1. PICK t : t = [htlc[i][s] EXCEPT !.state = "confirmed"]
        OBVIOUS
      <3>2. htlc[i][s] \in HtlcTrade
        BY <1>8 DEF Row, IInv, TablesOK, HtlcTables
      <3>3. /\ t \in HtlcTrade /\ t.rcode = htlc[i][s].rcode /\ t.signed = htlc[i][s].signed
            /\ t.delay = htlc[i][s].delay /\ t.next = htlc[i][s].next
        BY <3>1, <3>2, RowFacts
      <3>4. htlc' = [htlc EXCEPT ![i][s] = t]
        BY <1>6, <2>1, <3>1
      <3> QED BY <1>8, <3>3, <3>4, RowUpdated DEF IInv
    <2>2. CASE ~ answers
      BY <1>6, <2>2, SameRows DEF IInv, TablesOK
    <2> QED BY <2>1, <2>2
  <1>10. /\ book' \in [Hops -> Books] /\ BooksOK'
         /\ \A j \in Hops : book'[j]["payee"].free["payer"] = book[j]["payee"].free["payer"]
    <2>1. CASE answers
      <3>1. BookOK(i, s) /\ book' = [book EXCEPT ![i][s] = Paid(@, s, Amount[i])]
        BY <1>6, <2>1 DEF IInv, BooksOK
      <3> QED BY <3>1, PaidKeepsBook DEF IInv
    <2>2. CASE ~ answers
      BY <1>6, <2>2, SameBooks
    <2> QED BY <2>1, <2>2
  <1>11. Got(i, s)' /\ (ok => Got(i, Opp(s))')
    BY <1>1, <1>2, <1>8, <1>9 DEF Grows, Got
  <1>12. answers => PayingOK(new)'
    BY <1>1, <1>2, <1>5, <1>7, <1>11 DEF PayingOK
  <1>13. NetOK(net') /\ MsgsOK'
    BY <1>6, <1>7, <1>9, <1>10, <1>12, Answered DEF Locking
  <1>14. /\ rsmc' \in [Hops -> [Sides -> [Sides -> PaymentStates]]]
         /\ \A j \in Hops, r, f \in Sides :
                rsmc'[j][r][f] = "confirmed" => rsmc[j][r][f] = "confirmed" \/ Got(j, r)'
    <2>1. CASE ok
      <3>1. rsmc' = [rsmc EXCEPT ![i][s][s] = "confirmed"] /\ "confirmed" \in PaymentStates
        BY <1>6, <2>1 DEF PaymentStates
      <3> QED BY <1>11, <3>1, OnePaymentStep DEF IInv
    <2>2. CASE ~ ok
      BY <1>6, <2>2, SamePayment DEF IInv
    <2> QED BY <2>1, <2>2
  <1> QED BY <1>6, <1>9, <1>10, <1>13, <1>14, HandlerStep

LEMMA HandleSign1Step ==
    ASSUME IInv, UNCHANGED env, NEW w \in 1 .. N, HandleSign1(w)
    PROVE  IInv'
  <1>1. PICK m \in Message :
            /\ m = Head(net[w]) /\ m.kind = "Sign1" /\ m.hop \in Hops /\ m.to \in Sides
            /\ Opp(m.to) \in Sides /\ PayingOK(m)
    BY Taken DEF HandleSign1
  <1>2. PICK i \in Hops, s \in Sides : i = m.hop /\ s = m.to
    BY <1>1
  <1>3. /\ UNCHANGED <<chan, now, claimed, notice, faults>>
        /\ net' = Rest(w) /\ Takes(w, "Sign1")
        /\ \/ /\ rsmc' = [rsmc EXCEPT ![i][s][Opp(s)] = "confirmed"]
              /\ htlc' = [htlc EXCEPT ![i][s].state = "confirmed"]
              /\ book' = [book EXCEPT ![i][s] = Paid(@, Opp(s), Amount[i])]
           \/ UNCHANGED <<rsmc, htlc, book>>
    BY <1>1, <1>2 DEF HandleSign1, Confirmed, chain
  <1>4. Got(i, s) /\ Row(i, s)
    BY <1>1, <1>2 DEF PayingOK, Got
  <1>5. /\ htlc' \in HtlcTables /\ Grows /\ NoNewRow
        /\ book' \in [Hops -> Books] /\ BooksOK'
        /\ \A j \in Hops : book'[j]["payee"].free["payer"] = book[j]["payee"].free["payer"]
        /\ rsmc' \in [Hops -> [Sides -> [Sides -> PaymentStates]]]
        /\ \A j \in Hops, r, f \in Sides :
               rsmc'[j][r][f] = "confirmed" => rsmc[j][r][f] = "confirmed" \/ Got(j, r)'
    <2>1. CASE UNCHANGED <<rsmc, htlc, book>>
      BY <2>1, SameRows, SameBooks, SamePayment DEF IInv, TablesOK
    <2>2. CASE /\ rsmc' = [rsmc EXCEPT ![i][s][Opp(s)] = "confirmed"]
               /\ htlc' = [htlc EXCEPT ![i][s].state = "confirmed"]
               /\ book' = [book EXCEPT ![i][s] = Paid(@, Opp(s), Amount[i])]
      <3>1. PICK t : t = [htlc[i][s] EXCEPT !.state = "confirmed"]
        OBVIOUS
      <3>2. htlc[i][s] \in HtlcTrade
        BY <1>4 DEF Row, IInv, TablesOK, HtlcTables
      <3>3. /\ t \in HtlcTrade /\ t.rcode = htlc[i][s].rcode /\ t.signed = htlc[i][s].signed
            /\ t.delay = htlc[i][s].delay /\ t.next = htlc[i][s].next
        BY <3>1, <3>2, RowFacts
      <3>4. htlc' = [htlc EXCEPT ![i][s] = t]
        BY <2>2, <3>1
      <3>5. htlc' \in HtlcTables /\ Grows /\ NoNewRow
        BY <1>4, <3>3, <3>4, RowUpdated DEF IInv
      <3>6. Got(i, s)'
        BY <1>4, <3>5 DEF Grows, Got
      <3>7. /\ rsmc' \in [Hops -> [Sides -> [Sides -> PaymentStates]]]
            /\ \A j \in Hops, r, f \in Sides :
                   rsmc'[j][r][f] = "confirmed" => rsmc[j][r][f] = "confirmed" \/ Got(j, r)'
        <4>1. Opp(s) \in Sides /\ "confirmed" \in PaymentStates
          BY <1>1, <1>2 DEF PaymentStates
        <4> QED BY <2>2, <3>6, <4>1, OnePaymentStep DEF IInv
      <3>8. BookOK(i, s) /\ Opp(s) \in Sides
        BY <1>1, <1>2 DEF IInv, BooksOK
      <3>9. /\ book' \in [Hops -> Books] /\ BooksOK'
            /\ \A j \in Hops : book'[j]["payee"].free["payer"] = book[j]["payee"].free["payer"]
        BY <2>2, <3>8, PaidKeepsBook DEF IInv
      <3> QED BY <3>5, <3>7, <3>9
    <2> QED BY <1>3, <2>1, <2>2
  <1>6. NetOK(net') /\ MsgsOK'
    <2>1. net' = SentIf(FALSE, Rest(w), Msg("RResponse", i, s))
      BY <1>3 DEF SentIf
    <2>2. Msg("RResponse", i, s) \in Message /\ Msg("RResponse", i, s).kind \notin Locking
      BY MessageFacts DEF IInv, Locking
    <2> QED BY <1>3, <1>5, <2>1, <2>2, Answered
  <1>7. TablesOK'
    BY <1>3, <1>5 DEF IInv, TablesOK, PaymentStates
  <1>8. now' \in Nat /\ now' >= now
    BY <1>3 DEF IInv, TablesOK
  <1>9. RowsOK' /\ SecretsOK'
    BY <1>3, <1>5, <1>8, OldRows, OldSecrets DEF IInv
  <1> QED BY <1>5, <1>6, <1>7, <1>9 DEF IInv

-----------------------------------------------------------------------------
(* The handlers that lock a hop.                                           *)

\* Locking an amount that is free keeps the book's sum.
LEMMA LockedKeepsBook ==
    ASSUME TablesOK, BooksOK, NEW i \in Hops, NEW s \in Sides,
           book[i][s].free["payer"] >= Amount[i],
           book' = [book EXCEPT ![i][s] = Locked(@, Amount[i])]
    PROVE  /\ book' \in [Hops -> Books] /\ BooksOK'
           /\ \A j \in Hops, r \in Sides : j # i \/ r # s => book'[j][r] = book[j][r]
  <1>1. PICK p \in Nat : p = Amount[i]
    BY RouteAssumption
  <1>2. PICK b \in [free : Balances, lock : Int] : b = book[i][s]
    BY DEF TablesOK, Books
  <1>3. PICK after \in [free : Balances, lock : Int] : after = Locked(b, p)
    BY BookFacts
  <1>4. /\ after.free["payer"] = b.free["payer"] - p
        /\ after.free["payee"] = b.free["payee"] /\ after.lock = b.lock + p
    BY <1>3, BookFacts
  <1>5. BookOK(i, s)
    BY DEF BooksOK
  <1>6. b.free["payer"] \in Int /\ b.free["payee"] \in Int /\ b.lock \in Int
    BY DEF Balances
  <1>7. book' = [book EXCEPT ![i][s] = after]
    BY <1>1, <1>2, <1>3
  <1>8. /\ book' \in [Hops -> Books] /\ book'[i][s] = after
        /\ \A j \in Hops, r \in Sides : j # i \/ r # s => book'[j][r] = book[j][r]
    <2> DEFINE books == [book EXCEPT ![i][s] = after]
    <2>1. /\ books \in [Hops -> Books] /\ books[i][s] = after
          /\ \A j \in Hops, r \in Sides : j # i \/ r # s => books[j][r] = book[j][r]
      BY OneBook
    <2> HIDE DEF books
    <2>2. book' = books
      BY <1>7 DEF books
    <2> QED BY <2>1, <2>2
  <1>9. ASSUME NEW j \in Hops, NEW r \in Sides PROVE BookOK(j, r)'
    <2>1. CASE j = i /\ r = s
      <3>1. /\ after.lock >= 0 /\ after.free["payer"] >= 0 /\ after.free["payee"] >= 0
            /\ after.free["payer"] + after.free["payee"] + after.lock =
                   b.free["payer"] + b.free["payee"] + b.lock
        BY <1>1, <1>2, <1>4, <1>5, <1>6 DEF BookOK
      <3> QED BY <1>2, <1>5, <1>8, <2>1, <3>1 DEF BookOK
    <2>2. CASE j # i \/ r # s
      BY <1>8, <2>2 DEF BooksOK, BookOK
    <2> QED BY <2>1, <2>2
  <1> QED BY <1>8, <1>9 DEF BooksOK

\* Every message is an old one the step spares, or a new one that is right.
LEMMA NewMessages ==
    ASSUME MsgsOK, Grows,
           \A m \in Message : In(m, net') =>
               (In(m, net) /\ Spares(m)) \/ (LockingOK(m)' /\ PayingOK(m)')
    PROVE  MsgsOK'
  <1> SUFFICES ASSUME NEW m \in Message, In(m, net') PROVE LockingOK(m)' /\ PayingOK(m)'
    BY DEF MsgsOK
  <1>1. CASE In(m, net) /\ Spares(m)
    BY <1>1, OldMessage DEF MsgsOK
  <1> QED BY <1>1

\* A message that locks a hop is taken, and another sent for the same hop, or
\* for a hop no message locks.
LEMMA AnsweredLock ==
    ASSUME IInv, NEW w \in 1 .. N, NEW kind \in Locking, Takes(w, kind),
           NEW new \in Message, NEW happens \in BOOLEAN,
           \/ new.hop = Head(net[w]).hop
           \/ \A x \in Message : In(x, net) /\ x.kind \in Locking => x.hop # new.hop,
           net' = SentIf(happens, Rest(w), new)
    PROVE  /\ NetOK(net')
           /\ \A x \in Message : In(x, net') =>
                  (In(x, net) /\ (x.kind \in Locking => x.hop # Head(net[w]).hop))
                  \/ (happens /\ x = new)
  <1>1. /\ NetOK(Rest(w)) /\ \A x \in Message : In(x, Rest(w)) => In(x, net)
        /\ \A x \in Message : In(x, Rest(w)) /\ x.kind \in Locking => x.hop # Head(net[w]).hop
    BY RestOK DEF IInv, Takes
  <1>2. \A x \in Message : In(x, Rest(w)) /\ x.kind \in Locking => x.hop # new.hop
    BY <1>1
  <1>3. /\ NetOK(SentIf(happens, Rest(w), new))
        /\ \A x \in Message : In(x, SentIf(happens, Rest(w), new))
                                => In(x, Rest(w)) \/ (happens /\ x = new)
    BY <1>1, <1>2, SentOK
  <1> QED BY <1>1, <1>3

LEMMA HandleHtlcSign0Step ==
    ASSUME IInv, UNCHANGED env, NEW w \in 1 .. N, NEW unsent \in BOOLEAN,
           HandleHtlcSign0(w, unsent)
    PROVE  IInv'
  <1>1. PICK m \in Message :
            /\ m = Head(net[w]) /\ m.kind = "HtlcSign0" /\ m.hop \in Hops
            /\ LockingOK(m)
    BY Taken DEF HandleHtlcSign0
  <1>2. PICK i \in Hops : i = m.hop
    BY <1>1
  <1>3. PICK ok \in BOOLEAN : ok = (Agrees(i, "payer", m.bal) /\ htlc[i]["payer"] # NoTrade)
    OBVIOUS
  <1>4. PICK new : new = [m EXCEPT !.kind = "HtlcSign1", !.to = "payee"]
    OBVIOUS
  <1>5. PICK answers \in BOOLEAN : answers = (ok /\ ~unsent)
    OBVIOUS
  <1>6. /\ UNCHANGED <<chan, rsmc, now, claimed, notice>>
        /\ net' = SentIf(answers, Rest(w), new)
        /\ htlc' = IF ok THEN [htlc EXCEPT ![i]["payer"] = Signed(@)] ELSE htlc
        /\ book' = IF answers THEN [book EXCEPT ![i]["payer"] = Locked(@, Amount[i])] ELSE book
        /\ Fault("unsent", unsent) /\ Takes(w, "HtlcSign0")
    BY <1>1, <1>2, <1>3, <1>4, <1>5 DEF HandleHtlcSign0, chain
  <1>7. new \in Message /\ new.kind = "HtlcSign1" /\ new.hop = i /\ new.to = "payee"
    <2>1. PICK m1 : m1 = [m EXCEPT !.kind = "HtlcSign1"]
      OBVIOUS
    <2>2. m1 \in Message /\ m1.kind = "HtlcSign1" /\ m1.hop = i
      BY <1>2, <2>1 DEF Message
    <2>3. new = [m1 EXCEPT !.to = "payee"]
      BY <1>4, <2>1
    <2> QED BY <1>1, <1>2, <2>2, <2>3 DEF Message
  <1>8. /\ Row(i, "payer") /\ Row(i, "payee")
        /\ book[i]["payee"].free["payer"] >= Amount[i]
        /\ i + 1 \in Hops => ~ Row(i + 1, "payer")
    BY <1>1, <1>2 DEF LockingOK, Locking
  <1>9. htlc' \in HtlcTables /\ Grows /\ NoNewRow
    <2>1. CASE ok
      <3>1. PICK t : t = Signed(htlc[i]["payer"])
        OBVIOUS
      <3>2. htlc[i]["payer"] \in HtlcTrade
        BY <1>8 DEF Row, IInv, TablesOK, HtlcTables
      <3>3. /\ t \in HtlcTrade /\ t.rcode = htlc[i]["payer"].rcode /\ t.signed
            /\ t.delay = htlc[i]["payer"].delay /\ t.next = htlc[i]["payer"].next
        BY <3>1, <3>2, RowFacts
      <3>4. htlc' = [htlc EXCEPT ![i]["payer"] = t]
        BY <1>6, <2>1, <3>1
      <3> QED BY <1>8, <3>3, <3>4, RowUpdated DEF IInv
    <2>2. CASE ~ ok
      BY <1>6, <2>2, SameRows DEF IInv, TablesOK
    <2> QED BY <2>1, <2>2
  <1>10. /\ book' \in [Hops -> Books] /\ BooksOK'
         /\ \A j \in Hops : book'[j]["payee"] = book[j]["payee"]
    <2>1. CASE answers
      <3>1. book[i]["payer"].free["payer"] >= Amount[i]
        <4>1. Amount[i] \in Nat
          BY RouteAssumption
        <4>2. book[i]["payer"].free["payer"] \in Int
          BY DEF IInv, TablesOK, Books, Balances
        <4> QED BY <1>3, <1>5, <2>1, <4>1, <4>2 DEF Agrees, CanPay
      <3>2. book' = [book EXCEPT ![i]["payer"] = Locked(@, Amount[i])]
        BY <1>6, <2>1
      <3> QED BY <3>1, <3>2, LockedKeepsBook DEF IInv
    <2>2. CASE ~ answers
      BY <1>6, <2>2, SameBooks
    <2> QED BY <2>1, <2>2
  <1>11. LockingOK(new)' /\ PayingOK(new)'
    <2>1. Row(i, "payer")' /\ Row(i, "payee")' /\ (i + 1 \in Hops => ~ Row(i + 1, "payer")')
      BY <1>8, <1>9 DEF Grows, NoNewRow
    <2>2. book'[i]["payee"].free["payer"] >= Amount[i]
      BY <1>8, <1>10
    <2> QED BY <1>7, <2>1, <2>2 DEF LockingOK, PayingOK
  <1>12. NetOK(net') /\ \A x \in Message : In(x, net') => In(x, net) \/ (answers /\ x = new)
    <2>1. "HtlcSign0" \in Locking /\ new.hop = Head(net[w]).hop
      BY <1>1, <1>2, <1>7 DEF Locking
    <2> QED BY <1>6, <1>7, <2>1, AnsweredLock
  <1>13. MsgsOK'
    BY <1>7, <1>9, <1>10, <1>11, <1>12, OldMessages DEF IInv
  <1> QED BY <1>6, <1>9, <1>10, <1>12, <1>13, SamePayment, HandlerStep DEF IInv

\* A row is added.
LEMMA RowAdded ==
    ASSUME TablesOK, NEW i \in Hops, NEW s \in Sides, NEW t \in HtlcTrade, ~ Row(i, s),
           htlc' = [htlc EXCEPT ![i][s] = t]
    PROVE  /\ htlc' \in HtlcTables /\ Grows /\ htlc'[i][s] = t /\ Row(i, s)'
           /\ \A j \in Hops, r \in Sides : j # i \/ r # s => htlc'[j][r] = htlc[j][r]
  <1>1. /\ htlc' \in HtlcTables /\ htlc'[i][s] = t
        /\ \A j \in Hops, r \in Sides : j # i \/ r # s => htlc'[j][r] = htlc[j][r]
    <2> DEFINE side == [htlc[i] EXCEPT ![s] = t]
    <2>1. side \in [Sides -> HtlcTrade \cup {NoTrade}] /\ side[s] = t
          /\ \A r \in Sides : r # s => side[r] = htlc[i][r]
      BY DEF TablesOK, HtlcTables
    <2>2. htlc' = [htlc EXCEPT ![i] = side]
      OBVIOUS
    <2> HIDE DEF side
    <2> QED BY <2>1, <2>2 DEF TablesOK, HtlcTables
  <1>2. Row(i, s)'
    BY <1>1, TradeIsRow DEF Row
  <1>3. ASSUME NEW j \in Hops, NEW r \in Sides, Row(j, r)
        PROVE  htlc'[j][r] = htlc[j][r]
    BY <1>1, <1>3
  <1>4. Grows
    BY <1>3 DEF Grows, Row
  <1> QED BY <1>1, <1>2, <1>4

LEMMA HandleHtlcStep ==
    ASSUME IInv, UNCHANGED env, NEW w \in 1 .. N, NEW unsent \in BOOLEAN, HandleHtlc(w, unsent)
    PROVE  IInv'
  <1>1. PICK m \in Message :
            /\ m = Head(net[w]) /\ m.kind = "Htlc" /\ m.hop \in Hops /\ m.delay \in Nat
            /\ LockingOK(m)
    BY Taken DEF HandleHtlc
  <1>2. PICK i \in Hops : i = m.hop
    BY <1>1
  <1>3. PICK ok \in BOOLEAN : ok = (Agrees(i, "payee", m.bal) /\ ~unsent)
    OBVIOUS
  <1>4. PICK new : new = [m EXCEPT !.kind = "HtlcSign0", !.to = "payer"]
    OBVIOUS
  <1>5. PICK t : t = [state |-> "confirming", signed |-> FALSE, rcode |-> FALSE,
                      delay |-> m.delay, next |-> i]
    OBVIOUS
  <1>6. /\ UNCHANGED <<chan, book, rsmc, now, claimed, notice>>
        /\ net' = SentIf(ok, Rest(w), new)
        /\ htlc' = IF ok THEN [htlc EXCEPT ![i]["payee"] = t] ELSE htlc
        /\ Fault("unsent", unsent) /\ Takes(w, "Htlc")
    BY <1>1, <1>2, <1>3, <1>4, <1>5 DEF HandleHtlc, chain
  <1>7. new \in Message /\ new.kind = "HtlcSign0" /\ new.hop = i /\ new.to = "payer"
    <2>1. PICK m1 : m1 = [m EXCEPT !.kind = "HtlcSign0"]
      OBVIOUS
    <2>2. m1 \in Message /\ m1.kind = "HtlcSign0" /\ m1.hop = i
      BY <1>2, <2>1 DEF Message
    <2>3. new = [m1 EXCEPT !.to = "payer"]
      BY <1>4, <2>1
    <2> QED BY <2>2, <2>3 DEF Message
  <1>8. /\ Row(i, "payer") /\ ~ Row(i, "payee") /\ m.delay >= Day * (N - i)
        /\ i + 1 \in Hops => ~ Row(i + 1, "payer")
    BY <1>1, <1>2 DEF LockingOK, Locking
  <1>9. /\ NetOK(net')
        /\ \A x \in Message : In(x, net') =>
               (In(x, net) /\ (x.kind \in Locking => x.hop # i)) \/ (ok /\ x = new)
    <2>1. "Htlc" \in Locking /\ new.hop = Head(net[w]).hop /\ Head(net[w]).hop = i
      BY <1>1, <1>2, <1>7 DEF Locking
    <2> QED BY <1>6, <1>7, <2>1, AnsweredLock
  <1>10. /\ book' \in [Hops -> Books] /\ BooksOK'
         /\ \A j \in Hops : book'[j]["payee"].free["payer"] = book[j]["payee"].free["payer"]
    BY <1>6, SameBooks
  <1>11. CASE ~ ok
    <2>1. htlc' \in HtlcTables /\ Grows /\ NoNewRow
      BY <1>6, <1>11, SameRows DEF IInv, TablesOK
    <2>2. \A x \in Message : In(x, net') => In(x, net)
      BY <1>9, <1>11
    <2>3. MsgsOK'
      BY <1>10, <2>1, <2>2, NoMessage DEF IInv
    <2> QED BY <1>6, <1>9, <1>10, <2>1, <2>3, SamePayment, HandlerStep DEF IInv
  <1>12. CASE ok
    <2>1. t \in HtlcTrade /\ t.delay = m.delay /\ t.next = i
      BY <1>1, <1>5, RouteAssumption DEF HtlcTrade
    <2>2. /\ htlc' \in HtlcTables /\ Grows /\ htlc'[i]["payee"] = t /\ Row(i, "payee")'
          /\ \A j \in Hops, r \in Sides : j # i \/ r # "payee" => htlc'[j][r] = htlc[j][r]
      <3>1. htlc' = [htlc EXCEPT ![i]["payee"] = t]
        BY <1>6, <1>12
      <3> QED BY <1>8, <2>1, <3>1, RowAdded DEF IInv
    <2>3. \A j \in Hops, r \in Sides : j # i \/ r # "payee" => (Row(j, r)' <=> Row(j, r))
      BY <2>2 DEF Row
    <2>4. RowsOK'
      <3> SUFFICES ASSUME NEW j \in Hops PROVE PayerRowOK(j)' /\ PayeeRowOK(j)'
        BY DEF RowsOK
      <3>1. now' \in Nat /\ now' >= now
        BY <1>6 DEF IInv, TablesOK
      <3>2. PayerRowOK(j)'
        BY <2>2, <2>3, <3>1, OldRow DEF IInv
      <3>3. CASE j # i
        BY <2>2, <2>3, <3>1, <3>2, <3>3, OldRow DEF IInv
      <3>4. CASE j = i
        <4>1. Row(i, "payer")'
          BY <1>8, <2>3
        <4>2. PayeeRowOK(i)'
          BY <1>8, <2>1, <2>2, <4>1 DEF PayeeRowOK
        <4> QED BY <3>2, <3>4, <4>2
      <3> QED BY <3>3, <3>4
    <2>5. LockingOK(new)' /\ PayingOK(new)'
      <3>1. book'[i]["payee"].free["payer"] >= Amount[i]
        <4>1. Amount[i] \in Nat
          BY RouteAssumption
        <4>2. book[i]["payee"].free["payer"] \in Int
          BY DEF IInv, TablesOK, Books, Balances
        <4> QED BY <1>3, <1>6, <1>12, <4>1, <4>2 DEF Agrees, CanPay
      <3>2. i + 1 \in Hops => ~ Row(i + 1, "payer")'
        BY <1>8, <2>3
      <3>3. Row(i, "payer")' /\ Row(i, "payee")'
        BY <1>8, <2>2, <2>3
      <3> QED BY <1>7, <3>1, <3>2, <3>3 DEF LockingOK, PayingOK
    <2>6. ASSUME NEW x \in Message, In(x, net'), x # new
          PROVE  In(x, net) /\ Spares(x)
      <3>1. In(x, net) /\ (x.kind \in Locking => x.hop # i) /\ x.hop \in Hops
        BY <1>9, <2>6 DEF Message
      <3> QED BY <1>6, <2>3, <3>1 DEF Spares
    <2>7. MsgsOK'
      BY <2>2, <2>5, <2>6, NewMessages DEF IInv
    <2>8. faults' \in 0 .. env.maxFaults
      BY <1>6, FaultOK DEF IInv
    <2> QED BY <1>6, <1>9, <1>10, <2>2, <2>4, <2>7, <2>8, SamePayment, AddingStep DEF IInv
  <1> QED BY <1>11, <1>12

LEMMA TransferStep ==
    ASSUME IInv, UNCHANGED env, Transfer
    PROVE  IInv'
  <1>1. 1 \in Hops
    BY RouteAssumption
  <1>2. PICK new : new = HtlcRequest(1)
    OBVIOUS
  <1>3. PICK t : t = Created(1, 0)
    OBVIOUS
  <1>4. /\ UNCHANGED <<chan, book, rsmc, now, claimed, notice, faults>>
        /\ net' = SentIf(TRUE, net, new) /\ htlc' = [htlc EXCEPT ![1]["payer"] = t]
        /\ ~ Row(1, "payer")
    BY <1>2, <1>3 DEF Transfer, chain, Row
  <1>5. /\ new \in Message /\ new.kind = "Htlc" /\ new.hop = 1 /\ new.to = "payee"
        /\ new.delay = now + Day * (N - 1) /\ Delay(1) \in Nat
    BY <1>1, <1>2, MessageFacts DEF IInv, Delay
  <1>6. t \in HtlcTrade /\ t.next = 0 /\ t.delay = now + Day * (N - 1)
    BY <1>3, <1>5, RouteAssumption DEF Created, HtlcTrade, Delay
  <1>7. /\ htlc' \in HtlcTables /\ Grows /\ htlc'[1]["payer"] = t /\ Row(1, "payer")'
        /\ \A j \in Hops, r \in Sides : j # 1 \/ r # "payer" => htlc'[j][r] = htlc[j][r]
    BY <1>1, <1>4, <1>6, RowAdded DEF IInv
  <1>8. \A j \in Hops, r \in Sides : j # 1 \/ r # "payer" => (Row(j, r)' <=> Row(j, r))
    BY <1>7 DEF Row
  <1>9. /\ ~ Row(1, "payee") /\ (2 \in Hops => ~ Row(2, "payer"))
        /\ \A x \in Message : In(x, net) /\ x.kind \in Locking => x.hop # 1
    <2>1. ~ Row(1, "payee")
      BY <1>1, <1>4 DEF IInv, RowsOK, PayeeRowOK
    <2>2. 2 \in Hops => ~ Row(2, "payer")
      BY <2>1 DEF IInv, RowsOK, PayerRowOK
    <2>3. ASSUME NEW x \in Message, In(x, net), x.kind \in Locking PROVE x.hop # 1
      BY <1>4, <2>3 DEF IInv, MsgsOK, LockingOK, Locking
    <2> QED BY <2>1, <2>2, <2>3
  <1>10. RowsOK'
    <2> SUFFICES ASSUME NEW j \in Hops PROVE PayerRowOK(j)' /\ PayeeRowOK(j)'
      BY DEF RowsOK
    <2>1. now' \in Nat /\ now' >= now
      BY <1>4 DEF IInv, TablesOK
    <2>2. PayeeRowOK(j)'
      BY <1>7, <1>8, <2>1, OldRow DEF IInv
    <2>3. CASE j # 1
      BY <1>7, <1>8, <2>1, <2>2, <2>3, OldRow DEF IInv
    <2>4. CASE j = 1
      <3>1. now + Day * (N - 1) \in Nat
        BY <1>1, <1>5, MessageFacts DEF IInv, Delay
      <3>2. PayerRowOK(1)'
        BY <1>4, <1>6, <1>7, <3>1 DEF PayerRowOK
      <3> QED BY <2>2, <2>4, <3>2
    <2> QED BY <2>3, <2>4
  <1>11. LockingOK(new)' /\ PayingOK(new)'
    <2>1. now + Day * (N - 1) >= Day * (N - 1)
      <3>1. now \in Nat /\ Day * (N - 1) \in Int
        BY RouteAssumption DEF IInv, TablesOK
      <3> QED BY <3>1
    <2>2. ~ Row(1, "payee")' /\ (1 + 1 \in Hops => ~ Row(1 + 1, "payer")')
      BY <1>1, <1>8, <1>9
    <2> QED BY <1>5, <1>7, <2>1, <2>2 DEF LockingOK, PayingOK
  <1>12. /\ NetOK(net')
         /\ \A x \in Message : In(x, net') => In(x, net) \/ x = new
    BY <1>4, <1>5, <1>9, SentOK DEF IInv
  <1>13. MsgsOK'
    <2>1. ASSUME NEW x \in Message, In(x, net), x # new PROVE Spares(x)
      <3>1. (x.kind \in Locking => x.hop # 1) /\ x.hop \in Hops /\ x.hop + 1 # 1
        BY <1>9, <2>1 DEF Message
      <3> QED BY <1>4, <1>8, <3>1 DEF Spares
    <2> QED BY <1>7, <1>11, <1>12, <2>1, NewMessages DEF IInv
  <1>14. /\ book' \in [Hops -> Books] /\ BooksOK' /\ faults' \in 0 .. env.maxFaults
    BY <1>4, SameBooks DEF IInv, TablesOK
  <1> QED BY <1>4, <1>7, <1>10, <1>12, <1>13, <1>14, SamePayment, AddingStep DEF IInv

-----------------------------------------------------------------------------
(* The way of the secret.                                                  *)

\* The table with one row written.
Write(table, i, s, t) == [table EXCEPT ![i][s] = t]

LEMMA WriteFacts ==
    ASSUME NEW table \in HtlcTables, NEW i \in Hops, NEW s \in Sides, NEW t \in HtlcTrade
    PROVE  /\ Write(table, i, s, t) \in HtlcTables /\ Write(table, i, s, t)[i][s] = t
           /\ \A j \in Hops, r \in Sides :
                  j # i \/ r # s => Write(table, i, s, t)[j][r] = table[j][r]
  <1> DEFINE side == [table[i] EXCEPT ![s] = t]
  <1>1. side \in [Sides -> HtlcTrade \cup {NoTrade}] /\ side[s] = t
        /\ \A r \in Sides : r # s => side[r] = table[i][r]
    BY DEF HtlcTables
  <1>2. Write(table, i, s, t) = [table EXCEPT ![i] = side]
    BY DEF Write
  <1> HIDE DEF side
  <1> QED BY <1>1, <1>2 DEF HtlcTables

LEMMA HandleRResponseStep ==
    ASSUME IInv, UNCHANGED env, NEW w \in 1 .. N,
           NEW unsent \in {"no", "ack", "pay", "notify"}, HandleRResponse(w, unsent)
    PROVE  IInv'
  <1>1. PICK m \in Message :
            /\ m = Head(net[w]) /\ m.kind = "RResponse" /\ m.hop \in Hops /\ m.to \in Sides
            /\ Opp(m.to) \in Sides /\ Opp(m.to) # m.to /\ Opp(Opp(m.to)) = m.to
    <2>1. Takes(w, "RResponse")
      BY DEF HandleRResponse
    <2> QED BY <2>1, Taken
  <1>2. PICK i \in Hops, s \in Sides : i = m.hop /\ s = m.to
    BY <1>1
  <1>3. PICK row : row = htlc[i][s]
    OBVIOUS
  <1>4. PICK ok \in BOOLEAN : ok = (Opened(i, s) /\ row # NoTrade)
    OBVIOUS
  <1>5. PICK pays \in BOOLEAN :
            pays = (ok /\ unsent \notin {"ack", "pay"} /\ CanPay(book[i][s], s, Amount[i]))
    OBVIOUS
  <1>6. PICK tells \in BOOLEAN : tells = (ok /\ unsent # "ack" /\ row.next \notin {0, i})
    OBVIOUS
  <1>7. PICK stored : stored = [htlc EXCEPT ![i][s].rcode = TRUE]
    OBVIOUS
  <1>8. PICK bal : bal = Paying(book[i][s], s, Amount[i])
    OBVIOUS
  <1>9. PICK pay : pay = [Msg("Rsmc", i, Opp(s)) EXCEPT !.bal = bal]
    OBVIOUS
  <1>10. PICK tell : tell = Msg("RResponse", row.next, s)
    OBVIOUS
  <1>11. PICK told \in BOOLEAN : told = (tells /\ unsent # "notify")
    OBVIOUS
  <1>12. PICK boxes : boxes = SentIf(pays, Rest(w), pay)
    OBVIOUS
  <1>13. /\ UNCHANGED <<chan, book, now, claimed, notice>>
         /\ net' = SentIf(told, boxes, tell)
         /\ htlc' = IF ~ok THEN htlc
                    ELSE IF ~tells THEN stored
                    ELSE [stored EXCEPT ![row.next][Opp(s)].rcode = TRUE]
         /\ rsmc' = IF pays /\ rsmc[i][s][s] = "none"
                    THEN [rsmc EXCEPT ![i][s][s] = "init"] ELSE rsmc
         /\ Fault("unsent", unsent # "no") /\ Takes(w, "RResponse")
    BY <1>1, <1>2, <1>3, <1>4, <1>5, <1>6, <1>7, <1>8, <1>9, <1>10, <1>11, <1>12
    DEF HandleRResponse, NextSide, chain
  <1>14. PICK t : t = [row EXCEPT !.rcode = TRUE]
    OBVIOUS
  <1>15. ok => /\ row \in HtlcTrade /\ Row(i, s) /\ stored = [htlc EXCEPT ![i][s] = t]
               /\ t \in HtlcTrade /\ t.rcode /\ t.signed = row.signed
               /\ t.delay = row.delay /\ t.next = row.next
    <2> SUFFICES ASSUME ok
                 PROVE  /\ row \in HtlcTrade /\ Row(i, s) /\ stored = [htlc EXCEPT ![i][s] = t]
                        /\ t \in HtlcTrade /\ t.rcode /\ t.signed = row.signed
                        /\ t.delay = row.delay /\ t.next = row.next
      OBVIOUS
    <2>1. row \in HtlcTrade /\ Row(i, s)
      <3>1. htlc[i][s] \in HtlcTrade \cup {NoTrade}
        BY DEF IInv, TablesOK, HtlcTables
      <3>2. row # NoTrade
        BY <1>4
      <3> QED BY <1>3, <3>1, <3>2 DEF Row
    <2>2. stored = [htlc EXCEPT ![i][s] = t]
      BY <1>3, <1>7, <1>14
    <2> QED BY <1>14, <2>1, <2>2, RowFacts
  <1>16. tells => row.next \in Hops /\ row.next # i /\ Row(row.next, Opp(s))
    <2> SUFFICES ASSUME tells
                 PROVE  row.next \in Hops /\ row.next # i /\ Row(row.next, Opp(s))
      OBVIOUS
    <2>1. ok /\ row.next # 0 /\ row.next # i /\ Row(i, s) /\ row.next \in Hops
      <3>1. ok /\ row.next # 0 /\ row.next # i
        BY <1>6
      <3>2. row.next \in 0 .. N - 1
        BY <1>15, <3>1 DEF HtlcTrade
      <3> QED BY <1>15, <3>1, <3>2, RouteAssumption
    <2>2. PayerRowOK(i) /\ PayeeRowOK(i)
      BY DEF IInv, RowsOK
    <2>3. CASE s = "payer"
      <3>1. row.next = i - 1 /\ i # 1
        BY <1>3, <2>1, <2>2, <2>3 DEF PayerRowOK
      <3> QED BY <2>1, <2>2, <2>3, <3>1 DEF PayerRowOK, Opp
    <2>4. CASE s = "payee"
      <3>1. row.next = i + 1
        BY <1>3, <2>1, <2>2, <2>4 DEF PayeeRowOK
      <3> QED BY <1>3, <2>1, <2>2, <2>4, <3>1 DEF PayeeRowOK, Opp
    <2> QED BY <2>3, <2>4
  <1>17. /\ htlc' \in HtlcTables /\ Grows /\ NoNewRow
         /\ ok => Got(i, s)'
    <2>1. CASE ~ ok
      BY <1>13, <2>1, SameRows DEF IInv, TablesOK
    <2>2. CASE ok /\ ~ tells
      <3>1. htlc' = [htlc EXCEPT ![i][s] = t]
        BY <1>13, <1>15, <2>2
      <3>2. /\ htlc' \in HtlcTables /\ Grows /\ NoNewRow /\ htlc'[i][s] = t
        BY <1>3, <1>15, <2>2, <3>1, RowUpdated, ZenonT(30) DEF IInv
      <3> QED BY <1>15, <2>2, <3>2, TradeIsRow DEF Got, Row
    <2>3. CASE ok /\ tells
      <3>1. PICK j \in Hops, r \in Sides : j = row.next /\ r = Opp(s)
        BY <1>1, <1>2, <1>16, <2>3
      <3>2. i # j /\ Row(j, r) /\ htlc[j][r] \in HtlcTrade
        BY <1>16, <2>3, <3>1 DEF Row, IInv, TablesOK, HtlcTables
      <3>3. PICK u : u = [htlc[j][r] EXCEPT !.rcode = TRUE]
        OBVIOUS
      <3>4. /\ u \in HtlcTrade /\ u.rcode /\ u.signed = htlc[j][r].signed
            /\ u.delay = htlc[j][r].delay /\ u.next = htlc[j][r].next
        BY <3>2, <3>3, RowFacts
      <3>5. stored[j][r] = htlc[j][r]
        BY <1>7, <3>2 DEF IInv, TablesOK, HtlcTables
      <3>6. htlc' = Write(stored, j, r, u) /\ stored = Write(htlc, i, s, t)
        BY <1>13, <1>15, <2>3, <3>1, <3>3, <3>5 DEF Write
      <3>7. /\ htlc' \in HtlcTables /\ htlc'[i][s] = t /\ htlc'[j][r] = u
            /\ \A k \in Hops, v \in Sides :
                   (k # i \/ v # s) /\ (k # j \/ v # r) => htlc'[k][v] = htlc[k][v]
        <4>1. t \in HtlcTrade /\ htlc \in HtlcTables
          BY <1>15, <2>3 DEF IInv, TablesOK
        <4>2. /\ stored \in HtlcTables /\ stored[i][s] = t
              /\ \A k \in Hops, v \in Sides : k # i \/ v # s => stored[k][v] = htlc[k][v]
          BY <3>6, <4>1, WriteFacts, SMTT(30)
        <4>3. /\ htlc' \in HtlcTables /\ htlc'[j][r] = u
              /\ \A k \in Hops, v \in Sides : k # j \/ v # r => htlc'[k][v] = stored[k][v]
          BY <3>4, <3>6, <4>2, WriteFacts, SMTT(30)
        <4> QED BY <3>2, <4>2, <4>3
      <3>8. ASSUME NEW k \in Hops, NEW v \in Sides
            PROVE  /\ Row(k, v)' <=> Row(k, v)
                   /\ Row(k, v) =>
                        /\ htlc[k][v].rcode => htlc'[k][v].rcode
                        /\ htlc'[k][v].signed = htlc[k][v].signed
                        /\ htlc'[k][v].delay = htlc[k][v].delay
                        /\ htlc'[k][v].next = htlc[k][v].next
        <4>1. CASE k = i /\ v = s
          BY <1>3, <1>15, <2>3, <3>7, <4>1, TradeIsRow DEF Row
        <4>2. CASE k = j /\ v = r
          BY <3>2, <3>4, <3>7, <4>2, TradeIsRow DEF Row
        <4>3. CASE (k # i \/ v # s) /\ (k # j \/ v # r)
          BY <3>7, <4>3 DEF Row
        <4> QED BY <4>1, <4>2, <4>3
      <3>9. Grows
        BY <3>8 DEF Grows
      <3>10. NoNewRow
        BY <3>8 DEF NoNewRow
      <3>11. Got(i, s)'
        BY <1>15, <2>3, <3>7, TradeIsRow DEF Got, Row
      <3> QED BY <3>7, <3>9, <3>10, <3>11
    <2> QED BY <2>1, <2>2, <2>3
  <1>18. /\ pay \in Message /\ pay.kind = "Rsmc" /\ pay.hop = i /\ pay.to = Opp(s)
         /\ pay.kind \notin Locking
    <2>1. bal \in Balances
      <3>1. book[i][s] \in [free : Balances, lock : Int] /\ Amount[i] \in Nat
        <4>1. Amount[i] \in Nat
          BY RouteAssumption
        <4> QED BY <4>1 DEF IInv, TablesOK, Books
      <3> QED BY <1>8, <3>1, BookFacts
    <2>2. PICK r \in Sides : r = Opp(s)
      BY <1>1, <1>2
    <2>3. pay \in Message /\ pay.kind = "Rsmc" /\ pay.hop = i /\ pay.to = r
      BY <1>9, <2>1, <2>2, MessageFacts DEF IInv
    <2> QED BY <2>2, <2>3 DEF Locking
  <1>19. told => tell \in Message /\ tell.kind = "RResponse" /\ tell.kind \notin Locking
    BY <1>10, <1>11, <1>16, MessageFacts DEF IInv, Locking
  <1>20. /\ NetOK(boxes)
         /\ \A x \in Message : In(x, boxes) => In(x, net) \/ (pays /\ x = pay)
    <2>1. NetOK(Rest(w)) /\ \A x \in Message : In(x, Rest(w)) => In(x, net)
      BY <1>13, RestOK DEF IInv, Takes
    <2> QED BY <1>12, <1>18, <2>1, SentOK
  <1>21. /\ NetOK(net')
         /\ \A x \in Message : In(x, net') => In(x, boxes) \/ (told /\ x = tell)
    <2>1. CASE told
      BY <1>13, <1>19, <1>20, <2>1, SentOK
    <2>2. CASE ~ told
      BY <1>13, <1>20, <2>2 DEF SentIf
    <2> QED BY <2>1, <2>2
  <1>22. pays => LockingOK(pay)' /\ PayingOK(pay)'
    <2>1. pays => Got(i, s)'
      BY <1>5, <1>17
    <2> QED BY <1>1, <1>2, <1>18, <2>1 DEF LockingOK, PayingOK, Locking
  <1>23. told => LockingOK(tell)' /\ PayingOK(tell)'
    BY <1>19 DEF LockingOK, PayingOK, Locking
  <1>24. MsgsOK'
    <2>1. ASSUME NEW x \in Message, In(x, net')
          PROVE  (In(x, net) /\ Spares(x)) \/ (LockingOK(x)' /\ PayingOK(x)')
      <3>1. x.hop \in Hops /\ Spares(x)
        BY <1>13, <1>17 DEF Spares, NoNewRow, Message
      <3> QED BY <1>20, <1>21, <1>22, <1>23, <2>1, <3>1
    <2> QED BY <1>17, <2>1, NewMessages DEF IInv
  <1>25. /\ rsmc' \in [Hops -> [Sides -> [Sides -> PaymentStates]]]
         /\ \A j \in Hops, r, f \in Sides :
                rsmc'[j][r][f] = "confirmed" => rsmc[j][r][f] = "confirmed" \/ Got(j, r)'
    <2>1. CASE pays /\ rsmc[i][s][s] = "none"
      <3>1. rsmc' = [rsmc EXCEPT ![i][s][s] = "init"] /\ "init" \in PaymentStates
        BY <1>13, <2>1 DEF PaymentStates
      <3> QED BY <3>1, OnePaymentStep DEF IInv
    <2>2. CASE ~ (pays /\ rsmc[i][s][s] = "none")
      <3>1. UNCHANGED rsmc
        BY <1>13, <2>2
      <3> QED BY <3>1, SamePayment DEF IInv
    <2> QED BY <2>1, <2>2
  <1>26. PICK fails \in BOOLEAN : fails = (unsent # "no")
    OBVIOUS
  <1>27. Fault("unsent", fails)
    BY <1>13, <1>26
  <1>28. book' \in [Hops -> Books] /\ BooksOK'
    BY <1>13, SameBooks
  <1> QED BY <1>13, <1>17, <1>21, <1>24, <1>25, <1>27, <1>28, HandlerStep

LEMMA NotifiedStep ==
    ASSUME IInv, UNCHANGED env, NEW i \in Hops, Notified(i)
    PROVE  IInv'
  <1>1. PICK s : s = Opp(claimed[i])
    OBVIOUS
  <1>2. PICK row : row = htlc[i][s]
    OBVIOUS
  <1>3. PICK punishes \in BOOLEAN : punishes = (\E f \in Sides : rsmc[i][s][f] = "confirmed")
    OBVIOUS
  <1>4. PICK learns \in BOOLEAN : learns = (claimed[i] = "payee" /\ ~punishes)
    OBVIOUS
  <1>5. PICK tells \in BOOLEAN : tells = (learns /\ row.next # 0)
    OBVIOUS
  <1>6. PICK new : new = Msg("RResponse", row.next, env.foundedBy[row.next])
    OBVIOUS
  <1>7. /\ notice[i] /\ notice' = [notice EXCEPT ![i] = FALSE]
        /\ htlc' = IF learns THEN [htlc EXCEPT ![i][s].rcode = TRUE] ELSE htlc
        /\ net' = SentIf(tells, net, new)
        /\ chan' = IF learns \/ punishes THEN [chan EXCEPT ![i][s] = "SETTLED"] ELSE chan
        /\ UNCHANGED <<book, rsmc, now, claimed, faults>>
    BY <1>1, <1>2, <1>3, <1>4, <1>5, <1>6 DEF Notified
  <1>8. SecretOK(i) /\ PayeeRowOK(i) /\ claimed[i] \in Sides /\ Row(i, claimed[i])
    BY <1>7 DEF IInv, RowsOK, SecretsOK, SecretOK, TablesOK
  <1>9. s \in Sides /\ (claimed[i] = "payee" => s = "payer" /\ Row(i, "payer"))
    BY <1>1, <1>8, SideFacts DEF Opp, PayeeRowOK
  <1>10. /\ htlc' \in HtlcTables /\ Grows /\ NoNewRow
         /\ learns => s = "payer" /\ Got(i, "payer")' /\ row \in HtlcTrade
    <2>1. CASE learns
      <3>1. s = "payer" /\ Row(i, s)
        BY <1>4, <1>9, <2>1
      <3>2. row \in HtlcTrade
        BY <1>2, <1>9, <3>1 DEF Row, IInv, TablesOK, HtlcTables
      <3>3. PICK t : t = [row EXCEPT !.rcode = TRUE]
        OBVIOUS
      <3>4. /\ t \in HtlcTrade /\ t.rcode /\ t.signed = row.signed
            /\ t.delay = row.delay /\ t.next = row.next
        BY <3>2, <3>3, RowFacts
      <3>5. htlc' = [htlc EXCEPT ![i][s] = t]
        BY <1>2, <1>7, <2>1, <3>3
      <3>6. htlc' \in HtlcTables /\ Grows /\ NoNewRow /\ htlc'[i][s] = t
        BY <1>2, <1>9, <3>1, <3>4, <3>5, RowUpdated DEF IInv
      <3> QED BY <3>1, <3>2, <3>4, <3>6, TradeIsRow DEF Got, Row
    <2>2. CASE ~ learns
      BY <1>7, <2>2, SameRows DEF IInv, TablesOK
    <2> QED BY <2>1, <2>2
  <1>11. tells => new \in Message /\ new.kind = "RResponse" /\ new.kind \notin Locking
    <2> SUFFICES ASSUME tells
                 PROVE  new \in Message /\ new.kind = "RResponse" /\ new.kind \notin Locking
      OBVIOUS
    <2>1. row.next \in 0 .. N - 1 /\ row.next # 0
      BY <1>5, <1>10 DEF HtlcTrade
    <2>2. row.next \in Hops
      BY <2>1, RouteAssumption
    <2>3. env.foundedBy[row.next] \in Sides
      BY <2>2, RouteAssumption, SMTT(30) DEF IInv, TablesOK, Environment
    <2> QED BY <1>6, <2>2, <2>3, MessageFacts DEF IInv, Locking
  <1>12. /\ NetOK(net')
         /\ \A x \in Message : In(x, net') => In(x, net) \/ (tells /\ x = new)
    <2>1. CASE tells
      <3>1. NetOK(net) /\ new \in Message /\ new.kind \notin Locking
            /\ net' = SentIf(tells, net, new)
        BY <1>7, <1>11, <2>1 DEF IInv
      <3>2. /\ NetOK(SentIf(tells, net, new))
            /\ \A x \in Message : In(x, SentIf(tells, net, new))
                                    => In(x, net) \/ (tells /\ x = new)
        BY <3>1, SentOK
      <3> QED BY <3>1, <3>2
    <2>2. CASE ~ tells
      BY <1>7, <2>2 DEF SentIf, IInv
    <2> QED BY <2>1, <2>2
  <1>13. MsgsOK'
    <2>1. ASSUME NEW x \in Message, In(x, net')
          PROVE  (In(x, net) /\ Spares(x)) \/ (LockingOK(x)' /\ PayingOK(x)')
      <3>1. CASE tells /\ x = new
        BY <1>11, <3>1 DEF LockingOK, PayingOK, Locking
      <3>2. CASE In(x, net)
        <4>1. x.hop \in Hops
          BY DEF Message
        <4>2. Spares(x)
          BY <1>7, <1>10, <4>1 DEF Spares, NoNewRow
        <4> QED BY <3>2, <4>2
      <3> QED BY <1>12, <2>1, <3>1, <3>2
    <2> QED BY <1>10, <2>1, NewMessages DEF IInv
  <1>14. TablesOK'
    <2>1. chan' \in [Hops -> [Sides -> {"OPENED", "SETTLED"}]]
      BY <1>7, <1>9, OneChannel DEF IInv, TablesOK
    <2>2. notice' \in [Hops -> BOOLEAN]
      BY <1>7 DEF IInv, TablesOK
    <2> QED BY <1>7, <1>10, <2>1, <2>2 DEF IInv, TablesOK
  <1>15. RowsOK'
    <2>1. now' \in Nat /\ now' >= now
      BY <1>7 DEF IInv, TablesOK
    <2> QED BY <1>10, <2>1, OldRows DEF IInv
  <1>16. SecretsOK'
    <2> SUFFICES ASSUME NEW j \in Hops PROVE SecretOK(j)'
      BY DEF SecretsOK
    <2>1. SecretOK(j)
      BY DEF IInv, SecretsOK
    <2>2. \A r \in Sides : (Row(j, r) => Row(j, r)') /\ (Got(j, r) => Got(j, r)')
      BY <1>10 DEF Grows, Got
    <2>3. claimed[j] # "nobody" => claimed[j] \in Sides
      BY DEF IInv, TablesOK
    <2>4. CASE j # i
      <3>1. notice'[j] = notice[j]
        BY <1>7, <2>4 DEF IInv, TablesOK
      <3> QED BY <1>7, <2>1, <2>2, <2>3, <3>1 DEF SecretOK
    <2>5. CASE j = i
      <3>1. claimed[i] = "payee" => Got(i, "payer")'
        <4>1. CASE learns
          BY <1>10, <4>1
        <4>2. CASE punishes
          BY <1>3, <1>8, <1>9, <2>2, <2>5, <4>2 DEF SecretOK
        <4> QED BY <1>4, <4>1, <4>2
      <3>2. notice'[i] = FALSE
        BY <1>7 DEF IInv, TablesOK
      <3> QED BY <1>7, <2>1, <2>2, <2>3, <2>5, <3>1, <3>2 DEF SecretOK
    <2> QED BY <2>4, <2>5
  <1>17. BooksOK'
    BY <1>7, OldBooks DEF IInv
  <1> QED BY <1>12, <1>13, <1>14, <1>15, <1>16, <1>17 DEF IInv

LEMMA HandleHtlcSign1Step ==
    ASSUME IInv, UNCHANGED env, NEW w \in 1 .. N, NEW unsent \in BOOLEAN,
           HandleHtlcSign1(w, unsent)
    PROVE  IInv'
  <1>1. PICK m \in Message :
            /\ m = Head(net[w]) /\ m.kind = "HtlcSign1" /\ m.hop \in Hops
            /\ LockingOK(m) /\ WalletAt(m.hop, m.to) = w
    <2>1. Takes(w, "HtlcSign1")
      BY DEF HandleHtlcSign1
    <2> QED BY <2>1, Taken
  <1>2. PICK i \in Hops : i = m.hop
    BY <1>1
  <1>3. PICK ok \in BOOLEAN : ok = (Opened(i, "payee") /\ htlc[i]["payee"] # NoTrade)
    OBVIOUS
  <1>4. PICK goesOn \in BOOLEAN : goesOn = (ok /\ ~unsent /\ (w = N \/ CanCreate(w)))
    OBVIOUS
  <1>5. PICK signed : signed = [htlc EXCEPT ![i]["payee"] = Signed(@)]
    OBVIOUS
  <1>6. PICK new : new = IF w = N THEN Msg("RResponse", i, "payer") ELSE HtlcRequest(w)
    OBVIOUS
  <1>7. PICK made : made = Created(w, i)
    OBVIOUS
  <1>8. /\ UNCHANGED <<chan, rsmc, now, claimed, notice>>
        /\ book' = IF ok THEN [book EXCEPT ![i]["payee"] = Locked(@, Amount[i])] ELSE book
        /\ net' = SentIf(goesOn, Rest(w), new)
        /\ htlc' = IF ~ok THEN htlc
                   ELSE IF ~goesOn THEN signed
                   ELSE IF w = N THEN [signed EXCEPT ![i]["payee"].rcode = TRUE]
                   ELSE [signed EXCEPT ![w]["payer"] = made, ![i]["payee"].next = w]
        /\ Fault("unsent", unsent) /\ Takes(w, "HtlcSign1")
    <2>1. /\ UNCHANGED <<chan, rsmc, now, claimed, notice>>
          /\ book' = IF ok THEN [book EXCEPT ![i]["payee"] = Locked(@, Amount[i])] ELSE book
          /\ Fault("unsent", unsent) /\ Takes(w, "HtlcSign1")
      BY <1>1, <1>2, <1>3 DEF HandleHtlcSign1, chain
    <2>2. net' = SentIf(goesOn, Rest(w), new)
      BY <1>1, <1>2, <1>3, <1>4, <1>6 DEF HandleHtlcSign1
    <2>3. htlc' = IF ~ok THEN htlc
                  ELSE IF ~goesOn THEN signed
                  ELSE IF w = N THEN [signed EXCEPT ![i]["payee"].rcode = TRUE]
                  ELSE [signed EXCEPT ![w]["payer"] = made, ![i]["payee"].next = w]
      <3>1. CASE ~ ok
        BY <1>1, <1>2, <1>3, <3>1 DEF HandleHtlcSign1
      <3>2. CASE ok /\ ~ goesOn
        BY <1>1, <1>2, <1>3, <1>4, <1>5, <3>2 DEF HandleHtlcSign1
      <3>3. CASE ok /\ goesOn /\ w = N
        BY <1>1, <1>2, <1>3, <1>4, <1>5, <3>3, ZenonT(30) DEF HandleHtlcSign1
      <3>4. CASE ok /\ goesOn /\ w # N
        <4>1. htlc' = [[htlc EXCEPT ![Head(net[w]).hop]["payee"] = Signed(@)]
                         EXCEPT ![w]["payer"] = Created(w, Head(net[w]).hop),
                                ![Head(net[w]).hop]["payee"].next = w]
          BY <1>1, <1>2, <1>3, <1>4, <3>4 DEF HandleHtlcSign1
        <4>2. i = Head(net[w]).hop
          BY <1>1, <1>2
        <4>3. htlc' = [signed EXCEPT ![w]["payer"] = made, ![i]["payee"].next = w]
          BY <1>5, <1>7, <4>1, <4>2, Zenon
        <4> QED BY <3>4, <4>3
      <3> QED BY <3>1, <3>2, <3>3, <3>4
    <2> QED BY <2>1, <2>2, <2>3
  <1>9. /\ w = i + 1 /\ Row(i, "payer") /\ Row(i, "payee")
        /\ book[i]["payee"].free["payer"] >= Amount[i]
        /\ i + 1 \in Hops => ~ Row(i + 1, "payer")
    BY <1>1, <1>2 DEF LockingOK, Locking, WalletAt
  <1>10. PICK t : t = Signed(htlc[i]["payee"])
    OBVIOUS
  <1>11. /\ htlc[i]["payee"] \in HtlcTrade /\ t \in HtlcTrade /\ t.signed
         /\ t.rcode = htlc[i]["payee"].rcode
         /\ t.delay = htlc[i]["payee"].delay /\ t.next = htlc[i]["payee"].next
    <2>1. htlc[i]["payee"] \in HtlcTrade
      BY <1>9 DEF Row, IInv, TablesOK, HtlcTables
    <2> QED BY <1>10, <2>1, RowFacts
  <1>12. signed = Write(htlc, i, "payee", t)
    BY <1>5, <1>10 DEF Write
  <1>13. /\ signed \in HtlcTables /\ signed[i]["payee"] = t
         /\ \A j \in Hops, r \in Sides : j # i \/ r # "payee" => signed[j][r] = htlc[j][r]
    <2>1. htlc \in HtlcTables
      BY DEF IInv, TablesOK
    <2>2. PICK s \in Sides : s = "payee"
      OBVIOUS
    <2>3. t \in HtlcTrade /\ signed = Write(htlc, i, s, t)
      BY <1>11, <1>12, <2>2
    <2>4. /\ signed \in HtlcTables /\ signed[i][s] = t
          /\ \A j \in Hops, r \in Sides : j # i \/ r # s => signed[j][r] = htlc[j][r]
      BY <2>1, <2>3, WriteFacts
    <2> QED BY <2>2, <2>4
  <1>14. /\ book' \in [Hops -> Books] /\ BooksOK'
         /\ \A j \in Hops, r \in Sides : j # i \/ r # "payee" => book'[j][r] = book[j][r]
    <2>1. CASE ok
      <3>1. book' = [book EXCEPT ![i]["payee"] = Locked(@, Amount[i])]
        BY <1>8, <2>1
      <3> QED BY <1>9, <3>1, LockedKeepsBook DEF IInv
    <2>2. CASE ~ ok
      <3>1. UNCHANGED book
        BY <1>8, <2>2
      <3> QED BY <3>1, SameBooks
    <2> QED BY <2>1, <2>2
  <1>15. faults' \in 0 .. env.maxFaults
    BY <1>8, FaultOK DEF IInv
  <1>16. now' \in Nat /\ now' >= now
    BY <1>8 DEF IInv, TablesOK
  <1>17. i + 1 \in Hops =>
             /\ ~ Row(i + 1, "payee") /\ (i + 2 \in Hops => ~ Row(i + 2, "payer"))
             /\ \A x \in Message : In(x, net) /\ x.kind \in Locking => x.hop # i + 1
    <2> SUFFICES ASSUME i + 1 \in Hops
                 PROVE  /\ ~ Row(i + 1, "payee") /\ (i + 2 \in Hops => ~ Row(i + 2, "payer"))
                        /\ \A x \in Message : In(x, net) /\ x.kind \in Locking => x.hop # i + 1
      OBVIOUS
    <2>1. ~ Row(i + 1, "payer")
      BY <1>9
    <2>2. ~ Row(i + 1, "payee")
      BY <2>1 DEF IInv, RowsOK, PayeeRowOK
    <2>3. i + 2 \in Hops => ~ Row(i + 2, "payer")
      <3>1. i + 2 - 1 = i + 1 /\ i + 2 # 1
        OBVIOUS
      <3> QED BY <2>2, <3>1 DEF IInv, RowsOK, PayerRowOK
    <2>4. ASSUME NEW x \in Message, In(x, net), x.kind \in Locking PROVE x.hop # i + 1
      BY <2>1, <2>4 DEF IInv, MsgsOK, LockingOK, Locking
    <2> QED BY <2>2, <2>3, <2>4
  <1>18. CASE ~ goesOn \/ w = N
    <2>1. htlc' \in HtlcTables /\ Grows /\ NoNewRow
      <3>1. CASE ~ ok
        BY <1>8, <3>1, SameRows DEF IInv, TablesOK
      <3>2. CASE ok
        <4>1. PICK u \in HtlcTrade :
                  /\ u.rcode \/ u.rcode = t.rcode
                  /\ u.signed /\ u.delay = t.delay /\ u.next = t.next
                  /\ htlc' = [htlc EXCEPT ![i]["payee"] = u]
          <5>1. CASE ~ goesOn
            BY <1>8, <1>10, <1>11, <1>5, <3>2, <5>1
          <5>2. CASE goesOn
            <6>1. PICK u : u = [t EXCEPT !.rcode = TRUE]
              OBVIOUS
            <6>2. /\ u \in HtlcTrade /\ u.rcode /\ u.signed = t.signed
                  /\ u.delay = t.delay /\ u.next = t.next
              BY <1>11, <6>1, RowFacts
            <6>3. htlc' = [signed EXCEPT ![i]["payee"] = u]
              BY <1>8, <1>13, <1>18, <3>2, <5>2, <6>1
            <6>4. htlc' = [htlc EXCEPT ![i]["payee"] = u]
              BY <1>5, <6>3 DEF IInv, TablesOK, HtlcTables
            <6> QED BY <1>11, <6>2, <6>4
          <5> QED BY <5>1, <5>2
        <4> QED BY <1>9, <1>11, <4>1, RowUpdated DEF IInv
      <3> QED BY <3>1, <3>2
    <2>2. RowsOK'
      BY <1>16, <2>1, OldRows DEF IInv
    <2>3. /\ NetOK(net')
          /\ \A x \in Message : In(x, net') =>
                 (In(x, net) /\ (x.kind \in Locking => x.hop # i))
                 \/ (LockingOK(x)' /\ PayingOK(x)')
      <3>1. PICK told : told = Msg("RResponse", i, "payer")
        OBVIOUS
      <3>2. told \in Message /\ told.kind = "RResponse" /\ told.hop = i
        BY <3>1, MessageFacts DEF IInv, Msg
      <3>3. net' = SentIf(goesOn, Rest(w), told)
        BY <1>6, <1>8, <1>18, <3>1 DEF SentIf
      <3>4. "HtlcSign1" \in Locking /\ told.hop = Head(net[w]).hop /\ Head(net[w]).hop = i
        BY <1>1, <1>2, <3>2 DEF Locking
      <3>5. /\ NetOK(net')
            /\ \A x \in Message : In(x, net') =>
                   (In(x, net) /\ (x.kind \in Locking => x.hop # i)) \/ x = told
        BY <1>8, <3>2, <3>3, <3>4, AnsweredLock
      <3>6. LockingOK(told)' /\ PayingOK(told)'
        BY <3>2 DEF LockingOK, PayingOK, Locking
      <3> QED BY <3>5, <3>6
    <2>4. MsgsOK'
      <3>1. ASSUME NEW x \in Message, In(x, net), x.kind \in Locking => x.hop # i
            PROVE  Spares(x)
        BY <1>14, <2>1, <3>1 DEF Spares, NoNewRow, Message
      <3> QED BY <2>1, <2>3, <3>1, NewMessages DEF IInv
    <2> QED BY <1>8, <1>14, <1>15, <2>1, <2>2, <2>3, <2>4, SamePayment, AddingStep DEF IInv
  <1>19. CASE goesOn /\ w # N
    <2>1. w \in Hops /\ i + 1 \in Hops /\ w # i /\ ok
      BY <1>4, <1>9, <1>19, RouteAssumption
    <2>2. /\ made \in HtlcTrade /\ made.next = i /\ made.delay = now + Day * (N - w)
          /\ now + Day * (N - w) \in Nat
      <3>1. Delay(w) \in Nat /\ Delay(w) = now + Day * (N - w)
        BY <2>1, MessageFacts DEF IInv, Delay
      <3>2. i \in 0 .. N - 1
        OBVIOUS
      <3> QED BY <1>7, <3>1, <3>2 DEF Created, HtlcTrade
    <2>3. PICK u : u = [t EXCEPT !.next = w]
      OBVIOUS
    <2>4. /\ u \in HtlcTrade /\ u.signed /\ u.rcode = t.rcode /\ u.delay = t.delay
          /\ u.next = w
      <3>1. w \in 0 .. N - 1
        BY <2>1
      <3> QED BY <1>11, <2>3, <3>1 DEF HtlcTrade
    <2>5. PICK added : added = Write(signed, w, "payer", made)
      OBVIOUS
    <2>6. /\ added \in HtlcTables /\ added[w]["payer"] = made
          /\ \A j \in Hops, r \in Sides : j # w \/ r # "payer" => added[j][r] = signed[j][r]
      <3>1. PICK s \in Sides : s = "payer"
        OBVIOUS
      <3>2. signed \in HtlcTables /\ w \in Hops /\ made \in HtlcTrade
            /\ added = Write(signed, w, s, made)
        BY <1>13, <2>1, <2>2, <2>5, <3>1
      <3>3. /\ added \in HtlcTables /\ added[w][s] = made
            /\ \A j \in Hops, r \in Sides : j # w \/ r # s => added[j][r] = signed[j][r]
        BY <3>2, WriteFacts, SMTT(30)
      <3> QED BY <3>1, <3>3
    <2>7. htlc' = Write(added, i, "payee", u)
      <3>1. added[i]["payee"] = t
        BY <1>13, <2>1, <2>6
      <3>2. htlc' = [added EXCEPT ![i]["payee"].next = w]
        BY <1>8, <1>19, <2>1, <2>5 DEF Write
      <3> QED BY <2>3, <3>1, <3>2 DEF Write
    <2>8. /\ htlc' \in HtlcTables /\ htlc'[i]["payee"] = u /\ htlc'[w]["payer"] = made
          /\ \A j \in Hops, r \in Sides :
                 (j # i \/ r # "payee") /\ (j # w \/ r # "payer") => htlc'[j][r] = htlc[j][r]
      <3>1. /\ htlc' \in HtlcTables /\ htlc'[i]["payee"] = u
            /\ \A j \in Hops, r \in Sides : j # i \/ r # "payee" => htlc'[j][r] = added[j][r]
        BY <2>4, <2>6, <2>7, WriteFacts
      <3> QED BY <1>13, <2>1, <2>6, <3>1
    <2>9. /\ Row(i, "payee")' /\ Row(w, "payer")'
          /\ \A j \in Hops, r \in Sides :
                 (j # i \/ r # "payee") /\ (j # w \/ r # "payer") => (Row(j, r)' <=> Row(j, r))
      BY <2>1, <2>2, <2>4, <2>8, TradeIsRow DEF Row
    <2>10. Grows
      <3> SUFFICES ASSUME NEW j \in Hops, NEW r \in Sides, Row(j, r)
                   PROVE  /\ Row(j, r)'
                          /\ htlc[j][r].rcode => htlc'[j][r].rcode
                          /\ htlc[j][r].signed => htlc'[j][r].signed
                          /\ htlc'[j][r].delay = htlc[j][r].delay
                          /\ \/ htlc'[j][r].next = htlc[j][r].next
                             \/ /\ r = "payee" /\ htlc'[j][r].next = j + 1
                                /\ j + 1 \in Hops /\ Row(j + 1, "payer")'
        BY DEF Grows
      <3>1. CASE j = i /\ r = "payee"
        BY <1>9, <1>11, <2>1, <2>4, <2>8, <2>9, <3>1
      <3>2. CASE j = w /\ r = "payer"
        BY <1>9, <2>1, <3>2
      <3>3. CASE (j # i \/ r # "payee") /\ (j # w \/ r # "payer")
        BY <2>8, <2>9, <3>3
      <3> QED BY <3>1, <3>2, <3>3
    <2>11. RowsOK'
      <3> SUFFICES ASSUME NEW j \in Hops PROVE PayerRowOK(j)' /\ PayeeRowOK(j)'
        BY DEF RowsOK
      <3>1. PayeeRowOK(j)'
        <4>1. Row(j, "payee")' => Row(j, "payee")
          BY <1>9, <2>9
        <4> QED BY <1>16, <2>10, <4>1, OldRow DEF IInv
      <3>2. CASE j # w
        <4>1. Row(j, "payer")' => Row(j, "payer")
          BY <2>9, <3>2
        <4> QED BY <1>16, <2>10, <3>1, <4>1, OldRow DEF IInv
      <3>3. CASE j = w
        <4>1. w - 1 = i
          BY <1>9
        <4>2. htlc'[w]["payer"].delay <= now' + Day * (N - w)
          BY <1>8, <2>2, <2>8
        <4>3. PayerRowOK(w)'
          BY <2>2, <2>4, <2>8, <2>9, <4>1, <4>2 DEF PayerRowOK
        <4> QED BY <3>1, <3>3, <4>3
      <3> QED BY <3>2, <3>3
    <2>12. /\ new \in Message /\ new.kind = "Htlc" /\ new.hop = w /\ new.to = "payee"
           /\ new.delay = now + Day * (N - w)
      BY <1>6, <1>19, <2>1, MessageFacts DEF IInv, Delay
    <2>13. LockingOK(new)' /\ PayingOK(new)'
      <3>1. now + Day * (N - w) >= Day * (N - w)
        <4>1. now \in Nat /\ Day * (N - w) \in Int
          BY RouteAssumption DEF IInv, TablesOK
        <4> QED BY <4>1
      <3>2. ~ Row(w, "payee")' /\ (w + 1 \in Hops => ~ Row(w + 1, "payer")')
        <4>1. w + 1 = i + 2 /\ w = i + 1
          BY <1>9
        <4> QED BY <1>17, <2>1, <2>9, <4>1
      <3> QED BY <2>9, <2>12, <3>1, <3>2 DEF LockingOK, PayingOK
    <2>14. /\ NetOK(net')
           /\ \A x \in Message : In(x, net') =>
                  (In(x, net) /\ (x.kind \in Locking => x.hop # i)) \/ x = new
      <3>1. "HtlcSign1" \in Locking /\ Head(net[w]).hop = i
        BY <1>1, <1>2 DEF Locking
      <3>2. \A x \in Message : In(x, net) /\ x.kind \in Locking => x.hop # new.hop
        BY <1>9, <1>17, <2>1, <2>12
      <3> QED BY <1>8, <2>12, <3>1, <3>2, AnsweredLock
    <2>15. MsgsOK'
      <3>1. ASSUME NEW x \in Message, In(x, net), x.kind \in Locking => x.hop # i
            PROVE  Spares(x)
        <4>1. x.hop \in Hops
          BY DEF Message
        <4>2. ASSUME x.kind \in Locking
              PROVE  /\ Row(x.hop, "payee")' => Row(x.hop, "payee")
                     /\ book'[x.hop]["payee"] = book[x.hop]["payee"]
                     /\ x.hop + 1 \in Hops =>
                            (Row(x.hop + 1, "payer")' => Row(x.hop + 1, "payer"))
          <5>1. x.hop # i /\ x.hop + 1 # w
            BY <1>9, <3>1, <4>1, <4>2
          <5> QED BY <1>14, <2>9, <4>1, <5>1
        <4> QED BY <4>2 DEF Spares
      <3> QED BY <2>10, <2>13, <2>14, <3>1, NewMessages DEF IInv
    <2> QED BY <1>8, <1>14, <1>15, <2>8, <2>10, <2>11, <2>14, <2>15, SamePayment, AddingStep
        DEF IInv
  <1> QED BY <1>18, <1>19

-----------------------------------------------------------------------------
(* The theorems.                                                           *)

LEMMA NextInv == IInv /\ [Next]_vars => IInv'
  <1> SUFFICES ASSUME IInv, [Next]_vars PROVE IInv'
    OBVIOUS
  <1>1. CASE UNCHANGED vars
    <2>1. UNCHANGED <<now, chan, book, htlc, rsmc, net, claimed, notice, faults, env>>
      BY <1>1 DEF vars, system, tables, chain
    <2>2. TablesOK' /\ now' >= now
      BY <2>1 DEF IInv, TablesOK
    <2>3. SecretsOK'
      BY <2>1, SameRows, OldSecrets DEF IInv
    <2> QED BY <2>1, <2>2, <2>3, QuietStep
  <1>2. CASE Next
    <2>1. UNCHANGED env
      BY <1>2 DEF Next
    <2>2. CASE Transfer \/ Tick
      BY <2>1, <2>2, TransferStep, TickStep
    <2>3. ASSUME NEW w \in 1 .. N, Handle(w) \/ Unsent(w) PROVE IInv'
      <3>1. \/ \E unsent \in BOOLEAN :
                  \/ HandleHtlc(w, unsent) \/ HandleHtlcSign0(w, unsent)
                  \/ HandleHtlcSign1(w, unsent) \/ HandleRsmc(w, unsent)
                  \/ HandleSign0(w, unsent)
            \/ \E unsent \in {"no", "ack", "pay", "notify"} : HandleRResponse(w, unsent)
            \/ HandleSign1(w)
        BY <2>3 DEF Handle, Unsent
      <3>2. ASSUME NEW unsent \in BOOLEAN,
                   \/ HandleHtlc(w, unsent) \/ HandleHtlcSign0(w, unsent)
                   \/ HandleHtlcSign1(w, unsent) \/ HandleRsmc(w, unsent)
                   \/ HandleSign0(w, unsent)
            PROVE  IInv'
        BY <2>1, <3>2, HandleHtlcStep, HandleHtlcSign0Step, HandleHtlcSign1Step,
           HandleRsmcStep, HandleSign0Step
      <3> QED BY <2>1, <3>1, <3>2, HandleRResponseStep, HandleSign1Step
    <2>4. ASSUME NEW w \in 1 .. N, Lose(w) PROVE IInv'
      BY <2>1, <2>4, LoseStep
    <2>5. ASSUME NEW i \in Hops, Notified(i) \/ Settled(i) PROVE IInv'
      BY <2>1, <2>5, NotifiedStep, SettledStep
    <2>6. ASSUME NEW i \in Hops, NEW s \in Sides, Unlock(i, s) \/ Closed(i, s) PROVE IInv'
      BY <2>1, <2>6, UnlockStep, ClosedStep
    <2> QED BY <1>2, <2>2, <2>3, <2>4, <2>5, <2>6 DEF Next
  <1> QED BY <1>1, <1>2

LEMMA Invariant == Spec => []IInv
  BY InitInv, NextInv, PTL DEF Spec

\* The tables and the messages keep their types: no handler reads a row that is
\* not there or sends a message to a wallet that is not on the hop.
THEOREM TypeCorrect == Spec => []TypeOK
  <1>1. IInv => TypeOK
    BY DEF IInv, TablesOK, NetOK, TypeOK, Books, HtlcTables, Lists
  <1> QED BY <1>1, Invariant, PTL

\* Every book keeps what the channel started with, none of it negative, for
\* every route and any number of messages lost or not sent, channels closed and
\* hops unlocked on the chain: update_balance_for_channel pays no lock that is
\* not there, and check_balance lets none be made of what is not free.
THEOREM BooksConserved == Spec => []Conserved
  <1>1. IInv => Conserved
    BY DEF IInv, BooksOK, BookOK, Conserved
  <1> QED BY <1>1, Invariant, PTL

\* trigger_htlc_to_next_jump runs only with both signatures of the incoming
\* lock in the table: a wallet never locks towards the next wallet before.
THEOREM Covered == Spec => []ForwardIsCovered
  <1>1. IInv => ForwardIsCovered
    BY DEF IInv, RowsOK, PayerRowOK, ForwardIsCovered, Row
  <1> QED BY <1>1, Invariant, PTL

\* On a route set up within a day every wallet's incoming lock expires after
\* its outgoing one (get_unlocked_block_height takes a day off at every hop).
THEOREM Outlives == Spec => []IncomingOutlives
  <1>1. IInv => IncomingOutlives
    <2> SUFFICES ASSUME IInv, NEW i \in Hops \ {1}, now < Day, Row(i, "payer")
                 PROVE  htlc[i - 1]["payee"].delay > htlc[i]["payer"].delay
      BY DEF IncomingOutlives, Row
    <2>1. PICK j \in Hops : j = i - 1
      BY RouteAssumption
    <2>2. PayerRowOK(i) /\ PayeeRowOK(j)
      BY DEF IInv, RowsOK
    <2>3. /\ htlc[i]["payer"].delay <= now + Day * (N - i)
          /\ Row(j, "payee")
      BY <2>1, <2>2 DEF PayerRowOK
    <2>4. htlc[j]["payee"].delay >= Day * (N - j)
      BY <2>2, <2>3 DEF PayeeRowOK
    <2>5. /\ htlc[i]["payer"] \in HtlcTrade /\ htlc[j]["payee"] \in HtlcTrade
          /\ now \in Nat
      BY <2>3 DEF IInv, TablesOK, HtlcTables, Row
    <2>6. htlc[i]["payer"].delay \in Nat /\ htlc[j]["payee"].delay \in Nat
      BY <2>5 DEF HtlcTrade
    <2>7. Day * (N - j) = Day * (N - i) + Day /\ Day * (N - i) \in Int /\ Day \in Nat
      <3>1. PICK k \in Nat : k = N - i
        BY RouteAssumption
      <3>2. N - j = k + 1 /\ Day \in Nat
        BY <2>1, <3>1, RouteAssumption
      <3>3. Day * (k + 1) = Day * k + Day
        BY <3>2
      <3> QED BY <3>1, <3>2, <3>3
    <2> QED BY <2>1, <2>3, <2>4, <2>5, <2>6, <2>7
  <1> QED BY <1>1, Invariant, PTL

\* A wallet that paid on its outgoing hop, by RsmcSign or by an unlock on the
\* chain its monitor has told it of, has the secret and both signatures of the
\* incoming lock, whatever was lost, not sent or closed.
THEOREM PaidClaims == Spec => []PaidCanClaim
  <1>1. IInv => PaidCanClaim
    <2> SUFFICES ASSUME IInv, NEW i \in Hops \ {1},
                        \/ rsmc[i]["payer"]["payer"] = "confirmed"
                        \/ claimed[i] = "payee" /\ ~ notice[i]
                 PROVE  Knows(i) /\ htlc[i - 1]["payee"].signed
      BY DEF PaidCanClaim
    <2>1. Got(i, "payer")
      BY DEF IInv, SecretsOK, SecretOK
    <2>2. htlc[i - 1]["payee"].signed
      BY <2>1 DEF IInv, RowsOK, PayerRowOK, Got
    <2> QED BY <2>1, <2>2 DEF Knows, Got, Row
  <1> QED BY <1>1, Invariant, PTL
=============================================================================
