-------------------------- MODULE QuickCloseProofs --------------------------
(* Proofs about QuickClose, for any deposits and environments: however often *)
(* the users close and pay, and whatever is lost, not sent, times out, fails *)
(* on the chain or stops.                                                   *)
EXTENDS QuickClose, TLAPS

Payments == {"Rsmc", "Sign0", "Sign1"}
Messages == [kind : {"Settle", "SettleSign"} \cup Payments, bal : Balances]
Lists == [Wallets -> Seq(Messages)]
Rows == [role : {"FOUNDER", "PARTNER"}, bal : Balances, own : Commitment, peer : SUBSET Commitment]
Events == [stage : Working \cup {"none", "complete", "error"}, retry : BOOLEAN, founder : BOOLEAN,
           args : {NoArgs} \cup Args, tx : {"none", "pending", "success", "failed"}]
Txs == [price : {1, 2}, args : Args, own : BOOLEAN]

-----------------------------------------------------------------------------
(* The inductive invariant.                                                *)

In(m, w, boxes) == \E k \in DOMAIN boxes[w] : boxes[w][k] = m

\* One message of a payment is under way at a time.
OnePayment(boxes) ==
    \A v, w \in Wallets : \A j \in DOMAIN boxes[v], k \in DOMAIN boxes[w] :
        boxes[v][j].kind \in Payments /\ boxes[w][k].kind \in Payments => v = w /\ j = k

NetOK(boxes) == boxes \in Lists /\ OnePayment(boxes)

\* Balances both books have shown and, if the users are calm, still show.
Agreed(bal) == bal \in shown /\ (env.calm => \A w \in Wallets : book[w] = bal)

\* What the books say of a message of a payment: the payee's answer carries what
\* its book leads to, and the payer's was given when both books were the same.
PaymentOK(m, w) ==
    /\ m.kind = "Sign0" => m.bal = AfterPayment(book[Other(w)], w)
    /\ m.kind = "Sign1" => book[w] \in shown

\* A closing is asked for with balances both books have shown, or with the
\* sender's, which the other's book does not show yet.
ClosingOK(m, w) ==
    /\ m.kind = "Settle" =>
           /\ row[Other(w)] # NoRow
           /\ m.bal \in shown \/ (m.bal = book[Other(w)] /\ m.bal # book[w])
           /\ env.calm => m.bal = book[Other(w)]
    /\ m.kind = "SettleSign" => row[w] # NoRow /\ Agreed(m.bal)

MsgsOK == \A w \in Wallets, m \in Messages : In(m, w, net) => PaymentOK(m, w) /\ ClosingOK(m, w)

BooksOK == book[Founder] = book[Partner] => book[Founder] \in shown

\* What the founder of the closing, the chain's pool and the contract have.
EventOK(w) ==
    event[w].founder =>
        event[w].args \in Args /\ (event[w].stage \in Working => Agreed(event[w].args.bal))

PoolOK(w) == pool[w] # NoTx => Agreed(pool[w].args.bal)

PaidOK == paid # Open => Agreed(paid)

\* Calm users do not pay while somebody closes.
Quiet ==
    /\ paid = Open
    /\ \A w \in Wallets :
          /\ event[w].stage \notin Working /\ pool[w] = NoTx
          /\ \A m \in Messages : In(m, w, net) => m.kind \in Payments

QuietOK ==
    env.calm /\ (\E w \in Wallets, m \in Messages : In(m, w, net) /\ m.kind \in Payments) => Quiet

IInv ==
    /\ TypeOK /\ NetOK(net) /\ MsgsOK /\ BooksOK
    /\ \A w \in Wallets : EventOK(w) /\ PoolOK(w)
    /\ PaidOK /\ QuietOK

-----------------------------------------------------------------------------
(* Lemmas about the lists of messages.                                     *)

Rest(w) == [net EXCEPT ![w] = Tail(@)]

SentTo(boxes, w, m) == [boxes EXCEPT ![w] = Append(@, m)]

LEMMA OtherFacts ==
    /\ \A w \in Wallets : Other(w) \in Wallets /\ Other(w) # w /\ Other(Other(w)) = w
    /\ \A v, w \in Wallets : v = w \/ v = Other(w)
    /\ Founder \in Wallets /\ Partner \in Wallets
  BY CloseAssumption DEF Wallets, Other

LEMMA HeadOK ==
    ASSUME net \in Lists, NEW w \in Wallets, net[w] # <<>>
    PROVE  Head(net[w]) \in Messages /\ In(Head(net[w]), w, net)
  <1>1. net[w] \in Seq(Messages)
    BY DEF Lists
  <1>2. 1 \in DOMAIN net[w] /\ Head(net[w]) = net[w][1] /\ Head(net[w]) \in Messages
    BY <1>1
  <1> QED BY <1>2 DEF In

\* Taking a message leaves the others, and no other is of a payment if it is.
LEMMA RestOK ==
    ASSUME NetOK(net), NEW w \in Wallets, net[w] # <<>>
    PROVE  /\ NetOK(Rest(w))
           /\ \A m \in Messages, v \in Wallets : In(m, v, Rest(w)) => In(m, v, net)
           /\ \A m \in Messages, v \in Wallets :
                  In(m, v, Rest(w)) /\ m.kind \in Payments => Head(net[w]).kind \notin Payments
  <1> DEFINE rest == Rest(w)
             Place(v, k) == IF v = w THEN k + 1 ELSE k
  <1>1. net \in Lists /\ net[w] \in Seq(Messages) /\ Head(net[w]) = net[w][1]
        /\ 1 \in DOMAIN net[w]
    BY DEF NetOK, Lists
  <1>2. rest \in Lists
    BY <1>1 DEF Rest, Lists
  <1>3. ASSUME NEW v \in Wallets, NEW k \in DOMAIN rest[v]
        PROVE  /\ Place(v, k) \in DOMAIN net[v] /\ rest[v][k] = net[v][Place(v, k)]
               /\ v = w => Place(v, k) # 1
               /\ k \in Nat
    <2>1. net[v] \in Seq(Messages) /\ rest[v] = IF v = w THEN Tail(net[w]) ELSE net[v]
      BY <1>1 DEF Rest, Lists
    <2>2. CASE v = w
      <3>1. k \in 1 .. Len(net[w]) - 1 /\ rest[v][k] = net[w][k + 1]
        BY <1>1, <2>1, <2>2
      <3>2. k + 1 \in DOMAIN net[w]
        BY <1>1, <3>1
      <3> QED BY <2>2, <3>1, <3>2
    <2>3. CASE v # w
      BY <2>1, <2>3
    <2> QED BY <2>2, <2>3
  <1>4. OnePayment(rest)
    <2> SUFFICES ASSUME NEW u \in Wallets, NEW v \in Wallets,
                        NEW j \in DOMAIN rest[u], NEW k \in DOMAIN rest[v],
                        rest[u][j].kind \in Payments, rest[v][k].kind \in Payments
                 PROVE  u = v /\ j = k
      BY DEF OnePayment
    <2>1. u = v /\ Place(u, j) = Place(v, k)
      BY <1>3 DEF NetOK, OnePayment
    <2> QED BY <1>3, <2>1
  <1>5. \A m \in Messages, v \in Wallets : In(m, v, rest) => In(m, v, net)
    BY <1>3 DEF In
  <1>6. ASSUME NEW m \in Messages, NEW v \in Wallets, In(m, v, rest), m.kind \in Payments,
               Head(net[w]).kind \in Payments
        PROVE  FALSE
    <2>1. PICK k \in DOMAIN rest[v] : rest[v][k] = m
      BY <1>6 DEF In
    <2>2. /\ Place(v, k) \in DOMAIN net[v] /\ net[v][Place(v, k)].kind \in Payments
          /\ 1 \in DOMAIN net[w] /\ net[w][1].kind \in Payments
      <3>1. net[v][Place(v, k)] = m /\ Place(v, k) \in DOMAIN net[v]
        BY <1>3, <2>1
      <3> QED BY <1>1, <1>6, <3>1
    <2>3. v = w /\ Place(v, k) = 1
      <3> HIDE DEF Place
      <3> QED BY <2>2 DEF NetOK, OnePayment
    <2> QED BY <1>3, <2>3
  <1> QED BY <1>2, <1>4, <1>5, <1>6 DEF NetOK

\* Sending a message, one of a payment only when there is no other.
LEMMA SentOK ==
    ASSUME NEW boxes, NetOK(boxes), NEW m \in Messages, NEW d \in Wallets,
           m.kind \in Payments =>
               \A x \in Messages, v \in Wallets : In(x, v, boxes) => x.kind \notin Payments
    PROVE  /\ NetOK(SentTo(boxes, d, m))
           /\ \A x \in Messages, v \in Wallets :
                  In(x, v, SentTo(boxes, d, m)) => In(x, v, boxes) \/ (v = d /\ x = m)
  <1> DEFINE sent == SentTo(boxes, d, m)
             last == Len(boxes[d]) + 1
  <1>2. boxes \in Lists /\ boxes[d] \in Seq(Messages) /\ last \in Nat
    BY DEF NetOK, Lists
  <1>3. /\ sent[d] = Append(boxes[d], m)
        /\ \A v \in Wallets : v # d => sent[v] = boxes[v]
        /\ sent \in Lists
    BY <1>2 DEF SentTo, Lists
  <1>4. ASSUME NEW v \in Wallets, NEW k \in DOMAIN sent[v]
        PROVE  \/ k \in DOMAIN boxes[v] /\ sent[v][k] = boxes[v][k]
               \/ v = d /\ k = last /\ sent[v][k] = m
    <2>1. CASE v = d
      BY <1>2, <1>3, <2>1
    <2>2. CASE v # d
      BY <1>3, <2>2
    <2> QED BY <2>1, <2>2
  <1> HIDE DEF sent, last
  <1>5. ASSUME NEW v \in Wallets, NEW k \in DOMAIN boxes[v], m.kind \in Payments
        PROVE  boxes[v][k].kind \notin Payments
    <2>1. boxes[v][k] \in Messages
      BY <1>2 DEF Lists
    <2> QED BY <1>5, <2>1 DEF In
  <1>6. OnePayment(sent)
    <2> SUFFICES ASSUME NEW u \in Wallets, NEW v \in Wallets,
                        NEW j \in DOMAIN sent[u], NEW k \in DOMAIN sent[v],
                        sent[u][j].kind \in Payments, sent[v][k].kind \in Payments
                 PROVE  u = v /\ j = k
      BY DEF OnePayment
    <2>1. \/ j \in DOMAIN boxes[u] /\ sent[u][j] = boxes[u][j]
          \/ u = d /\ j = last /\ sent[u][j] = m
      BY <1>4
    <2>2. \/ k \in DOMAIN boxes[v] /\ sent[v][k] = boxes[v][k]
          \/ v = d /\ k = last /\ sent[v][k] = m
      BY <1>4
    <2> QED BY <1>5, <2>1, <2>2 DEF NetOK, OnePayment
  <1>7. \A x \in Messages, v \in Wallets : In(x, v, sent) => In(x, v, boxes) \/ (v = d /\ x = m)
    BY <1>4 DEF In
  <1> QED BY <1>3, <1>6, <1>7 DEF NetOK, sent

LEMMA ReplyFacts ==
    ASSUME net \in Lists, NEW w \in Wallets, net[w] # <<>>
    PROVE  /\ Reply(w, <<>>) => net' = Rest(w)
           /\ \A m \in Messages : Reply(w, <<m>>) => net' = SentTo(Rest(w), Other(w), m)
  <1>1. /\ net[Other(w)] \in Seq(Messages) /\ net[w] \in Seq(Messages)
        /\ Rest(w) \in [Wallets -> Seq(Messages)] /\ Rest(w)[Other(w)] = net[Other(w)]
    BY OtherFacts DEF Lists, Rest
  <1>2. \A answers : Reply(w, answers) =>
            net' = [Rest(w) EXCEPT ![Other(w)] = net[Other(w)] \o answers]
    BY <1>1, OtherFacts DEF Reply, Rest
  <1>3. net[Other(w)] \o <<>> = net[Other(w)]
    BY <1>1
  <1>4. \A m \in Messages : net[Other(w)] \o <<m>> = Append(net[Other(w)], m)
    BY <1>1
  <1>5. ASSUME Reply(w, <<>>) PROVE net' = Rest(w)
    <2>1. net' = [Rest(w) EXCEPT ![Other(w)] = Rest(w)[Other(w)]]
      BY <1>1, <1>2, <1>3, <1>5
    <2> QED BY <1>1, <2>1
  <1>6. ASSUME NEW m \in Messages, Reply(w, <<m>>) PROVE net' = SentTo(Rest(w), Other(w), m)
    BY <1>1, <1>2, <1>4, <1>6 DEF SentTo
  <1> QED BY <1>5, <1>6

-----------------------------------------------------------------------------
(* Lemmas about the steps.                                                 *)

LEMMA Types ==
    /\ TypeOK => /\ row \in [Wallets -> {NoRow} \cup Rows] /\ net \in Lists
                 /\ event \in [Wallets -> Events] /\ pool \in [Wallets -> {NoTx} \cup Txs]
    /\ \A r \in Rows : r # NoRow
    /\ \A x \in Txs : x # NoTx
  <1>1. ASSUME TypeOK PROVE row \in [Wallets -> {NoRow} \cup Rows]
    BY <1>1 DEF TypeOK, Rows
  <1>2. ASSUME TypeOK PROVE net \in Lists
    <2>1. Messages = [kind : {"Settle", "SettleSign", "Rsmc", "Sign0", "Sign1"}, bal : Balances]
      BY DEF Messages, Payments
    <2> QED BY <1>2, <2>1 DEF TypeOK, Lists
  <1>3. ASSUME TypeOK PROVE event \in [Wallets -> Events]
    BY <1>3 DEF TypeOK, Events
  <1>4. ASSUME TypeOK PROVE pool \in [Wallets -> {NoTx} \cup Txs]
    BY <1>4 DEF TypeOK, Txs
  <1>5. ASSUME NEW r \in Rows PROVE r # NoRow
    <2>1. r.role # "none" /\ NoRow.role = "none"
      BY DEF Rows, NoRow
    <2> QED BY <2>1
  <1>6. ASSUME NEW x \in Txs PROVE x # NoTx
    <2>1. x.price # 0 /\ NoTx.price = 0
      BY DEF Txs, NoTx
    <2> QED BY <2>1
  <1> QED BY <1>1, <1>2, <1>3, <1>4, <1>5, <1>6

LEMMA LeftOK ==
    ASSUME TypeOK
    PROVE  /\ \A kind, happens : Fault(kind, happens) => left' \in [{"close", "pay", "fault"} -> Nat]
           /\ Use("pay") \/ Use("close") => left' \in [{"close", "pay", "fault"} -> Nat]
  <1>1. \A kind \in {"close", "pay", "fault"} :
            Use(kind) => left' \in [{"close", "pay", "fault"} -> Nat]
    BY DEF TypeOK, Use
  <1>2. left \in [{"close", "pay", "fault"} -> Nat]
    BY DEF TypeOK
  <1> QED BY <1>1, <1>2 DEF Fault

\* What the books say of a message stays when the books stay.
LEMMA MessageStays ==
    ASSUME UNCHANGED <<book, shown, env>>, \A v \in Wallets : row[v] # NoRow => row'[v] # NoRow,
           NEW m \in Messages, NEW w \in Wallets, PaymentOK(m, w), ClosingOK(m, w)
    PROVE  PaymentOK(m, w)' /\ ClosingOK(m, w)'
  BY OtherFacts DEF PaymentOK, ClosingOK, Agreed

LEMMA SameBooks ==
    ASSUME IInv, TypeOK', NetOK(net'), UNCHANGED <<book, shown, env>>,
           \A v \in Wallets : row[v] # NoRow => row'[v] # NoRow,
           \A v \in Wallets, m \in Messages :
               In(m, v, net') => In(m, v, net) \/ (PaymentOK(m, v)' /\ ClosingOK(m, v)'),
           \A v \in Wallets : EventOK(v)' /\ PoolOK(v)', PaidOK', QuietOK'
    PROVE  IInv'
  <1>1. MsgsOK'
    BY MessageStays DEF IInv, MsgsOK
  <1>2. BooksOK'
    BY DEF IInv, BooksOK
  <1> QED BY <1>1, <1>2 DEF IInv

LEMMA SameEvents ==
    ASSUME IInv, UNCHANGED <<book, shown, env>>
    PROVE  /\ \A v \in Wallets : UNCHANGED event => EventOK(v)'
           /\ \A v \in Wallets : UNCHANGED pool => PoolOK(v)'
           /\ UNCHANGED paid => PaidOK'
  <1>1. ASSUME NEW v \in Wallets, UNCHANGED event PROVE EventOK(v)'
    BY <1>1 DEF IInv, EventOK, Agreed
  <1>2. ASSUME NEW v \in Wallets, UNCHANGED pool PROVE PoolOK(v)'
    BY <1>2 DEF IInv, PoolOK, Agreed
  <1>3. ASSUME UNCHANGED paid PROVE PaidOK'
    BY <1>3 DEF IInv, PaidOK, Agreed
  <1> QED BY <1>1, <1>2, <1>3

\* A step of a closing: somebody closes, so nobody pays if the users are calm.
LEMMA NotQuiet ==
    ASSUME IInv, ~ Quiet, UNCHANGED env,
           \A v \in Wallets, m \in Messages :
               In(m, v, net') => In(m, v, net) \/ m.kind \notin Payments
    PROVE  QuietOK'
  BY DEF IInv, QuietOK

\* A step of a payment keeps quiet.
LEMMA StaysQuiet ==
    ASSUME IInv, env.calm => Quiet, UNCHANGED <<event, pool, paid, env>>,
           \A v \in Wallets, m \in Messages :
               In(m, v, net') => In(m, v, net) \/ m.kind \in Payments
    PROVE  QuietOK'
  <1>1. Quiet => Quiet'
    BY DEF Quiet
  <1> QED BY <1>1 DEF QuietOK

\* A wallet takes a message.
LEMMA Took ==
    ASSUME IInv, NEW w \in Wallets, NEW kind, Takes(w, kind)
    PROVE  LET h == Head(net[w]) IN
           /\ net[w] # <<>> /\ h \in Messages /\ h.kind = kind /\ h.bal \in Balances
           /\ In(h, w, net) /\ PaymentOK(h, w) /\ ClosingOK(h, w)
           /\ h.kind \in Payments => (env.calm => Quiet)
           /\ h.kind \notin Payments => ~ Quiet
  <1>1. net[w] # <<>> /\ Head(net[w]).kind = kind
    BY DEF Takes
  <1>2. Head(net[w]) \in Messages /\ In(Head(net[w]), w, net)
    BY <1>1, HeadOK DEF IInv, NetOK
  <1>3. Head(net[w]).bal \in Balances
    BY <1>2 DEF Messages
  <1>4. PaymentOK(Head(net[w]), w) /\ ClosingOK(Head(net[w]), w)
    BY <1>2 DEF IInv, MsgsOK
  <1>5. Head(net[w]).kind \in Payments => (env.calm => Quiet)
    BY <1>2 DEF IInv, QuietOK
  <1>6. Head(net[w]).kind \notin Payments => ~ Quiet
    BY <1>2 DEF Quiet
  <1> QED BY <1>1, <1>2, <1>3, <1>4, <1>5, <1>6

\* It answers nothing, or with one message.
LEMMA Dropped ==
    ASSUME IInv, NEW w \in Wallets, net[w] # <<>>, net' = Rest(w) \/ Reply(w, <<>>)
    PROVE  /\ NetOK(net')
           /\ \A v \in Wallets, m \in Messages : In(m, v, net') => In(m, v, net)
           /\ \A v \in Wallets, m \in Messages :
                  In(m, v, net') /\ Head(net[w]).kind \in Payments => m.kind \notin Payments
  <1>1. net' = Rest(w)
    BY ReplyFacts DEF IInv, NetOK
  <1>2. NetOK(net)
    BY DEF IInv
  <1> QED BY <1>1, <1>2, RestOK

LEMMA Replied ==
    ASSUME IInv, NEW w \in Wallets, net[w] # <<>>, NEW a \in Messages, Reply(w, <<a>>),
           a.kind \in Payments => Head(net[w]).kind \in Payments
    PROVE  /\ NetOK(net')
           /\ \A v \in Wallets, m \in Messages :
                  In(m, v, net') => In(m, v, net) \/ (v = Other(w) /\ m = a)
           /\ \A v \in Wallets, m \in Messages :
                  In(m, v, net') /\ Head(net[w]).kind \in Payments =>
                      m.kind \notin Payments \/ (v = Other(w) /\ m = a)
  <1>1. net' = SentTo(Rest(w), Other(w), a) /\ Other(w) \in Wallets
    BY ReplyFacts, OtherFacts DEF IInv, NetOK
  <1>2. NetOK(net)
    BY DEF IInv
  <1>3. PICK boxes : boxes = Rest(w)
    OBVIOUS
  <1>4. /\ NetOK(boxes)
        /\ \A m \in Messages, v \in Wallets : In(m, v, boxes) => In(m, v, net)
        /\ \A m \in Messages, v \in Wallets :
               In(m, v, boxes) /\ m.kind \in Payments => Head(net[w]).kind \notin Payments
    BY <1>2, <1>3, RestOK
  <1>5. /\ NetOK(SentTo(boxes, Other(w), a))
        /\ \A x \in Messages, v \in Wallets :
               In(x, v, SentTo(boxes, Other(w), a)) => In(x, v, boxes) \/ (v = Other(w) /\ x = a)
    BY <1>1, <1>4, SentOK
  <1> QED BY <1>1, <1>3, <1>4, <1>5

\* One more message is sent, of no payment or while there is no other of one.
LEMMA OneSent ==
    ASSUME IInv, NEW w \in Wallets, NEW a \in Messages, net' = [net EXCEPT ![w] = Append(@, a)],
           a.kind \in Payments => ~ Paying
    PROVE  /\ NetOK(net')
           /\ \A v \in Wallets, m \in Messages :
                  In(m, v, net') => In(m, v, net) \/ (v = w /\ m = a)
  <1>1. net' = SentTo(net, w, a) /\ NetOK(net)
    BY DEF SentTo, IInv
  <1>2. a.kind \in Payments =>
            \A x \in Messages, v \in Wallets : In(x, v, net) => x.kind \notin Payments
    BY DEF Paying, In, Payments
  <1>3. PICK boxes : boxes = net
    OBVIOUS
  <1>4. /\ NetOK(boxes)
        /\ a.kind \in Payments =>
            \A x \in Messages, v \in Wallets : In(x, v, boxes) => x.kind \notin Payments
    BY <1>1, <1>2, <1>3
  <1>5. /\ NetOK(SentTo(boxes, w, a))
        /\ \A x \in Messages, v \in Wallets :
               In(x, v, SentTo(boxes, w, a)) => In(x, v, boxes) \/ (v = w /\ x = a)
    BY <1>4, SentOK
  <1> QED BY <1>1, <1>3, <1>5

\* A wallet writes its book, whose balances both had shown.
LEMMA BookStep ==
    ASSUME IInv, TypeOK', NetOK(net'), env.calm => Quiet, UNCHANGED <<row, event, pool, paid, env>>,
           NEW w \in Wallets, NEW bal \in Balances, SetBook(w, bal), book[w] \in shown,
           \A v \in Wallets, m \in Messages :
               In(m, v, net') => \/ In(m, v, net) /\ m.kind \notin Payments
                                 \/ m.kind \in Payments /\ PaymentOK(m, v)'
    PROVE  IInv'
  <1>1. /\ book'[w] = bal /\ book'[Other(w)] = book[Other(w)] /\ shown \subseteq shown'
        /\ book[Other(w)] = bal => bal \in shown'
    BY OtherFacts DEF SetBook, IInv, TypeOK
  <1>2. MsgsOK'
    <2> SUFFICES ASSUME NEW v \in Wallets, NEW m \in Messages, In(m, v, net')
                 PROVE  PaymentOK(m, v)' /\ ClosingOK(m, v)'
      BY DEF MsgsOK
    <2>1. CASE m.kind \in Payments
      BY <2>1 DEF ClosingOK, Payments
    <2>2. CASE In(m, v, net) /\ m.kind \notin Payments
      <3>1. ClosingOK(m, v) /\ ~ env.calm
        BY <2>2 DEF IInv, MsgsOK, Quiet
      <3>2. CASE m.kind = "SettleSign"
        BY <1>1, <3>1, <3>2 DEF ClosingOK, PaymentOK, Agreed
      <3>3. CASE m.kind = "Settle"
        <4>1. m.bal \in shown \/ (m.bal = book[Other(v)] /\ m.bal # book[v])
          BY <3>1, <3>3 DEF ClosingOK
        <4>2. m.bal \in shown' \/ (m.bal = book'[Other(v)] /\ m.bal # book'[v])
          <5>1. CASE v = w
            BY <1>1, <4>1, <5>1
          <5>2. CASE v = Other(w)
            BY <1>1, <4>1, <5>2, OtherFacts
          <5> QED BY <5>1, <5>2, OtherFacts
        <4> QED BY <3>1, <3>3, <4>2 DEF ClosingOK, PaymentOK
      <3> QED BY <2>2, <3>2, <3>3 DEF Messages, Payments
    <2> QED BY <2>1, <2>2
  <1>3. BooksOK'
    <2>1. (w = Founder /\ Other(w) = Partner) \/ (w = Partner /\ Other(w) = Founder)
      BY DEF Wallets, Other
    <2>2. book'[Founder] = book'[Partner] => book'[Founder] = bal /\ bal \in shown'
      BY <1>1, <2>1
    <2> QED BY <2>2 DEF BooksOK
  <1>4. ASSUME NEW v \in Wallets PROVE EventOK(v)' /\ PoolOK(v)'
    <2>1. EventOK(v)'
      BY <1>1 DEF IInv, EventOK, Agreed, Quiet
    <2>2. PoolOK(v)'
      BY <1>1 DEF IInv, PoolOK, Agreed, Quiet
    <2> QED BY <2>1, <2>2
  <1>5. PaidOK'
    BY <1>1 DEF IInv, PaidOK, Agreed, Quiet
  <1>6. QuietOK'
    BY StaysQuiet
  <1> QED BY <1>2, <1>3, <1>4, <1>5, <1>6 DEF IInv

\* An event is written by a step of a closing that keeps its arguments.
LEMMA EventStep ==
    ASSUME IInv, TypeOK', ~ Quiet, UNCHANGED <<book, row, net, shown, env>>,
           NEW w \in Wallets, NEW x \in Events, event' = [event EXCEPT ![w] = x],
           x.founder => event[w].founder /\ x.args = event[w].args,
           x.stage \in Working => event[w].stage \in Working,
           \A v \in Wallets : PoolOK(v)', PaidOK'
    PROVE  IInv'
  <1>1. ASSUME NEW v \in Wallets PROVE EventOK(v)'
    <2>1. EventOK(v) /\ event'[v] = IF v = w THEN x ELSE event[v]
      BY DEF IInv, TypeOK
    <2> QED BY <2>1 DEF EventOK, Agreed
  <1>2. QuietOK' /\ NetOK(net')
    BY NotQuiet DEF IInv
  <1> QED BY <1>1, <1>2, SameBooks

-----------------------------------------------------------------------------
(* The payments.                                                           *)

LEMMA InitInv == Init => IInv
  <1> SUFFICES ASSUME Init PROVE IInv
    OBVIOUS
  <1>1. TypeOK
    <2>1. /\ env \in Environments /\ env.closes \in Nat /\ env.pays \in Nat /\ env.maxFaults \in Nat
      BY CloseAssumption DEF Init, Environment
    <2>2. left \in [{"close", "pay", "fault"} -> Nat]
      BY <2>1 DEF Init
    <2>3. Idle \in Events
      BY DEF Idle, Events
    <2> QED BY <2>1, <2>2, <2>3, CloseAssumption
        DEF Init, TypeOK, Balances, Events, Payments
  <1>2. NetOK(net) /\ \A w \in Wallets, m \in Messages : ~ In(m, w, net)
    BY DEF Init, NetOK, Lists, OnePayment, In
  <1>3. Deposit \in shown /\ \A w \in Wallets : book[w] = Deposit
    BY DEF Init
  <1> QED BY <1>1, <1>2, <1>3, OtherFacts
      DEF IInv, MsgsOK, BooksOK, EventOK, PoolOK, PaidOK, QuietOK, Init, Idle

LEMMA PayStep ==
    ASSUME IInv, UNCHANGED env, NEW w \in Wallets, Pay(w)
    PROVE  IInv'
  <1>1. TypeOK
    BY DEF IInv
  <1>2. PICK a : a = [kind |-> "Rsmc", bal |-> AfterPayment(book[w], w)]
    OBVIOUS
  <1>3. a \in Messages /\ a.kind = "Rsmc" /\ Other(w) \in Wallets
    BY <1>2, OtherFacts DEF Pay, Messages, Payments
  <1>4. /\ net' = [net EXCEPT ![Other(w)] = Append(@, a)] /\ ~ Paying
        /\ UNCHANGED <<channel, event, pool, paid, shown>>
        /\ env.calm => NobodyCloses
    BY <1>2 DEF Pay
  <1>5. /\ NetOK(net')
        /\ \A v \in Wallets, m \in Messages :
               In(m, v, net') => In(m, v, net) \/ (v = Other(w) /\ m = a)
    BY <1>3, <1>4, OneSent
  <1>6. TypeOK'
    <2>1. left' \in [{"close", "pay", "fault"} -> Nat]
      BY <1>1, LeftOK DEF Pay
    <2> QED BY <1>1, <1>4, <1>5, <2>1 DEF TypeOK, channel, NetOK, Lists, Messages, Payments
  <1>7. PaymentOK(a, Other(w))' /\ ClosingOK(a, Other(w))'
    BY <1>3 DEF PaymentOK, ClosingOK
  <1>8. QuietOK'
    <2>1. env.calm => Quiet
      <3>1. \A v \in Wallets, m \in Messages : net[v] = <<>> => ~ In(m, v, net)
        BY DEF In
      <3> QED BY <1>1, <1>4, <3>1 DEF NobodyCloses, Quiet
    <2> QED BY <1>3, <1>4, <1>5, <2>1, StaysQuiet DEF Payments
  <1>9. /\ \A v \in Wallets : EventOK(v)' /\ PoolOK(v)'
        /\ PaidOK'
    BY <1>4, SameEvents DEF channel
  <1> QED BY <1>4, <1>5, <1>6, <1>7, <1>8, <1>9, SameBooks DEF channel

\* A message that changes nothing.
LEMMA DropStep ==
    ASSUME IInv, NEW w \in Wallets, net[w] # <<>>, net' = Rest(w) \/ Reply(w, <<>>),
           UNCHANGED <<channel, event, pool, paid, shown, env>>,
           left' \in [{"close", "pay", "fault"} -> Nat]
    PROVE  IInv'
  <1>1. /\ NetOK(net')
        /\ \A v \in Wallets, m \in Messages : In(m, v, net') => In(m, v, net)
    BY Dropped
  <1>2. TypeOK'
    BY <1>1 DEF IInv, TypeOK, channel, NetOK, Lists, Messages, Payments
  <1>3. QuietOK'
    <2>1. CASE env.calm => Quiet
      BY <1>1, <2>1, StaysQuiet DEF channel
    <2>2. CASE ~ Quiet
      BY <1>1, <2>2, NotQuiet
    <2> QED BY <2>1, <2>2
  <1>4. /\ \A v \in Wallets : EventOK(v)' /\ PoolOK(v)'
        /\ PaidOK'
    BY SameEvents DEF channel
  <1> QED BY <1>1, <1>2, <1>3, <1>4, SameBooks DEF channel

LEMMA HandleRsmcStep ==
    ASSUME IInv, UNCHANGED env, NEW w \in Wallets, HandleRsmc(w)
    PROVE  IInv'
  <1>1. TypeOK /\ left' \in [{"close", "pay", "fault"} -> Nat]
    BY DEF IInv, TypeOK, HandleRsmc
  <1>2. PICK h : h = Head(net[w])
    OBVIOUS
  <1>3. /\ net[w] # <<>> /\ h \in Messages /\ h.kind = "Rsmc" /\ h.bal \in Balances
        /\ env.calm => Quiet
    BY <1>2, Took DEF HandleRsmc, Payments
  <1>4. CASE Reply(w, <<>>)
    BY <1>1, <1>3, <1>4, DropStep DEF HandleRsmc
  <1>5. CASE ~ Reply(w, <<>>)
    <2>1. PICK a : a = [h EXCEPT !.kind = "Sign0"]
      OBVIOUS
    <2>2. a \in Messages /\ a.kind = "Sign0" /\ a.bal = h.bal
      BY <1>3, <2>1 DEF Messages, Payments
    <2>3. /\ Reply(w, <<a>>) /\ h.bal = AfterPayment(book[w], Other(w))
          /\ UNCHANGED <<channel, event, pool, paid, left, shown>>
      BY <1>2, <1>5, <2>1 DEF HandleRsmc
    <2>4. /\ NetOK(net')
          /\ \A v \in Wallets, m \in Messages :
                 In(m, v, net') => In(m, v, net) \/ (v = Other(w) /\ m = a)
      BY <1>2, <1>3, <2>2, <2>3, Replied DEF Payments
    <2>5. TypeOK'
      BY <1>1, <2>3, <2>4 DEF TypeOK, channel, NetOK, Lists, Messages, Payments
    <2>6. PaymentOK(a, Other(w))' /\ ClosingOK(a, Other(w))'
      BY <2>2, <2>3, OtherFacts DEF PaymentOK, ClosingOK, channel
    <2>7. QuietOK'
      BY <1>3, <2>2, <2>3, <2>4, StaysQuiet DEF Payments
    <2>8. /\ \A v \in Wallets : EventOK(v)' /\ PoolOK(v)'
          /\ PaidOK'
      BY <2>3, SameEvents DEF channel
    <2> QED BY <2>3, <2>4, <2>5, <2>6, <2>7, <2>8, SameBooks DEF channel
  <1> QED BY <1>4, <1>5

LEMMA BookTypes ==
    ASSUME TypeOK, NEW w \in Wallets, NEW bal \in Balances, SetBook(w, bal), NetOK(net'),
           UNCHANGED <<chan, row, event, pool, paid, left, env>>
    PROVE  TypeOK'
  BY DEF TypeOK, SetBook, NetOK, Lists, Messages, Payments

LEMMA HandleSign0Step ==
    ASSUME IInv, UNCHANGED env, NEW w \in Wallets, HandleSign0(w)
    PROVE  IInv'
  <1>1. TypeOK /\ UNCHANGED <<chan, row, event, pool, paid, left>>
    BY DEF IInv, HandleSign0
  <1>2. PICK h : h = Head(net[w])
    OBVIOUS
  <1>3. /\ net[w] # <<>> /\ h \in Messages /\ h.kind = "Sign0" /\ h.bal \in Balances
        /\ env.calm => Quiet
        /\ h.bal = AfterPayment(book[Other(w)], w)
    BY <1>2, Took DEF HandleSign0, Payments, PaymentOK
  <1>4. CASE Reply(w, <<>>) /\ UNCHANGED <<book, shown>>
    <2>1. left' \in [{"close", "pay", "fault"} -> Nat]
      BY <1>1 DEF TypeOK
    <2> QED BY <1>1, <1>3, <1>4, <2>1, DropStep DEF channel
  <1>5. CASE h.bal = AfterPayment(book[w], w) /\ Reply(w, <<[h EXCEPT !.kind = "Sign1"]>>)
             /\ SetBook(w, h.bal)
    <2>1. PICK a : a = [h EXCEPT !.kind = "Sign1"]
      OBVIOUS
    <2>2. a \in Messages /\ a.kind = "Sign1" /\ a.kind \in Payments
      BY <1>3, <2>1 DEF Messages, Payments
    <2>3. book[w] = book[Other(w)] /\ book[w] \in shown
      <3>1. book[w] \in Int /\ book[Other(w)] \in Int
        BY <1>1, OtherFacts DEF TypeOK, Balances
      <3>2. book[w] = book[Other(w)]
        BY <1>3, <1>5, <3>1 DEF AfterPayment
      <3> QED BY <3>2 DEF IInv, BooksOK, Wallets, Other
    <2>4. /\ NetOK(net')
          /\ \A v \in Wallets, m \in Messages :
                 In(m, v, net') => In(m, v, net) \/ (v = Other(w) /\ m = a)
          /\ \A v \in Wallets, m \in Messages :
                 In(m, v, net') => m.kind \notin Payments \/ (v = Other(w) /\ m = a)
      <3>1. h.kind \in Payments /\ Reply(w, <<a>>)
        BY <1>3, <1>5, <2>1 DEF Payments
      <3> QED BY <1>2, <1>3, <2>2, <3>1, Replied
    <2>5. TypeOK'
      BY <1>1, <1>3, <1>5, <2>4, BookTypes
    <2>6. PaymentOK(a, Other(w))'
      <3>1. /\ book'[w] = h.bal /\ book'[Other(w)] = book[Other(w)] /\ shown \subseteq shown'
        BY <1>1, <1>5, OtherFacts DEF SetBook, TypeOK
      <3> QED BY <1>3, <2>2, <2>3, <3>1, OtherFacts DEF PaymentOK
    <2> QED BY <1>1, <1>3, <1>5, <2>2, <2>3, <2>4, <2>5, <2>6, BookStep
  <1> QED BY <1>2, <1>4, <1>5 DEF HandleSign0

LEMMA HandleSign1Step ==
    ASSUME IInv, UNCHANGED env, NEW w \in Wallets, HandleSign1(w)
    PROVE  IInv'
  <1>1. TypeOK /\ UNCHANGED <<chan, row, event, pool, paid, left>> /\ Reply(w, <<>>)
    BY DEF IInv, HandleSign1
  <1>2. PICK h : h = Head(net[w])
    OBVIOUS
  <1>3. net[w] # <<>> /\ h.kind = "Sign1" /\ (env.calm => Quiet) /\ book[w] \in shown
    BY <1>2, Took DEF HandleSign1, Payments, PaymentOK
  <1>4. PICK bal : bal = AfterPayment(book[w], Other(w))
    OBVIOUS
  <1>5. CASE UNCHANGED <<book, shown>>
    <2>1. left' \in [{"close", "pay", "fault"} -> Nat]
      BY <1>1 DEF TypeOK
    <2> QED BY <1>1, <1>3, <1>5, <2>1, DropStep DEF channel
  <1>6. CASE bal \in Balances /\ SetBook(w, bal)
    <2>1. /\ NetOK(net')
          /\ \A v \in Wallets, m \in Messages : In(m, v, net') => In(m, v, net)
          /\ \A v \in Wallets, m \in Messages : In(m, v, net') => m.kind \notin Payments
      <3>1. h.kind \in Payments
        BY <1>3 DEF Payments
      <3> QED BY <1>1, <1>2, <1>3, <3>1, Dropped
    <2>2. TypeOK'
      BY <1>1, <1>6, <2>1, BookTypes
    <2> QED BY <1>1, <1>3, <1>6, <2>1, <2>2, BookStep
  <1> QED BY <1>4, <1>5, <1>6 DEF HandleSign1

-----------------------------------------------------------------------------
(* The agreement.                                                          *)

LEMMA SignedFacts ==
    ASSUME NEW w \in Wallets, NEW bal \in Balances
    PROVE  Signed(w, bal) \in Commitment /\ Signed(w, bal).bal = bal
  BY DEF Signed, Commitment

LEMMA RowFacts ==
    ASSUME TypeOK, NEW w \in Wallets, NEW r \in Rows, AddRow(w, r)
    PROVE  /\ row' \in [Wallets -> {NoRow} \cup Rows] /\ row'[w] # NoRow
           /\ \A v \in Wallets : row[v] # NoRow => row'[v] # NoRow
  BY Types DEF AddRow

LEMMA CreateStep ==
    ASSUME IInv, UNCHANGED env, NEW w \in Wallets, NEW unsent \in BOOLEAN, Create(w, unsent)
    PROVE  IInv'
  <1>1. TypeOK /\ left' \in [{"close", "pay", "fault"} -> Nat] /\ Other(w) \in Wallets
    BY LeftOK, OtherFacts DEF IInv, Create
  <1>2. PICK bal \in Balances : bal = book[w]
    BY <1>1 DEF TypeOK
  <1>3. PICK a : a = [kind |-> "Settle", bal |-> bal]
    OBVIOUS
  <1>4. a \in Messages /\ a.kind = "Settle" /\ a.bal = bal
    BY <1>3 DEF Messages
  <1>5. PICK r : r = [role |-> "FOUNDER", bal |-> bal, own |-> Signed(w, bal), peer |-> {}]
    OBVIOUS
  <1>6. r \in Rows
    BY <1>5, SignedFacts DEF Rows
  <1>7. /\ env.calm => ~ Paying
        /\ AddRow(w, r)
        /\ net' = net \/ net' = [net EXCEPT ![Other(w)] = Append(@, a)]
        /\ UNCHANGED <<chan, book, event, pool, paid, shown>>
    BY <1>2, <1>3, <1>5 DEF Create
  <1>8. /\ row' \in [Wallets -> {NoRow} \cup Rows] /\ row'[w] # NoRow
        /\ \A v \in Wallets : row[v] # NoRow => row'[v] # NoRow
    BY <1>1, <1>6, <1>7, RowFacts
  <1>9. /\ NetOK(net')
        /\ \A v \in Wallets, m \in Messages :
               In(m, v, net') => In(m, v, net) \/ (v = Other(w) /\ m = a)
    <2>1. CASE net' = net
      BY <2>1 DEF IInv
    <2>2. CASE net' = [net EXCEPT ![Other(w)] = Append(@, a)]
      BY <1>1, <1>4, <2>2, OneSent DEF Payments
    <2> QED BY <1>7, <2>1, <2>2
  <1>10. TypeOK'
    BY <1>1, <1>7, <1>8, <1>9 DEF TypeOK, NetOK, Lists, Messages, Payments, Rows
  <1>11. PaymentOK(a, Other(w))' /\ ClosingOK(a, Other(w))'
    <2>1. bal \in shown \/ bal # book[Other(w)]
      BY <1>2 DEF IInv, BooksOK, Wallets, Other
    <2> QED BY <1>2, <1>4, <1>7, <1>8, <2>1, OtherFacts DEF PaymentOK, ClosingOK
  <1>12. QuietOK'
    <2>1. env.calm => \A v \in Wallets, m \in Messages : In(m, v, net) => m.kind \notin Payments
      BY <1>7 DEF Paying, In, Payments
    <2> QED BY <1>4, <1>9, <2>1 DEF QuietOK, Payments
  <1>13. /\ \A v \in Wallets : EventOK(v)' /\ PoolOK(v)'
         /\ PaidOK'
    BY <1>7, SameEvents
  <1> QED BY <1>7, <1>8, <1>9, <1>10, <1>11, <1>12, <1>13, SameBooks

\* A new event takes the place of another, whose transaction stays.
LEMMA RegisterFacts ==
    ASSUME TypeOK, NEW w \in Wallets, NEW founder \in BOOLEAN, NEW args \in {NoArgs} \cup Args,
           Register(w, founder, args)
    PROVE  /\ event' \in [Wallets -> Events]
           /\ event'[w].founder = founder /\ event'[w].args = args
           /\ \A v \in Wallets : v # w => event'[v] = event[v]
           /\ pool' \in [Wallets -> {NoTx} \cup Txs]
           /\ \A v \in Wallets : pool'[v] # NoTx =>
                  pool[v] # NoTx /\ pool'[v].args = pool[v].args
  <1>1. event \in [Wallets -> Events] /\ pool \in [Wallets -> {NoTx} \cup Txs]
    BY Types
  <1>2. PICK x : x = [Idle EXCEPT !.stage = "prepare", !.founder = founder, !.args = args]
    OBVIOUS
  <1>3. x = [stage |-> "prepare", retry |-> FALSE, founder |-> founder, args |-> args, tx |-> "none"]
    BY <1>2 DEF Idle
  <1>4. x \in Events /\ x.founder = founder /\ x.args = args
    BY <1>3 DEF Events, Working
  <1>5. event' = [event EXCEPT ![w] = x]
    BY <1>2 DEF Register
  <1>6. PICK y : y = IF pool[w] = NoTx THEN pool[w] ELSE [pool[w] EXCEPT !.own = FALSE]
    OBVIOUS
  <1>7. y \in {NoTx} \cup Txs /\ (y # NoTx => pool[w] # NoTx /\ y.args = pool[w].args)
    <2>1. pool[w] = NoTx \/ pool[w] \in Txs
      BY <1>1
    <2> QED BY <1>6, <2>1 DEF Txs
  <1>8. pool' = [pool EXCEPT ![w] = y]
    BY <1>6 DEF Register
  <1> QED BY <1>1, <1>4, <1>5, <1>7, <1>8

LEMMA HandleSettleStep ==
    ASSUME IInv, UNCHANGED env, NEW w \in Wallets, NEW unsent \in BOOLEAN, HandleSettle(w, unsent)
    PROVE  IInv'
  <1>1. TypeOK /\ Other(w) \in Wallets
    BY OtherFacts DEF IInv
  <1>2. PICK h : h = Head(net[w])
    OBVIOUS
  <1>3. /\ net[w] # <<>> /\ h \in Messages /\ h.kind = "Settle" /\ h.bal \in Balances
        /\ ~ Quiet /\ ClosingOK(h, w)
    BY <1>2, Took DEF HandleSettle, Payments
  <1>4. left' \in [{"close", "pay", "fault"} -> Nat]
    BY <1>1, LeftOK DEF HandleSettle
  <1>5. UNCHANGED <<chan, book, paid, shown>>
    BY DEF HandleSettle
  <1>6. PICK sig : sig = Signed(Other(w), h.bal)
    OBVIOUS
  <1>7. PICK r : r = [role |-> "PARTNER", bal |-> h.bal, own |-> sig, peer |-> {sig}]
    OBVIOUS
  <1>8. r \in Rows
    BY <1>1, <1>3, <1>6, <1>7, SignedFacts DEF Rows
  <1>9. /\ row' \in [Wallets -> {NoRow} \cup Rows]
        /\ \A v \in Wallets : row[v] # NoRow => row'[v] # NoRow
    <2>1. AddRow(w, r) \/ UNCHANGED row
      BY <1>2, <1>6, <1>7 DEF HandleSettle
    <2> QED BY <1>1, <1>8, <2>1, RowFacts, Types
  <1>10. CASE BooksAgree(w, h.bal) /\ ~ unsent
    <2>1. PICK a : a = [kind |-> "SettleSign", bal |-> h.bal]
      OBVIOUS
    <2>2. a \in Messages /\ a.kind = "SettleSign" /\ a.bal = h.bal
      BY <1>3, <2>1 DEF Messages
    <2>3. Reply(w, <<a>>) /\ Register(w, FALSE, NoArgs)
      BY <1>2, <1>10, <2>1 DEF HandleSettle
    <2>4. /\ NetOK(net')
          /\ \A v \in Wallets, m \in Messages :
                 In(m, v, net') => In(m, v, net) \/ (v = Other(w) /\ m = a)
      BY <1>3, <2>2, <2>3, Replied DEF Payments
    <2>5. /\ event' \in [Wallets -> Events] /\ ~ event'[w].founder
          /\ \A v \in Wallets : v # w => event'[v] = event[v]
          /\ pool' \in [Wallets -> {NoTx} \cup Txs]
          /\ \A v \in Wallets : pool'[v] # NoTx =>
                 pool[v] # NoTx /\ pool'[v].args = pool[v].args
      <3>1. PICK founder \in BOOLEAN, args \in {NoArgs} \cup Args : founder = FALSE /\ args = NoArgs
        OBVIOUS
      <3>2. Register(w, founder, args)
        BY <2>3, <3>1
      <3> QED BY <1>1, <3>1, <3>2, RegisterFacts
    <2>6. TypeOK'
      BY <1>1, <1>4, <1>5, <1>9, <2>4, <2>5
      DEF TypeOK, NetOK, Lists, Messages, Payments, Rows, Events, Txs
    <2>7. PaymentOK(a, Other(w))' /\ ClosingOK(a, Other(w))'
      <3>1. row[Other(w)] # NoRow /\ h.bal \in shown /\ (env.calm => h.bal = book[Other(w)])
            /\ h.bal = book[w]
        BY <1>3, <1>10 DEF ClosingOK, BooksAgree
      <3>2. Agreed(h.bal)'
        BY <1>5, <3>1, OtherFacts DEF Agreed
      <3> QED BY <1>1, <1>9, <2>2, <3>1, <3>2 DEF PaymentOK, ClosingOK
    <2>8. QuietOK'
      BY <1>3, <2>2, <2>4, NotQuiet DEF Payments
    <2>9. ASSUME NEW v \in Wallets PROVE EventOK(v)' /\ PoolOK(v)'
      <3>1. EventOK(v) /\ PoolOK(v)
        BY DEF IInv
      <3> QED BY <1>5, <2>5, <3>1 DEF EventOK, PoolOK, Agreed
    <2>10. PaidOK'
      BY <1>5, SameEvents
    <2> QED BY <1>5, <1>9, <2>4, <2>6, <2>7, <2>8, <2>9, <2>10, SameBooks
  <1>11. CASE ~ (BooksAgree(w, h.bal) /\ ~ unsent)
    <2>1. Reply(w, <<>>) /\ UNCHANGED <<event, pool>>
      BY <1>2, <1>11 DEF HandleSettle
    <2>2. /\ NetOK(net')
          /\ \A v \in Wallets, m \in Messages : In(m, v, net') => In(m, v, net)
      BY <1>3, <2>1, Dropped
    <2>3. TypeOK'
      BY <1>1, <1>4, <1>5, <1>9, <2>1, <2>2 DEF TypeOK, NetOK, Lists, Messages, Payments, Rows
    <2>4. QuietOK' /\ (\A v \in Wallets : EventOK(v)' /\ PoolOK(v)') /\ PaidOK'
      BY <1>3, <1>5, <2>1, <2>2, NotQuiet, SameEvents
    <2> QED BY <1>5, <1>9, <2>2, <2>3, <2>4, SameBooks
  <1> QED BY <1>10, <1>11

LEMMA HandleSettleSignStep ==
    ASSUME IInv, UNCHANGED env, NEW w \in Wallets, HandleSettleSign(w)
    PROVE  IInv'
  <1>1. /\ TypeOK /\ Reply(w, <<>>) /\ UNCHANGED <<chan, book, paid, left, shown>>
        /\ left' \in [{"close", "pay", "fault"} -> Nat]
    BY DEF IInv, HandleSettleSign, TypeOK
  <1>2. PICK h : h = Head(net[w])
    OBVIOUS
  <1>3. /\ net[w] # <<>> /\ h \in Messages /\ h.kind = "SettleSign" /\ h.bal \in Balances
        /\ ~ Quiet /\ row[w] # NoRow /\ Agreed(h.bal)
    BY <1>2, Took DEF HandleSettleSign, Payments, ClosingOK
  <1>4. PICK sig : sig = Signed(w, h.bal)
    OBVIOUS
  <1>5. sig \in Commitment /\ sig.bal = h.bal
    BY <1>3, <1>4, SignedFacts
  <1>6. CASE row[w].bal = sig.bal
    <2>1. PICK args : args = [bal |-> row[w].bal, own |-> row[w].own, peer |-> sig]
      OBVIOUS
    <2>2. row \in [Wallets -> {NoRow} \cup Rows] /\ row[w] \in Rows
      BY <1>1, <1>3, Types
    <2>3. args \in Args /\ args.bal = h.bal
      BY <1>5, <1>6, <2>1, <2>2 DEF Args, Rows
    <2>4. row' = [row EXCEPT ![w].peer = {sig}] /\ Register(w, TRUE, args)
      BY <1>2, <1>4, <1>6, <2>1 DEF HandleSettleSign
    <2>5. /\ row' \in [Wallets -> {NoRow} \cup Rows]
          /\ \A v \in Wallets : row[v] # NoRow => row'[v] # NoRow
      <3>1. PICK r : r = [row[w] EXCEPT !.peer = {sig}]
        OBVIOUS
      <3>2. r \in Rows
        BY <1>5, <2>2, <3>1 DEF Rows
      <3>3. row' = [row EXCEPT ![w] = r]
        BY <2>4, <3>1
      <3> QED BY <2>2, <3>2, <3>3, Types
    <2>6. /\ event' \in [Wallets -> Events] /\ event'[w].args = args
          /\ \A v \in Wallets : v # w => event'[v] = event[v]
          /\ pool' \in [Wallets -> {NoTx} \cup Txs]
          /\ \A v \in Wallets : pool'[v] # NoTx =>
                 pool[v] # NoTx /\ pool'[v].args = pool[v].args
      <3>1. PICK founder \in BOOLEAN : founder = TRUE
        OBVIOUS
      <3>2. Register(w, founder, args) /\ args \in {NoArgs} \cup Args
        BY <2>3, <2>4, <3>1
      <3> QED BY <1>1, <3>2, RegisterFacts
    <2>7. /\ NetOK(net')
          /\ \A v \in Wallets, m \in Messages : In(m, v, net') => In(m, v, net)
      BY <1>1, <1>3, Dropped
    <2>8. TypeOK'
      BY <1>1, <2>5, <2>6, <2>7 DEF TypeOK, NetOK, Lists, Messages, Payments, Rows, Events, Txs
    <2>9. ASSUME NEW v \in Wallets PROVE EventOK(v)' /\ PoolOK(v)'
      <3>1. EventOK(v) /\ PoolOK(v)
        BY DEF IInv
      <3>2. PoolOK(v)'
        BY <1>1, <2>6, <3>1 DEF PoolOK, Agreed
      <3>3. EventOK(v)'
        BY <1>1, <1>3, <2>3, <2>6, <3>1 DEF EventOK, Agreed
      <3> QED BY <3>2, <3>3
    <2>10. QuietOK' /\ PaidOK'
      BY <1>1, <1>3, <2>7, NotQuiet, SameEvents
    <2> QED BY <1>1, <2>5, <2>7, <2>8, <2>9, <2>10, SameBooks
  <1>7. CASE row[w].bal # sig.bal
    BY <1>1, <1>2, <1>3, <1>4, <1>7, DropStep DEF HandleSettleSign, channel
  <1> QED BY <1>6, <1>7

-----------------------------------------------------------------------------
(* The event and the chain.                                                *)

LEMMA WorkingNotQuiet ==
    \A w \in Wallets : event[w].stage \in Working \/ pool[w] # NoTx => ~ Quiet
  BY DEF Quiet

\* A stage that sends nothing.
LEMMA StageStep ==
    ASSUME IInv, UNCHANGED env, NEW w \in Wallets,
           Prepared(w) \/ Executed(w) \/ Ended(w) \/ Timeout(w)
    PROVE  IInv'
  <1>1. TypeOK /\ event \in [Wallets -> Events] /\ event[w] \in Events
    BY Types DEF IInv
  <1>2. /\ UNCHANGED <<book, row, net, pool, paid, shown>>
        /\ event[w].stage \in Working
    BY DEF Prepared, Executed, Ended, Timeout, channel, InStage, Working
  <1>3. chan' \in [Wallets -> {"OPENED", "CLOSING", "CLOSED"}]
    BY <1>1, ZenonT(30) DEF Prepared, Executed, Ended, Timeout, channel, TypeOK
  <1>4. left' \in [{"close", "pay", "fault"} -> Nat]
    <2>1. left' = left \/ Fault("timeout", TRUE)
      BY DEF Prepared, Executed, Ended, Timeout
    <2>2. left \in [{"close", "pay", "fault"} -> Nat]
      BY <1>1 DEF TypeOK
    <2> QED BY <1>1, <2>1, <2>2, LeftOK
  <1>5. PICK x \in Events :
            /\ event' = [event EXCEPT ![w] = x]
            /\ x.founder = event[w].founder /\ x.args = event[w].args
    <2>1. ASSUME NEW stage \in Working \cup {"complete", "error"}, NEW retry \in BOOLEAN
          PROVE  /\ [event[w] EXCEPT !.stage = stage] \in Events
                 /\ [event[w] EXCEPT !.stage = stage, !.retry = retry] \in Events
                 /\ [event[w] EXCEPT !.stage = stage].founder = event[w].founder
                 /\ [event[w] EXCEPT !.stage = stage].args = event[w].args
                 /\ [event[w] EXCEPT !.stage = stage, !.retry = retry].founder = event[w].founder
                 /\ [event[w] EXCEPT !.stage = stage, !.retry = retry].args = event[w].args
      BY <1>1 DEF Events
    <2>2. \/ \E stage \in Working \cup {"complete", "error"} :
                event' = [event EXCEPT ![w] = [event[w] EXCEPT !.stage = stage]]
          \/ \E stage \in Working \cup {"complete", "error"}, retry \in BOOLEAN :
                event' = [event EXCEPT ![w] = [event[w] EXCEPT !.stage = stage, !.retry = retry]]
      <3>1. CASE Prepared(w)
        <4>1. event' = [event EXCEPT ![w] = [event[w] EXCEPT !.stage = "execute"]]
          BY <3>1 DEF Prepared, GoTo
        <4> QED BY <4>1 DEF Working
      <3>2. CASE Executed(w)
        <4>1. event' = [event EXCEPT ![w] = [event[w] EXCEPT !.stage = "terminate"]]
          BY <3>2 DEF Executed, GoTo
        <4> QED BY <4>1 DEF Working
      <3>3. CASE Ended(w)
        <4>1. event' = [event EXCEPT ![w] = [event[w] EXCEPT !.stage = "complete"]]
          BY <3>3 DEF Ended, GoTo
        <4> QED BY <4>1
      <3>4. CASE Timeout(w) /\ event[w].retry
        <4>1. event' = [event EXCEPT ![w] = [event[w] EXCEPT !.stage = "error"]]
          BY <3>4 DEF Timeout
        <4> QED BY <4>1
      <3>5. CASE Timeout(w) /\ ~ event[w].retry
        <4>1. event' = [event EXCEPT ![w] = [event[w] EXCEPT !.stage = "prepare", !.retry = TRUE]]
          BY <3>5 DEF Timeout
        <4> QED BY <4>1 DEF Working
      <3> QED BY <3>1, <3>2, <3>3, <3>4, <3>5
    <2> QED BY <2>1, <2>2, ZenonT(30)
  <1>6. TypeOK'
    <2>1. event' \in [Wallets -> Events]
      BY <1>1, <1>5
    <2> QED BY <1>1, <1>2, <1>3, <1>4, <2>1 DEF TypeOK, Events
  <1>7. (\A v \in Wallets : PoolOK(v)') /\ PaidOK'
    BY <1>2, SameEvents
  <1> QED BY <1>2, <1>5, <1>6, <1>7, WorkingNotQuiet, EventStep

\* The transaction a wallet sends carries the arguments of its event.
LEMMA SendCloseStep ==
    ASSUME IInv, UNCHANGED env, NEW w \in Wallets, SendClose(w)
    PROVE  IInv'
  <1>1. /\ TypeOK /\ event \in [Wallets -> Events] /\ event[w] \in Events
        /\ pool \in [Wallets -> {NoTx} \cup Txs]
    BY Types DEF IInv
  <1>2. /\ UNCHANGED <<channel, net, paid, left, shown>>
        /\ event[w].stage \in Working /\ event[w].founder
    BY DEF SendClose, InStage, Working
  <1>3. event[w].args \in Args /\ Agreed(event[w].args.bal)
    BY <1>2 DEF IInv, EventOK
  <1>4. PICK price \in {1, 2} : price = IF event[w].retry THEN 2 ELSE 1
    OBVIOUS
  <1>5. PICK t : t = [price |-> price, args |-> event[w].args, own |-> TRUE]
    OBVIOUS
  <1>6. t \in Txs /\ t.args = event[w].args
    BY <1>3, <1>5 DEF Txs
  <1>7. pool' = [pool EXCEPT ![w] = t] \/ UNCHANGED pool
    BY <1>4, <1>5 DEF SendClose
  <1>8. PICK x \in Events :
            /\ event' = [event EXCEPT ![w] = x] /\ x.stage = event[w].stage
            /\ x.founder = event[w].founder /\ x.args = event[w].args
    <2>1. \A tx \in {"none", "pending"} :
              LET x == [event[w] EXCEPT !.tx = tx] IN
              x \in Events /\ x.stage = event[w].stage /\ x.founder = event[w].founder
              /\ x.args = event[w].args
      BY <1>1 DEF Events
    <2>2. PICK tx \in {"none", "pending"} : event' = [event EXCEPT ![w].tx = tx]
      BY DEF SendClose
    <2>3. event' = [event EXCEPT ![w] = [event[w] EXCEPT !.tx = tx]]
      BY <2>2
    <2> QED BY <2>1, <2>3
  <1>9. TypeOK'
    <2>1. event' \in [Wallets -> Events] /\ pool' \in [Wallets -> {NoTx} \cup Txs]
      BY <1>1, <1>6, <1>7, <1>8
    <2> QED BY <1>1, <1>2, <2>1 DEF TypeOK, Events, Txs, channel
  <1>10. ASSUME NEW v \in Wallets PROVE PoolOK(v)'
    <2>1. PoolOK(v)
      BY DEF IInv
    <2>2. pool'[v] = pool[v] \/ (v = w /\ pool'[v] = t)
      BY <1>1, <1>7
    <2> QED BY <1>2, <1>3, <1>6, <2>1, <2>2 DEF PoolOK, Agreed, channel
  <1>11. PaidOK'
    BY <1>2, SameEvents DEF channel
  <1> QED BY <1>2, <1>8, <1>9, <1>10, <1>11, WorkingNotQuiet, EventStep DEF channel

\* What the contract pays out was in the pool.
LEMMA MineStep ==
    ASSUME IInv, UNCHANGED env, NEW w \in Wallets, NEW fails \in BOOLEAN, Mine(w, fails)
    PROVE  IInv'
  <1>1. /\ TypeOK /\ event \in [Wallets -> Events] /\ event[w] \in Events
        /\ pool \in [Wallets -> {NoTx} \cup Txs]
    BY Types DEF IInv
  <1>2. /\ UNCHANGED <<channel, net, shown>> /\ pool[w] # NoTx
        /\ pool' = [pool EXCEPT ![w] = NoTx]
        /\ paid' = pool[w].args.bal \/ UNCHANGED paid
    BY DEF Mine
  <1>3. pool[w] \in Txs /\ pool[w].args.bal \in Balances /\ Agreed(pool[w].args.bal)
    BY <1>1, <1>2 DEF IInv, PoolOK, Txs, Args
  <1>4. left' \in [{"close", "pay", "fault"} -> Nat]
    BY <1>1, LeftOK DEF Mine
  <1>5. PICK x \in Events :
            /\ event' = [event EXCEPT ![w] = x] /\ x.stage = event[w].stage
            /\ x.founder = event[w].founder /\ x.args = event[w].args
    <2>1. \A tx \in {"success", "failed"} :
              LET x == [event[w] EXCEPT !.tx = tx] IN
              x \in Events /\ x.stage = event[w].stage /\ x.founder = event[w].founder
              /\ x.args = event[w].args
      BY <1>1 DEF Events
    <2>2. CASE UNCHANGED event
      <3>1. event' = [event EXCEPT ![w] = event[w]]
        BY <1>1, <2>2
      <3> QED BY <1>1, <3>1
    <2>3. CASE ~ UNCHANGED event
      <3>1. PICK tx \in {"success", "failed"} : event' = [event EXCEPT ![w].tx = tx]
        BY <2>3 DEF Mine
      <3>2. event' = [event EXCEPT ![w] = [event[w] EXCEPT !.tx = tx]]
        BY <3>1
      <3> QED BY <2>1, <3>2
    <2> QED BY <2>2, <2>3
  <1>6. TypeOK'
    <2>1. event' \in [Wallets -> Events] /\ pool' \in [Wallets -> {NoTx} \cup Txs]
      BY <1>1, <1>2, <1>5
    <2>2. paid' \in {Open} \cup Balances
      BY <1>1, <1>2, <1>3 DEF TypeOK
    <2> QED BY <1>1, <1>2, <1>4, <2>1, <2>2 DEF TypeOK, Events, Txs, channel
  <1>7. ASSUME NEW v \in Wallets PROVE PoolOK(v)'
    <2>1. PoolOK(v)
      BY DEF IInv
    <2>2. pool'[v] = NoTx \/ pool'[v] = pool[v]
      BY <1>1, <1>2
    <2> QED BY <1>2, <2>1, <2>2 DEF PoolOK, Agreed, channel
  <1>8. PaidOK'
    <2>1. PaidOK
      BY DEF IInv
    <2> QED BY <1>2, <1>3, <2>1 DEF PaidOK, Agreed, channel
  <1> QED BY <1>2, <1>5, <1>6, <1>7, <1>8, WorkingNotQuiet, EventStep DEF channel

LEMMA CrashStep ==
    ASSUME IInv, UNCHANGED env, NEW w \in Wallets, Crash(w)
    PROVE  IInv'
  <1>1. TypeOK /\ event \in [Wallets -> Events] /\ pool \in [Wallets -> {NoTx} \cup Txs]
    BY Types DEF IInv
  <1>2. /\ UNCHANGED <<channel, net, paid, shown>>
        /\ event[w].stage \in Working /\ event' = [event EXCEPT ![w] = Idle]
    BY DEF Crash, InStage, Working
  <1>3. Idle \in Events /\ ~ Idle.founder /\ Idle.stage \notin Working
    BY DEF Idle, Events, Working
  <1>4. left' \in [{"close", "pay", "fault"} -> Nat]
    BY <1>1, LeftOK DEF Crash
  <1>5. PICK y : y = IF pool[w] = NoTx THEN pool[w] ELSE [pool[w] EXCEPT !.own = FALSE]
    OBVIOUS
  <1>6. y \in {NoTx} \cup Txs /\ (y # NoTx => pool[w] # NoTx /\ y.args = pool[w].args)
    <2>1. pool[w] = NoTx \/ pool[w] \in Txs
      BY <1>1
    <2> QED BY <1>5, <2>1 DEF Txs
  <1>7. pool' = [pool EXCEPT ![w] = y]
    BY <1>5 DEF Crash
  <1>8. TypeOK'
    <2>1. event' \in [Wallets -> Events] /\ pool' \in [Wallets -> {NoTx} \cup Txs]
      BY <1>1, <1>2, <1>3, <1>6, <1>7
    <2> QED BY <1>1, <1>2, <1>4, <2>1 DEF TypeOK, Events, Txs, channel
  <1>9. ASSUME NEW v \in Wallets PROVE PoolOK(v)'
    <2>1. PoolOK(v)
      BY DEF IInv
    <2>2. pool'[v] # NoTx => pool[v] # NoTx /\ pool'[v].args = pool[v].args
      BY <1>1, <1>6, <1>7
    <2> QED BY <1>2, <2>1, <2>2 DEF PoolOK, Agreed, channel
  <1>10. PaidOK'
    BY <1>2, SameEvents DEF channel
  <1> QED BY <1>2, <1>3, <1>8, <1>9, <1>10, WorkingNotQuiet, EventStep DEF channel

LEMMA LoseStep ==
    ASSUME IInv, UNCHANGED env, NEW w \in Wallets, Lose(w)
    PROVE  IInv'
  <1>1. net' = Rest(w) /\ net[w] # <<>> /\ UNCHANGED <<channel, event, pool, paid, shown>>
    BY DEF Lose, Rest
  <1>2. left' \in [{"close", "pay", "fault"} -> Nat]
    BY LeftOK DEF Lose, IInv
  <1> QED BY <1>1, <1>2, DropStep

LEMMA NextInv == IInv /\ [Next]_vars => IInv'
  <1> SUFFICES ASSUME IInv, [Next]_vars PROVE IInv'
    OBVIOUS
  <1>1. CASE UNCHANGED vars
    <2>1. UNCHANGED <<chan, book, row, net, event, pool, paid, left, shown, env>>
      BY <1>1 DEF vars, system
    <2>2. TypeOK' /\ NetOK(net') /\ QuietOK'
      BY <2>1 DEF IInv, TypeOK, QuietOK, Quiet
    <2>3. (\A v \in Wallets : EventOK(v)' /\ PoolOK(v)') /\ PaidOK'
      BY <2>1, SameEvents
    <2> QED BY <2>1, <2>2, <2>3, SameBooks
  <1>2. ASSUME Next PROVE IInv'
    <2> UNCHANGED env
      BY <1>2 DEF Next
    <2>1. ASSUME NEW w \in Wallets, Message(w) PROVE IInv'
      BY <2>1, HandleRsmcStep, HandleSign0Step, HandleSign1Step, HandleSettleStep,
         HandleSettleSignStep DEF Message
    <2>2. ASSUME NEW w \in Wallets, Prepared(w) \/ Executed(w) \/ Ended(w) \/ Timeout(w)
          PROVE  IInv'
      BY <2>2, StageStep
    <2>3. ASSUME NEW w \in Wallets, NEW choice \in BOOLEAN, Create(w, choice) \/ Mine(w, choice)
          PROVE  IInv'
      BY <2>3, CreateStep, MineStep
    <2>4. ASSUME NEW w \in Wallets, Pay(w) \/ SendClose(w) \/ Lose(w) \/ Crash(w) PROVE IInv'
      BY <2>4, PayStep, SendCloseStep, LoseStep, CrashStep
    <2> QED BY <1>2, <2>1, <2>2, <2>3, <2>4 DEF Next
  <1> QED BY <1>1, <1>2

-----------------------------------------------------------------------------
(* The theorems.                                                           *)

\* Every state a behaviour reaches has the types of TypeOK: a book never leaves
\* what the channel holds, and no handler reads a row that is not there.
THEOREM TypeCorrect == Spec => []TypeOK
  <1>1. IInv => TypeOK
    BY DEF IInv
  <1> QED BY <1>1, InitInv, NextInv, PTL DEF Spec

\* The contract pays out balances both books have shown at the same time, and
\* those both still show when nobody pays while the channel is being closed
\* (check_balance and quick_close_channel), however often it is asked for.
THEOREM PaysAgreed == Spec => []PaidIsAgreed
  <1>1. IInv => PaidIsAgreed
    BY DEF IInv, PaidOK, Agreed, PaidIsAgreed
  <1> QED BY <1>1, InitInv, NextInv, PTL DEF Spec
=============================================================================
