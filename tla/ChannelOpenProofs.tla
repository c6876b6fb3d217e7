------------------------- MODULE ChannelOpenProofs -------------------------
(* Proofs about ChannelOpen, for any wallets, channels, deposits and        *)
(* environments: however many channels are opened at once, whatever is lost, *)
(* not sent, times out or fails on the chain, and whoever stops.            *)
EXTENDS ChannelOpen, FiniteSetTheorems, TLAPS

Trades == [state : {"none", "init", "confirming", "confirmed"}, signed : SUBSET Wallets]
Events == [stage : EventStages, retry : BOOLEAN]
Kinds == {"approve", "deposit"}
Txs == [status : {"none", "pending", "success", "failed", "replaced"}, price : {1, 2}]

-----------------------------------------------------------------------------
(* The inductive invariant, a conjunction over the channels.               *)

\* Both wallets hold the founding trade with both signatures.
Signed(c) == \A w \in Sides(c) : row[w][c].signed = Sides(c)

Sent(kind, c) == [kind |-> kind, channel |-> c] \in net

HasEvent(w, c) == event[w][c].stage # "none"

Deposits(w, c) == tx[w][c]["deposit"].status # "none"

\* Nothing happens to a channel its founder has not created.
FreshOK(c) ==
    chan[FounderOf[c]][c] = "none" =>
        /\ ~ Sent("Founder", c) /\ ~ Sent("FounderSign", c) /\ c \notin funded
        /\ \A w \in Wallets : ~ HasEvent(w, c) /\ ~ Deposits(w, c)

\* The partner stores the trade before it answers.
AnswerOK(c) == Sent("FounderSign", c) => row[PartnerOf[c]][c].signed = Sides(c)

\* A wallet has an event once it holds the trade, the founder after the partner.
EventOK(w, c) ==
    HasEvent(w, c) =>
        /\ w \in Sides(c) /\ row[w][c].signed = Sides(c)
        /\ row[PartnerOf[c]][c].signed = Sides(c)

DepositOK(c) == (c \in funded \/ \E w \in Wallets : Deposits(w, c)) => Signed(c)

OpenedOK(w, c) ==
    chan[w][c] = "OPENED" =>
        c \in funded /\ row[w][c].signed = Sides(c)

ChannelOK(c) ==
    /\ FreshOK(c) /\ AnswerOK(c) /\ DepositOK(c)
    /\ \A w \in Wallets : EventOK(w, c) /\ OpenedOK(w, c)

IInv == TypeOK /\ \A c \in Channels : ChannelOK(c)

-----------------------------------------------------------------------------
(* Lemmas.                                                                 *)

LEMMA SideFacts ==
    ASSUME NEW c \in Channels
    PROVE  /\ FounderOf[c] \in Wallets /\ PartnerOf[c] \in Wallets
           /\ FounderOf[c] # PartnerOf[c]
           /\ Sides(c) \subseteq Wallets
           /\ \A w : w \in Sides(c) <=> w = FounderOf[c] \/ w = PartnerOf[c]
  BY OpenAssumption DEF Sides

\* A channel stays right when who signed its rows stays, and a step that is not about it
\* starts no event, sends no deposit and no message, and funds nothing for it.
LEMMA Untouched ==
    ASSUME NEW c \in Channels, ChannelOK(c),
           \A w \in Wallets : row'[w][c].signed = row[w][c].signed,
           \A w \in Wallets : HasEvent(w, c)' => HasEvent(w, c),
           \A w \in Wallets : Deposits(w, c)' => Deposits(w, c),
           \A w \in Wallets : \/ chan'[w][c] = chan[w][c]
                              \/ chan'[w][c] \notin {"none", "OPENED"},
           c \in funded' <=> c \in funded,
           \A kind \in {"Founder", "FounderSign"} : Sent(kind, c)' => Sent(kind, c)
    PROVE  ChannelOK(c)'
  <1>1. \A w \in Sides(c) : row'[w][c].signed = row[w][c].signed
    BY SideFacts
  <1>2. FreshOK(c)'
    BY SideFacts DEF ChannelOK, FreshOK
  <1>3. AnswerOK(c)'
    BY SideFacts DEF ChannelOK, AnswerOK
  <1>4. DepositOK(c)'
    BY <1>1 DEF ChannelOK, DepositOK, Signed
  <1>5. ASSUME NEW w \in Wallets PROVE EventOK(w, c)' /\ OpenedOK(w, c)'
    BY SideFacts DEF ChannelOK, EventOK, OpenedOK
  <1> QED BY <1>2, <1>3, <1>4, <1>5 DEF ChannelOK

\* Writing what one wallet keeps of one channel.
LEMMA OneEntry ==
    ASSUME NEW S, NEW f \in [Wallets -> [Channels -> S]], NEW w \in Wallets, NEW c \in Channels,
           NEW x \in S, NEW g, g = [f EXCEPT ![w][c] = x]
    PROVE  /\ g \in [Wallets -> [Channels -> S]] /\ g[w][c] = x
           /\ \A v \in Wallets, d \in Channels : v # w \/ d # c => g[v][d] = f[v][d]
  <1>1. PICK h : h = [f[w] EXCEPT ![c] = x]
    OBVIOUS
  <1>2. h \in [Channels -> S] /\ h[c] = x /\ \A d \in Channels : d # c => h[d] = f[w][d]
    BY <1>1
  <1>3. g = [f EXCEPT ![w] = h]
    BY <1>1
  <1> QED BY <1>2, <1>3

LEMMA EnvFacts ==
    ASSUME TypeOK
    PROVE  env.opens \subseteq Channels /\ env.maxFaults \in Nat
  BY OpenAssumption DEF TypeOK, Environment

LEMMA FaultOK ==
    ASSUME TypeOK, UNCHANGED env, NEW kind, NEW happens \in BOOLEAN, Fault(kind, happens)
    PROVE  env' \in Environments /\ faults' \in 0 .. env'.maxFaults
  BY EnvFacts DEF TypeOK, Fault

\* An event gets a new stage.
LEMMA StageFacts ==
    ASSUME TypeOK, NEW w \in Wallets, NEW c \in Channels,
           NEW stage \in EventStages,
           event' = [event EXCEPT ![w][c].stage = stage]
    PROVE  /\ event' \in [Wallets -> [Channels -> Events]]
           /\ event'[w][c].stage = stage
           /\ \A v \in Wallets, d \in Channels : v # w \/ d # c => event'[v][d] = event[v][d]
  <1>1. event \in [Wallets -> [Channels -> Events]]
    BY DEF TypeOK, Events
  <1>2. PICK x : x = [event[w][c] EXCEPT !.stage = stage]
    OBVIOUS
  <1>3. x \in Events /\ x.stage = stage
    <2>1. event[w][c] \in Events
      BY <1>1
    <2> QED BY <1>2, <2>1, SMTT(20) DEF Events
  <1>4. PICK g : g = [event EXCEPT ![w][c] = x]
    OBVIOUS
  <1>5. /\ g \in [Wallets -> [Channels -> Events]] /\ g[w][c] = x
        /\ \A v \in Wallets, d \in Channels : v # w \/ d # c => g[v][d] = event[v][d]
    BY <1>1, <1>3, <1>4, OneEntry
  <1>6. event' = g
    BY <1>2, <1>4
  <1> QED BY <1>3, <1>5, <1>6, ZenonT(30)

\* A wallet writes the state and the founding trade of a channel.
LEMMA SetFacts ==
    ASSUME TypeOK, NEW w \in Wallets, NEW c \in Channels,
           NEW state \in {"none", "INIT", "OPENING", "OPENED"}, NEW r \in Trades,
           SetTo(w, c, state, r)
    PROVE  /\ chan' \in [Wallets -> [Channels -> {"none", "INIT", "OPENING", "OPENED"}]]
           /\ row' \in [Wallets -> [Channels -> Trades]]
           /\ chan'[w][c] = state /\ row'[w][c] = r
           /\ \A v \in Wallets, d \in Channels : v # w \/ d # c =>
                  chan'[v][d] = chan[v][d] /\ row'[v][d] = row[v][d]
  <1>1. /\ chan \in [Wallets -> [Channels -> {"none", "INIT", "OPENING", "OPENED"}]]
        /\ row \in [Wallets -> [Channels -> Trades]]
    BY DEF TypeOK, Trades
  <1>2. PICK States : States = {"none", "INIT", "OPENING", "OPENED"}
    OBVIOUS
  <1>3. PICK g : g = [chan EXCEPT ![w][c] = state]
    OBVIOUS
  <1>4. /\ g \in [Wallets -> [Channels -> States]] /\ g[w][c] = state
        /\ \A v \in Wallets, d \in Channels : v # w \/ d # c => g[v][d] = chan[v][d]
    <2>1. chan \in [Wallets -> [Channels -> States]] /\ state \in States
      BY <1>1, <1>2
    <2> QED BY <1>3, <2>1, OneEntry
  <1>5. PICK h : h = [row EXCEPT ![w][c] = r]
    OBVIOUS
  <1>6. /\ h \in [Wallets -> [Channels -> Trades]] /\ h[w][c] = r
        /\ \A v \in Wallets, d \in Channels : v # w \/ d # c => h[v][d] = row[v][d]
    BY <1>1, <1>5, OneEntry
  <1>7. chan' = g /\ row' = h
    BY <1>3, <1>5 DEF SetTo
  <1> QED BY <1>2, <1>4, <1>6, <1>7

\* The table of transactions with one of them written.
Written(w, c, k, x) == [tx EXCEPT ![w][c][k] = x]

LEMMA TxFacts ==
    ASSUME TypeOK, NEW w \in Wallets, NEW c \in Channels, NEW k \in Kinds, NEW x \in Txs
    PROVE  /\ Written(w, c, k, x) \in [Wallets -> [Channels -> [Kinds -> Txs]]]
           /\ Written(w, c, k, x)[w][c][k] = x
           /\ \A v \in Wallets, d \in Channels, l \in Kinds :
                  v # w \/ d # c \/ l # k => Written(w, c, k, x)[v][d][l] = tx[v][d][l]
  <1>1. tx \in [Wallets -> [Channels -> [Kinds -> Txs]]]
    BY DEF TypeOK, Kinds, Txs
  <1>2. PICK y : y = [tx[w][c] EXCEPT ![k] = x]
    OBVIOUS
  <1>3. y \in [Kinds -> Txs] /\ y[k] = x /\ \A l \in Kinds : l # k => y[l] = tx[w][c][l]
    BY <1>1, <1>2
  <1>4. PICK g : g = [tx EXCEPT ![w][c] = y]
    OBVIOUS
  <1>5. /\ g \in [Wallets -> [Channels -> [Kinds -> Txs]]] /\ g[w][c] = y
        /\ \A v \in Wallets, d \in Channels : v # w \/ d # c => g[v][d] = tx[v][d]
    <2>1. PICK S : S = [Kinds -> Txs]
      OBVIOUS
    <2>2. tx \in [Wallets -> [Channels -> S]] /\ y \in S
      BY <1>1, <1>3, <2>1
    <2>3. /\ g \in [Wallets -> [Channels -> S]] /\ g[w][c] = y
          /\ \A v \in Wallets, d \in Channels : v # w \/ d # c => g[v][d] = tx[v][d]
      BY <1>4, <2>2, OneEntry
    <2> QED BY <2>1, <2>3
  <1>6. Written(w, c, k, x) = g
    BY <1>2, <1>4 DEF Written
  <1>7. g[w][c][k] = x /\ \A l \in Kinds : l # k => g[w][c][l] = tx[w][c][l]
    BY <1>3, <1>5
  <1>8. \A v \in Wallets, d \in Channels, l \in Kinds :
            v # w \/ d # c \/ l # k => g[v][d][l] = tx[v][d][l]
    BY <1>5, <1>7
  <1> QED BY <1>5, <1>6, <1>7, <1>8

LEMMA NoTxType == NoTx \in Txs /\ NoTx.status = "none"
  BY DEF NoTx, Txs

\* Sending a transaction replaces at most others that were sent.
LEMMA SubmitFacts ==
    ASSUME TypeOK, NEW w \in Wallets, NEW c \in Channels, NEW k \in Kinds, Submit(w, c, k)
    PROVE  /\ tx' \in [Wallets -> [Channels -> [Kinds -> Txs]]]
           /\ \A v \in Wallets, d \in Channels :
                  Deposits(v, d)' => Deposits(v, d) \/ (v = w /\ d = c /\ k = "deposit")
           /\ \A v \in Wallets, d \in Channels, l \in Kinds :
                  \/ tx'[v][d][l] = tx[v][d][l]
                  \/ v = w /\ d = c /\ l = k /\ tx'[v][d][l].status \in {"none", "pending"}
                  \/ tx[v][d][l].status = "pending" /\ tx'[v][d][l].status = "replaced"
  <1>1. tx \in [Wallets -> [Channels -> [Kinds -> Txs]]] /\ "deposit" \in Kinds
    BY DEF TypeOK, Kinds, Txs
  <1>2. PICK sent : sent = [status |-> "pending", price |-> Price(w, c)]
    OBVIOUS
  <1>3. sent \in Txs
    BY <1>2 DEF Txs, Price
  <1>4. PICK waiting : waiting = Pending(w)
    OBVIOUS
  <1>5. PICK mine : mine = [d \in Channels |-> [l \in Kinds |->
                        IF <<d, l>> = <<c, k>> THEN sent
                        ELSE IF <<d, l>> \in waiting THEN [tx[w][d][l] EXCEPT !.status = "replaced"]
                        ELSE tx[w][d][l]]]
    OBVIOUS
  <1>6. tx' = [tx EXCEPT ![w][c][k] = NoTx] \/ tx' = [tx EXCEPT ![w] = mine]
    BY <1>2, <1>4, <1>5 DEF Submit, Kinds
  <1>7. CASE tx' = [tx EXCEPT ![w][c][k] = NoTx]
    <2>1. /\ tx' \in [Wallets -> [Channels -> [Kinds -> Txs]]]
          /\ tx'[w][c][k] = NoTx
          /\ \A v \in Wallets, d \in Channels, l \in Kinds :
                 v # w \/ d # c \/ l # k => tx'[v][d][l] = tx[v][d][l]
      <3>1. tx' = Written(w, c, k, NoTx) /\ NoTx \in Txs
        BY <1>7, NoTxType DEF Written
      <3> QED BY <3>1, TxFacts
    <2>2. \A v \in Wallets, d \in Channels, l \in Kinds :
              tx'[v][d][l] = tx[v][d][l] \/ (v = w /\ d = c /\ l = k /\ tx'[v][d][l].status = "none")
      BY <2>1, NoTxType
    <2> QED BY <1>1, <2>1, <2>2, NoTxType DEF Deposits
  <1>8. CASE tx' = [tx EXCEPT ![w] = mine]
    <2>1. ASSUME NEW d \in Channels, NEW l \in Kinds
          PROVE  /\ mine[d][l] \in Txs
                 /\ \/ mine[d][l] = tx[w][d][l]
                    \/ d = c /\ l = k /\ mine[d][l].status = "pending"
                    \/ tx[w][d][l].status = "pending" /\ mine[d][l].status = "replaced"
      <3>1. CASE <<d, l>> = <<c, k>>
        BY <1>2, <1>3, <1>5, <3>1
      <3>2. CASE <<d, l>> # <<c, k>> /\ <<d, l>> \in waiting
        <4>1. tx[w][d][l].status = "pending"
          BY <1>4, <3>2 DEF Pending
        <4>2. mine[d][l] = [tx[w][d][l] EXCEPT !.status = "replaced"]
          BY <1>5, <3>2
        <4>3. tx[w][d][l] \in Txs
          BY <1>1
        <4> QED BY <4>1, <4>2, <4>3 DEF Txs
      <3>3. CASE <<d, l>> # <<c, k>> /\ <<d, l>> \notin waiting
        BY <1>1, <1>5, <3>3
      <3> QED BY <3>1, <3>2, <3>3
    <2>2. mine \in [Channels -> [Kinds -> Txs]]
      BY <1>5, <2>1
    <2>3. /\ tx' \in [Wallets -> [Channels -> [Kinds -> Txs]]] /\ tx'[w] = mine
          /\ \A v \in Wallets : v # w => tx'[v] = tx[v]
      BY <1>1, <1>8, <2>2
    <2>4. ASSUME NEW v \in Wallets, NEW d \in Channels, Deposits(v, d)'
          PROVE  Deposits(v, d) \/ (v = w /\ d = c /\ k = "deposit")
      BY <1>1, <2>1, <2>3, <2>4 DEF Deposits
    <2>5. ASSUME NEW v \in Wallets, NEW d \in Channels, NEW l \in Kinds
          PROVE  \/ tx'[v][d][l] = tx[v][d][l]
                 \/ v = w /\ d = c /\ l = k /\ tx'[v][d][l].status \in {"none", "pending"}
                 \/ tx[v][d][l].status = "pending" /\ tx'[v][d][l].status = "replaced"
      BY <2>1, <2>3
    <2> QED BY <2>3, <2>4, <2>5
  <1> QED BY <1>6, <1>7, <1>8

-----------------------------------------------------------------------------
(* The steps.                                                              *)

LEMMA InitInv == Init => IInv
  <1> SUFFICES ASSUME Init PROVE IInv
    OBVIOUS
  <1>1. TypeOK
    <2>1. /\ chan \in [Wallets -> [Channels -> {"none", "INIT", "OPENING", "OPENED"}]]
          /\ net = {} /\ funded = {} /\ allowance \in [Wallets -> Int]
          /\ env \in Environments
      BY DEF Init
    <2>2. row \in [Wallets -> [Channels -> Trades]]
      <3>1. [state |-> "none", signed |-> {}] \in Trades
        BY DEF Trades
      <3> QED BY <3>1 DEF Init
    <2>3. event \in [Wallets -> [Channels -> Events]]
      <3>1. [stage |-> "none", retry |-> FALSE] \in Events
        BY DEF Events, EventStages
      <3> QED BY <3>1 DEF Init
    <2>4. tx \in [Wallets -> [Channels -> [Kinds -> Txs]]]
      BY NoTxType DEF Init, Kinds
    <2>5. faults \in 0 .. env.maxFaults
      BY <2>1, OpenAssumption DEF Init, Environment
    <2> QED BY <2>1, <2>2, <2>3, <2>4, <2>5 DEF TypeOK, Trades, Events, Kinds, Txs
  <1>2. ASSUME NEW c \in Channels PROVE ChannelOK(c)
    <2>1. /\ \A w \in Wallets : chan[w][c] = "none" /\ ~ HasEvent(w, c) /\ ~ Deposits(w, c)
          /\ ~ Sent("Founder", c) /\ ~ Sent("FounderSign", c) /\ c \notin funded
      BY NoTxType DEF Init, HasEvent, Deposits, Sent
    <2> QED BY <2>1 DEF ChannelOK, FreshOK, AnswerOK, DepositOK, EventOK, OpenedOK
  <1> QED BY <1>1, <1>2 DEF IInv

LEMMA CreateStep ==
    ASSUME IInv, UNCHANGED env, NEW c \in env.opens, NEW unsent \in BOOLEAN,
           DoChannelCreate(c, unsent)
    PROVE  IInv'
  <1>1. TypeOK /\ c \in Channels /\ ChannelOK(c)
    BY EnvFacts DEF IInv
  <1>2. PICK f \in Wallets : f = FounderOf[c]
    BY <1>1, SideFacts
  <1>3. /\ Create(c, unsent) /\ chan[f][c] = "none"
        /\ UNCHANGED <<event, tx, allowance, funded>> /\ Fault("unsent", unsent)
        /\ net' = IF unsent THEN net ELSE net \cup {[kind |-> "Founder", channel |-> c]}
    BY <1>2 DEF DoChannelCreate, Create, MayCreate
  <1>4. PICK r : r = [state |-> "init", signed |-> {f}]
    OBVIOUS
  <1>5. r \in Trades
    BY <1>4 DEF Trades
  <1>6. /\ chan' \in [Wallets -> [Channels -> {"none", "INIT", "OPENING", "OPENED"}]]
        /\ row' \in [Wallets -> [Channels -> Trades]]
        /\ chan'[f][c] = "INIT" /\ row'[f][c] = r
        /\ \A v \in Wallets, d \in Channels : v # f \/ d # c =>
               chan'[v][d] = chan[v][d] /\ row'[v][d] = row[v][d]
    <2>1. SetTo(f, c, "INIT", r)
      BY <1>2, <1>3, <1>4 DEF Create
    <2>2. PICK st : st = "INIT"
      OBVIOUS
    <2>3. st \in {"none", "INIT", "OPENING", "OPENED"} /\ SetTo(f, c, st, r)
      BY <2>1, <2>2
    <2>4. /\ chan' \in [Wallets -> [Channels -> {"none", "INIT", "OPENING", "OPENED"}]]
          /\ row' \in [Wallets -> [Channels -> Trades]]
          /\ chan'[f][c] = st /\ row'[f][c] = r
          /\ \A v \in Wallets, d \in Channels : v # f \/ d # c =>
                 chan'[v][d] = chan[v][d] /\ row'[v][d] = row[v][d]
      BY <1>1, <1>5, <2>3, SetFacts
    <2> QED BY <2>2, <2>4
  <1>7. TypeOK'
    <2>1. env' \in Environments /\ faults' \in 0 .. env'.maxFaults
      BY <1>1, <1>3, FaultOK
    <2>2. net' \in SUBSET [kind : {"Founder", "FounderSign"}, channel : Channels]
      BY <1>1, <1>3 DEF TypeOK
    <2> QED BY <1>1, <1>3, <1>6, <2>1, <2>2 DEF TypeOK, Trades
  <1>8. ASSUME NEW d \in Channels PROVE ChannelOK(d)'
    <2>1. \A w \in Wallets : (HasEvent(w, d)' => HasEvent(w, d)) /\ (Deposits(w, d)' => Deposits(w, d))
      BY <1>3 DEF HasEvent, Deposits
    <2>2. CASE d # c
      <3>1. \A w \in Wallets : chan'[w][d] = chan[w][d] /\ row'[w][d] = row[w][d]
        BY <1>6, <2>2
      <3>2. \A kind \in {"Founder", "FounderSign"} : Sent(kind, d)' => Sent(kind, d)
        BY <1>3, <2>2 DEF Sent
      <3>3. (d \in funded' <=> d \in funded) /\ ChannelOK(d)
        BY <1>3 DEF IInv
      <3> QED BY <2>1, <3>1, <3>2, <3>3, Untouched
    <2>3. CASE d = c
      <3>1. /\ ~ Sent("FounderSign", c) /\ c \notin funded
            /\ \A w \in Wallets : ~ HasEvent(w, c) /\ ~ Deposits(w, c)
        BY <1>1, <1>2, <1>3 DEF ChannelOK, FreshOK
      <3>2. /\ ~ Sent("FounderSign", c)' /\ c \notin funded'
            /\ \A w \in Wallets : ~ HasEvent(w, c)' /\ ~ Deposits(w, c)'
        BY <1>3, <3>1 DEF Sent, HasEvent, Deposits
      <3>3. \A w \in Wallets : chan'[w][c] # "OPENED"
        BY <1>1, <1>6, <3>1 DEF ChannelOK, OpenedOK
      <3>4. FreshOK(c)' /\ AnswerOK(c)' /\ DepositOK(c)'
        BY <1>2, <1>6, <3>2 DEF FreshOK, AnswerOK, DepositOK
      <3>5. \A w \in Wallets : EventOK(w, c)' /\ OpenedOK(w, c)'
        BY <3>2, <3>3 DEF EventOK, OpenedOK
      <3> QED BY <2>3, <3>4, <3>5 DEF ChannelOK
    <2> QED BY <2>2, <2>3
  <1> QED BY <1>7, <1>8 DEF IInv

LEMMA FounderStep ==
    ASSUME IInv, UNCHANGED env, NEW c \in env.opens, NEW unsent \in BOOLEAN,
           HandleFounder(c, unsent)
    PROVE  IInv'
  <1>1. TypeOK /\ c \in Channels /\ ChannelOK(c)
    BY EnvFacts DEF IInv
  <1>2. PICK p \in Wallets : p = PartnerOf[c]
    BY <1>1, SideFacts
  <1>3. /\ UNCHANGED <<tx, allowance, funded>> /\ Fault("unsent", unsent)
        /\ Sent("Founder", c)
        /\ SetTo(p, c, "INIT", [state |-> "confirming", signed |-> Sides(c)])
        /\ net' \subseteq net \cup {[kind |-> "FounderSign", channel |-> c]}
        /\ UNCHANGED event \/ StartEvent(p, c)
    BY <1>2 DEF HandleFounder, StoreAnswered, Sent
  <1>4. PICK r : r = [state |-> "confirming", signed |-> Sides(c)]
    OBVIOUS
  <1>5. r \in Trades /\ r.signed = Sides(c)
    BY <1>1, <1>4, SideFacts DEF Trades
  <1>6. /\ chan' \in [Wallets -> [Channels -> {"none", "INIT", "OPENING", "OPENED"}]]
        /\ row' \in [Wallets -> [Channels -> Trades]]
        /\ chan'[p][c] = "INIT" /\ row'[p][c] = r
        /\ \A v \in Wallets, d \in Channels : v # p \/ d # c =>
               chan'[v][d] = chan[v][d] /\ row'[v][d] = row[v][d]
    <2>2. PICK st : st = "INIT"
      OBVIOUS
    <2>3. st \in {"none", "INIT", "OPENING", "OPENED"} /\ SetTo(p, c, st, r)
      BY <1>3, <1>4, <2>2
    <2>4. /\ chan' \in [Wallets -> [Channels -> {"none", "INIT", "OPENING", "OPENED"}]]
          /\ row' \in [Wallets -> [Channels -> Trades]]
          /\ chan'[p][c] = st /\ row'[p][c] = r
          /\ \A v \in Wallets, d \in Channels : v # p \/ d # c =>
                 chan'[v][d] = chan[v][d] /\ row'[v][d] = row[v][d]
      BY <1>1, <1>5, <2>3, SetFacts
    <2> QED BY <2>2, <2>4
  <1>7. /\ event' \in [Wallets -> [Channels -> Events]]
        /\ \A v \in Wallets, d \in Channels : v # p \/ d # c => event'[v][d] = event[v][d]
    <2>1. CASE UNCHANGED event
      BY <1>1, <2>1 DEF TypeOK, Events
    <2>2. CASE StartEvent(p, c)
      <3>1. PICK st : st = "prepare"
        OBVIOUS
      <3>2. st \in EventStages /\ event' = [event EXCEPT ![p][c].stage = st]
        BY <2>2, <3>1 DEF StartEvent, EventStages, Working
      <3> QED BY <1>1, <3>2, StageFacts, ZenonT(30)
    <2> QED BY <1>3, <2>1, <2>2
  <1>8. TypeOK'
    <2>1. env' \in Environments /\ faults' \in 0 .. env'.maxFaults
      BY <1>1, <1>3, FaultOK
    <2>2. net' \in SUBSET [kind : {"Founder", "FounderSign"}, channel : Channels]
      <3>1. [kind |-> "FounderSign", channel |-> c] \in [kind : {"Founder", "FounderSign"}, channel : Channels]
        BY <1>1
      <3> QED BY <1>1, <1>3, <3>1 DEF TypeOK
    <2> QED BY <1>1, <1>3, <1>6, <1>7, <2>1, <2>2 DEF TypeOK, Trades, Events
  <1>9. ASSUME NEW d \in Channels PROVE ChannelOK(d)'
    <2>1. \A w \in Wallets : Deposits(w, d)' => Deposits(w, d)
      BY <1>3 DEF Deposits
    <2>2. CASE d # c
      <3>1. \A w \in Wallets : /\ chan'[w][d] = chan[w][d] /\ row'[w][d] = row[w][d]
                               /\ HasEvent(w, d)' => HasEvent(w, d)
        BY <1>6, <1>7, <2>2 DEF HasEvent
      <3>2. \A kind \in {"Founder", "FounderSign"} : Sent(kind, d)' => Sent(kind, d)
        BY <1>3, <2>2 DEF Sent
      <3>3. (d \in funded' <=> d \in funded) /\ ChannelOK(d)
        BY <1>3 DEF IInv
      <3> QED BY <2>1, <3>1, <3>2, <3>3, Untouched
    <2>3. CASE d = c
      <3>1. FounderOf[c] # p /\ FounderOf[c] \in Wallets /\ p \in Sides(c)
        BY <1>1, <1>2, SideFacts
      <3>2. FreshOK(c)'
        BY <1>1, <1>3, <1>6, <3>1 DEF ChannelOK, FreshOK
      <3>3. AnswerOK(c)'
        BY <1>2, <1>5, <1>6 DEF AnswerOK
      <3>4. DepositOK(c)'
        <4>1. Signed(c) => Signed(c)'
          BY <1>1, <1>5, <1>6, SideFacts DEF Signed
        <4> QED BY <1>1, <1>3, <2>1, <2>3, <4>1 DEF ChannelOK, DepositOK
      <3>5. ASSUME NEW w \in Wallets PROVE EventOK(w, c)' /\ OpenedOK(w, c)'
        <4>1. CASE w = p
          BY <1>2, <1>5, <1>6, <3>1, <4>1 DEF EventOK, OpenedOK
        <4>2. CASE w # p
          BY <1>1, <1>2, <1>3, <1>5, <1>6, <1>7, <4>2 DEF ChannelOK, EventOK, OpenedOK, HasEvent
        <4> QED BY <4>1, <4>2
      <3> QED BY <2>3, <3>2, <3>3, <3>4, <3>5 DEF ChannelOK
    <2> QED BY <2>2, <2>3
  <1> QED BY <1>8, <1>9 DEF IInv

LEMMA FounderSignStep ==
    ASSUME IInv, UNCHANGED env, NEW c \in env.opens, HandleFounderSign(c)
    PROVE  IInv'
  <1>1. TypeOK /\ c \in Channels /\ ChannelOK(c)
    BY EnvFacts DEF IInv
  <1>2. PICK f \in Wallets : f = FounderOf[c]
    BY <1>1, SideFacts
  <1>3. /\ UNCHANGED <<chan, tx, allowance, funded, faults>>
        /\ Sent("FounderSign", c) /\ net' \subseteq net
        /\ row' = [row EXCEPT ![f][c].signed = Sides(c)]
        /\ event' = [event EXCEPT ![f][c].stage = "prepare"]
    BY <1>2 DEF HandleFounderSign, StartEvent, Sent
  <1>4. PICK r : r = [row[f][c] EXCEPT !.signed = Sides(c)]
    OBVIOUS
  <1>5. row \in [Wallets -> [Channels -> Trades]]
    BY <1>1 DEF TypeOK, Trades
  <1>6. r \in Trades /\ r.signed = Sides(c) /\ r.state = row[f][c].state
    <2>1. row[f][c] \in Trades /\ Sides(c) \subseteq Wallets
      BY <1>1, <1>5, SideFacts
    <2> QED BY <1>4, <2>1 DEF Trades
  <1>7. /\ row' \in [Wallets -> [Channels -> Trades]] /\ row'[f][c] = r
        /\ \A v \in Wallets, d \in Channels : v # f \/ d # c => row'[v][d] = row[v][d]
    <2>1. PICK g : g = [row EXCEPT ![f][c] = r]
      OBVIOUS
    <2>2. /\ g \in [Wallets -> [Channels -> Trades]] /\ g[f][c] = r
          /\ \A v \in Wallets, d \in Channels : v # f \/ d # c => g[v][d] = row[v][d]
      BY <1>1, <1>5, <1>6, <2>1, OneEntry
    <2>3. row' = g
      BY <1>3, <1>4, <2>1
    <2> QED BY <2>2, <2>3
  <1>8. /\ event' \in [Wallets -> [Channels -> Events]]
        /\ \A v \in Wallets, d \in Channels : v # f \/ d # c => event'[v][d] = event[v][d]
    <2>1. PICK st : st = "prepare"
      OBVIOUS
    <2>2. st \in EventStages /\ event' = [event EXCEPT ![f][c].stage = st]
      BY <1>3, <2>1 DEF EventStages, Working
    <2> QED BY <1>1, <2>2, StageFacts, ZenonT(30)
  <1>9. TypeOK'
    BY <1>1, <1>3, <1>7, <1>8 DEF TypeOK, Trades, Events
  <1>10. ASSUME NEW d \in Channels PROVE ChannelOK(d)'
    <2>1. /\ \A w \in Wallets : Deposits(w, d)' => Deposits(w, d)
          /\ \A kind \in {"Founder", "FounderSign"} : Sent(kind, d)' => Sent(kind, d)
      BY <1>3 DEF Deposits, Sent
    <2>2. CASE d # c
      <3>1. \A w \in Wallets : /\ chan'[w][d] = chan[w][d] /\ row'[w][d] = row[w][d]
                               /\ HasEvent(w, d)' => HasEvent(w, d)
        BY <1>3, <1>7, <1>8, <2>2 DEF HasEvent
      <3>3. (d \in funded' <=> d \in funded) /\ ChannelOK(d)
        BY <1>3 DEF IInv
      <3> QED BY <2>1, <3>1, <3>3, Untouched
    <2>3. CASE d = c
      <3>1. PartnerOf[c] # f /\ PartnerOf[c] \in Wallets /\ f \in Sides(c)
        BY <1>1, <1>2, SideFacts
      <3>2. FreshOK(c)'
        BY <1>1, <1>2, <1>3 DEF ChannelOK, FreshOK
      <3>3. row'[PartnerOf[c]][c] = row[PartnerOf[c]][c] /\ row[PartnerOf[c]][c].signed = Sides(c)
        BY <1>1, <1>3, <1>7, <3>1 DEF ChannelOK, AnswerOK
      <3>4. AnswerOK(c)' /\ DepositOK(c)'
        <4>1. Signed(c)'
          BY <1>1, <1>2, <1>6, <1>7, <3>3, SideFacts DEF Signed
        <4> QED BY <3>3, <4>1 DEF AnswerOK, DepositOK
      <3>5. ASSUME NEW w \in Wallets PROVE EventOK(w, c)' /\ OpenedOK(w, c)'
        <4>1. CASE w = f
          <5>1. EventOK(f, c)'
            BY <1>6, <1>7, <3>1, <3>3 DEF EventOK
          <5>2. OpenedOK(f, c)'
            BY <1>1, <1>3, <1>6, <1>7 DEF ChannelOK, OpenedOK
          <5> QED BY <4>1, <5>1, <5>2
        <4>2. CASE w # f
          BY <1>1, <1>3, <1>7, <1>8, <3>3, <4>2 DEF ChannelOK, EventOK, OpenedOK, HasEvent
        <4> QED BY <4>1, <4>2
      <3> QED BY <2>3, <3>2, <3>4, <3>5 DEF ChannelOK
    <2> QED BY <2>2, <2>3
  <1> QED BY <1>9, <1>10 DEF IInv

\* A step that signs no row and writes no channel state but OPENING, starts no
\* event and no deposit, sends no message and funds nothing.
LEMMA QuietStep ==
    ASSUME IInv, TypeOK',
           \A w \in Wallets, c \in Channels : row'[w][c].signed = row[w][c].signed,
           \A w \in Wallets, c \in Channels :
               /\ HasEvent(w, c)' => HasEvent(w, c)
               /\ Deposits(w, c)' => Deposits(w, c)
               /\ chan'[w][c] = chan[w][c] \/ chan'[w][c] = "OPENING",
           net' \subseteq net, UNCHANGED funded
    PROVE  IInv'
  <1>1. ASSUME NEW c \in Channels PROVE ChannelOK(c)'
    <2>1. ChannelOK(c)
      BY DEF IInv
    <2>2. \A kind \in {"Founder", "FounderSign"} : Sent(kind, c)' => Sent(kind, c)
      BY DEF Sent
    <2> QED BY <2>1, <2>2, Untouched
  <1> QED BY <1>1 DEF IInv

\* An event that is there goes to its next stage, and nothing else happens.
LEMMA GoToStep ==
    ASSUME IInv, NEW w \in Wallets, NEW c \in Channels,
           NEW stage \in EventStages,
           HasEvent(w, c), GoTo(w, c, stage),
           \/ UNCHANGED chan
           \/ chan' = [chan EXCEPT ![w][c] = "OPENING"],
           UNCHANGED <<row, net, tx, allowance, funded, faults, env>>
    PROVE  IInv'
  <1>1. TypeOK
    BY DEF IInv
  <1>2. /\ event' \in [Wallets -> [Channels -> Events]]
        /\ \A v \in Wallets, d \in Channels : HasEvent(v, d)' => HasEvent(v, d)
    <2>1. /\ event' \in [Wallets -> [Channels -> Events]]
          /\ \A v \in Wallets, d \in Channels : v # w \/ d # c => event'[v][d] = event[v][d]
      BY <1>1, StageFacts, ZenonT(30) DEF GoTo
    <2> QED BY <2>1 DEF HasEvent
  <1>3. /\ chan' \in [Wallets -> [Channels -> {"none", "INIT", "OPENING", "OPENED"}]]
        /\ \A v \in Wallets, d \in Channels : chan'[v][d] = chan[v][d] \/ chan'[v][d] = "OPENING"
    <2>1. chan \in [Wallets -> [Channels -> {"none", "INIT", "OPENING", "OPENED"}]]
      BY <1>1 DEF TypeOK
    <2>2. CASE UNCHANGED chan
      BY <2>1, <2>2
    <2>3. CASE chan' = [chan EXCEPT ![w][c] = "OPENING"]
      <3>1. PICK States : States = {"none", "INIT", "OPENING", "OPENED"}
        OBVIOUS
      <3>2. PICK s : s = "OPENING"
        OBVIOUS
      <3>3. s \in States /\ chan \in [Wallets -> [Channels -> States]] /\ chan' = [chan EXCEPT ![w][c] = s]
        BY <2>1, <2>3, <3>1, <3>2
      <3>4. /\ chan' \in [Wallets -> [Channels -> States]] /\ chan'[w][c] = s
            /\ \A v \in Wallets, d \in Channels : v # w \/ d # c => chan'[v][d] = chan[v][d]
        BY <3>3, OneEntry
      <3> QED BY <3>1, <3>2, <3>4
    <2> QED BY <2>2, <2>3
  <1>4. TypeOK'
    BY <1>1, <1>2, <1>3 DEF TypeOK, Events
  <1> QED BY <1>2, <1>3, <1>4, QuietStep DEF Deposits

LEMMA StageStep ==
    ASSUME IInv, UNCHANGED env, NEW w \in Wallets, NEW c \in env.opens,
           NEW unread \in BOOLEAN,
           Prepared(w, c) \/ Approve(w, c, unread) \/ Executed(w, c)
    PROVE  IInv'
  <1>1. TypeOK /\ c \in Channels
    BY EnvFacts DEF IInv
  <1>2. HasEvent(w, c)
    BY DEF Prepared, Approve, Executed, InStage, HasEvent
  <1>3. CASE Prepared(w, c)
    <2>1. PICK st : st = "execute"
      OBVIOUS
    <2>2. st \in EventStages /\ GoTo(w, c, st)
      BY <1>3, <2>1 DEF Prepared, EventStages, Working
    <2>3. /\ UNCHANGED chan \/ chan' = [chan EXCEPT ![w][c] = "OPENING"]
          /\ UNCHANGED <<row, net, tx, allowance, funded, faults, env>>
      BY <1>3 DEF Prepared
    <2> QED BY <1>1, <1>2, <2>2, <2>3, GoToStep
  <1>4. CASE Executed(w, c)
    <2>1. PICK st : st = "terminate"
      OBVIOUS
    <2>2. st \in EventStages /\ GoTo(w, c, st)
      BY <1>4, <2>1 DEF Executed, EventStages, Working
    <2>3. UNCHANGED chan /\ UNCHANGED <<row, net, tx, allowance, funded, faults, env>>
      BY <1>4 DEF Executed
    <2> QED BY <1>1, <1>2, <2>2, <2>3, GoToStep
  <1>5. CASE Approve(w, c, unread)
    <2>1. /\ Submit(w, c, "approve") /\ Fault("unread", unread)
          /\ UNCHANGED <<chan, row, net, event, allowance, funded, env>>
      BY <1>5 DEF Approve
    <2>2. PICK k \in Kinds : k = "approve"
      BY DEF Kinds
    <2>3. /\ tx' \in [Wallets -> [Channels -> [Kinds -> Txs]]]
          /\ \A v \in Wallets, d \in Channels :
                 Deposits(v, d)' => Deposits(v, d) \/ (v = w /\ d = c /\ k = "deposit")
      BY <1>1, <2>1, <2>2, SubmitFacts
    <2>4. TypeOK'
      <3>1. env' \in Environments /\ faults' \in 0 .. env'.maxFaults
        BY <1>1, <2>1, FaultOK
      <3> QED BY <1>1, <2>1, <2>3, <3>1 DEF TypeOK, Kinds, Txs
    <2>5. \A v \in Wallets, d \in Channels :
              /\ HasEvent(v, d)' => HasEvent(v, d)
              /\ Deposits(v, d)' => Deposits(v, d)
              /\ chan'[v][d] = chan[v][d]
      BY <2>1, <2>2, <2>3 DEF HasEvent
    <2> QED BY <2>1, <2>4, <2>5, QuietStep
  <1> QED BY <1>3, <1>4, <1>5

LEMMA TimeoutStep ==
    ASSUME IInv, UNCHANGED env, NEW w \in Wallets, NEW c \in env.opens, Timeout(w, c)
    PROVE  IInv'
  <1>1. TypeOK /\ c \in Channels
    BY EnvFacts DEF IInv
  <1>2. event \in [Wallets -> [Channels -> Events]]
    BY <1>1 DEF TypeOK, Events
  <1>3. PICK x : x = IF event[w][c].retry THEN [event[w][c] EXCEPT !.stage = "error"]
                     ELSE [stage |-> "prepare", retry |-> TRUE]
    OBVIOUS
  <1>4. x \in Events
    <2>1. event[w][c] \in Events
      BY <1>1, <1>2
    <2> QED BY <1>3, <2>1 DEF Events, EventStages, Working
  <1>5. event' = [event EXCEPT ![w][c] = x]
    BY <1>3 DEF Timeout
  <1>6. /\ event' \in [Wallets -> [Channels -> Events]]
        /\ \A v \in Wallets, d \in Channels : v # w \/ d # c => event'[v][d] = event[v][d]
    BY <1>1, <1>2, <1>4, <1>5, OneEntry
  <1>7. HasEvent(w, c)
    BY DEF Timeout, HasEvent, Working
  <1>8. env' \in Environments /\ faults' \in 0 .. env'.maxFaults
    <2>1. Fault("timeout", TRUE)
      BY DEF Timeout
    <2> QED BY <1>1, <2>1, FaultOK
  <1>9. TypeOK'
    BY <1>1, <1>6, <1>8 DEF TypeOK, Timeout, Events
  <1>10. \A v \in Wallets, d \in Channels :
             /\ HasEvent(v, d)' => HasEvent(v, d)
             /\ Deposits(v, d)' => Deposits(v, d)
             /\ chan'[v][d] = chan[v][d]
    BY <1>6, <1>7 DEF HasEvent, Deposits, Timeout
  <1> QED BY <1>9, <1>10, QuietStep DEF Timeout

LEMMA LoseStep ==
    ASSUME IInv, UNCHANGED env, NEW m, Lose(m)
    PROVE  IInv'
  <1>1. TypeOK
    BY DEF IInv
  <1>2. env' \in Environments /\ faults' \in 0 .. env'.maxFaults
    <2>1. Fault("lost", TRUE)
      BY DEF Lose
    <2> QED BY <1>1, <2>1, FaultOK
  <1>3. TypeOK'
    BY <1>1, <1>2 DEF TypeOK, Lose, wallet
  <1>4. \A v \in Wallets, d \in Channels :
             /\ HasEvent(v, d)' => HasEvent(v, d)
             /\ Deposits(v, d)' => Deposits(v, d)
             /\ chan'[v][d] = chan[v][d]
    BY DEF HasEvent, Deposits, Lose, wallet
  <1> QED BY <1>3, <1>4, QuietStep DEF Lose, wallet

LEMMA CrashStep ==
    ASSUME IInv, UNCHANGED env, NEW w \in Wallets, Crash(w)
    PROVE  IInv'
  <1>1. TypeOK /\ event \in [Wallets -> [Channels -> Events]]
    BY DEF IInv, TypeOK, Events
  <1>2. PICK g : g = [c \in Channels |->
                        IF event[w][c].stage \in Working \cup {"confirm"}
                        THEN [event[w][c] EXCEPT !.stage = "none"]
                        ELSE event[w][c]]
    OBVIOUS
  <1>3. ASSUME NEW c \in Channels
        PROVE  g[c] \in Events /\ (g[c].stage # "none" => event[w][c].stage # "none")
    <2>1. event[w][c] \in Events
      BY <1>1
    <2>2. g[c] = IF event[w][c].stage \in Working \cup {"confirm"}
                 THEN [event[w][c] EXCEPT !.stage = "none"]
                 ELSE event[w][c]
      BY <1>2
    <2> QED BY <2>1, <2>2 DEF Events, EventStages
  <1>4. g \in [Channels -> Events]
    BY <1>2, <1>3
  <1>5. event' = [event EXCEPT ![w] = g]
    BY <1>2 DEF Crash
  <1>6. /\ event' \in [Wallets -> [Channels -> Events]] /\ event'[w] = g
        /\ \A v \in Wallets : v # w => event'[v] = event[v]
    BY <1>1, <1>4, <1>5
  <1>7. env' \in Environments /\ faults' \in 0 .. env'.maxFaults
    <2>1. Fault("crash", TRUE)
      BY DEF Crash
    <2> QED BY <1>1, <2>1, FaultOK
  <1>8. TypeOK'
    BY <1>1, <1>6, <1>7 DEF TypeOK, Crash, Events
  <1>9. \A v \in Wallets, d \in Channels :
             /\ HasEvent(v, d)' => HasEvent(v, d)
             /\ Deposits(v, d)' => Deposits(v, d)
             /\ chan'[v][d] = chan[v][d]
    BY <1>3, <1>6 DEF HasEvent, Deposits, Crash
  <1> QED BY <1>8, <1>9, QuietStep DEF Crash

\* The deposit of a channel both have signed is sent, or enters the contract.
LEMMA DepositStep ==
    ASSUME IInv, TypeOK', UNCHANGED <<chan, row, net, event>>, NEW c \in Channels,
           Signed(c), chan[FounderOf[c]][c] # "none",
           \A v \in Wallets, d \in Channels : Deposits(v, d)' => Deposits(v, d) \/ d = c,
           \A d \in Channels : d # c => (d \in funded' <=> d \in funded),
           funded \subseteq funded'
    PROVE  IInv'
  <1>1. ASSUME NEW d \in Channels PROVE ChannelOK(d)'
    <2>1. ChannelOK(d) /\ \A v \in Wallets : HasEvent(v, d)' => HasEvent(v, d)
      BY DEF IInv, HasEvent
    <2>2. \A kind \in {"Founder", "FounderSign"} : Sent(kind, d)' => Sent(kind, d)
      BY DEF Sent
    <2>3. CASE d # c
      BY <2>1, <2>2, <2>3, Untouched
    <2>4. CASE d = c
      <3>1. FreshOK(c)' /\ AnswerOK(c)' /\ DepositOK(c)'
        BY <2>1, <2>2, <2>4 DEF FreshOK, AnswerOK, DepositOK, Signed, ChannelOK
      <3>2. \A w \in Wallets : EventOK(w, c)' /\ OpenedOK(w, c)'
        BY <2>1, <2>4 DEF ChannelOK, EventOK, OpenedOK
      <3> QED BY <2>4, <3>1, <3>2 DEF ChannelOK
    <2> QED BY <2>3, <2>4
  <1> QED BY <1>1 DEF IInv

LEMMA SendDepositStep ==
    ASSUME IInv, UNCHANGED env, NEW w \in Wallets, NEW c \in env.opens, SendDeposit(w, c)
    PROVE  IInv'
  <1>1. TypeOK /\ c \in Channels /\ ChannelOK(c)
    BY EnvFacts DEF IInv
  <1>2. /\ UNCHANGED <<chan, row, net, event, allowance, funded, faults>>
        /\ Submit(w, c, "deposit") \/ tx' = Written(w, c, "deposit", NoTx)
        /\ HasEvent(w, c) /\ w = FounderOf[c]
    BY DEF SendDeposit, InStage, HasEvent, Written
  <1>3. Signed(c) /\ chan[FounderOf[c]][c] # "none"
    BY <1>1, <1>2, SideFacts DEF ChannelOK, EventOK, FreshOK, Signed
  <1>4. PICK k \in Kinds : k = "deposit"
    BY DEF Kinds
  <1>5. /\ tx' \in [Wallets -> [Channels -> [Kinds -> Txs]]]
        /\ \A v \in Wallets, d \in Channels : Deposits(v, d)' => Deposits(v, d) \/ d = c
    <2>1. CASE Submit(w, c, k)
      <3>1. /\ tx' \in [Wallets -> [Channels -> [Kinds -> Txs]]]
            /\ \A v \in Wallets, d \in Channels :
                   Deposits(v, d)' => Deposits(v, d) \/ (v = w /\ d = c /\ k = "deposit")
        BY <1>1, <2>1, SubmitFacts
      <3> QED BY <3>1
    <2>2. CASE tx' = Written(w, c, k, NoTx)
      <3>1. /\ tx' \in [Wallets -> [Channels -> [Kinds -> Txs]]]
            /\ \A v \in Wallets, d \in Channels, l \in Kinds :
                   v # w \/ d # c \/ l # k => tx'[v][d][l] = tx[v][d][l]
        BY <1>1, <2>2, NoTxType, TxFacts
      <3> QED BY <1>4, <3>1 DEF Deposits
    <2> QED BY <1>2, <1>4, <2>1, <2>2
  <1>6. TypeOK'
    BY <1>1, <1>2, <1>5 DEF TypeOK, Kinds, Txs
  <1> QED BY <1>1, <1>2, <1>3, <1>5, <1>6, DepositStep

LEMMA OpenedStep ==
    ASSUME IInv, UNCHANGED env, NEW w \in Wallets, NEW c \in env.opens, Opened(w, c)
    PROVE  IInv'
  <1>1. TypeOK /\ c \in Channels /\ ChannelOK(c)
    BY EnvFacts DEF IInv
  <1>2. /\ UNCHANGED <<row, net, tx, allowance, funded, faults>> /\ c \in funded
        /\ chan' = [chan EXCEPT ![w][c] = "OPENED"]
        /\ GoTo(w, c, "confirm")
        /\ HasEvent(w, c)
    BY DEF Opened, InStage, HasEvent
  <1>3. row[w][c].signed = Sides(c)
    BY <1>1, <1>2 DEF ChannelOK, EventOK
  <1>4. PICK States : States = {"none", "INIT", "OPENING", "OPENED"}
    OBVIOUS
  <1>5. /\ chan' \in [Wallets -> [Channels -> States]]
        /\ chan'[w][c] = "OPENED"
        /\ \A v \in Wallets, d \in Channels : v # w \/ d # c => chan'[v][d] = chan[v][d]
    <2>1. PICK s : s = "OPENED"
      OBVIOUS
    <2>2. s \in States /\ chan \in [Wallets -> [Channels -> States]] /\ chan' = [chan EXCEPT ![w][c] = s]
      BY <1>1, <1>2, <1>4, <2>1 DEF TypeOK
    <2>3. /\ chan' \in [Wallets -> [Channels -> States]] /\ chan'[w][c] = s
          /\ \A v \in Wallets, d \in Channels : v # w \/ d # c => chan'[v][d] = chan[v][d]
      BY <1>1, <2>2, OneEntry
    <2> QED BY <2>1, <2>3
  <1>6. /\ event' \in [Wallets -> [Channels -> Events]]
        /\ \A v \in Wallets, d \in Channels : HasEvent(v, d)' => HasEvent(v, d)
    <2>1. PICK st : st = "confirm"
      OBVIOUS
    <2>2. st \in EventStages /\ event' = [event EXCEPT ![w][c].stage = st]
      BY <1>2, <2>1 DEF GoTo, EventStages
    <2>3. /\ event' \in [Wallets -> [Channels -> Events]]
          /\ \A v \in Wallets, d \in Channels : v # w \/ d # c => event'[v][d] = event[v][d]
      BY <1>1, <2>2, StageFacts, ZenonT(30)
    <2> QED BY <1>2, <2>3 DEF HasEvent
  <1>7. TypeOK'
    BY <1>1, <1>2, <1>4, <1>5, <1>6 DEF TypeOK, Events
  <1>8. ASSUME NEW d \in Channels PROVE ChannelOK(d)'
    <2>1. /\ \A v \in Wallets : Deposits(v, d)' => Deposits(v, d)
          /\ \A v \in Wallets : HasEvent(v, d)' => HasEvent(v, d)
          /\ \A kind \in {"Founder", "FounderSign"} : Sent(kind, d)' => Sent(kind, d)
          /\ d \in funded' <=> d \in funded
          /\ ChannelOK(d)
      BY <1>2, <1>6 DEF Deposits, Sent, IInv
    <2>2. CASE d # c
      <3>1. \A v \in Wallets : chan'[v][d] = chan[v][d] /\ row'[v][d].signed = row[v][d].signed
        BY <1>2, <1>5, <2>2
      <3> QED BY <2>1, <3>1, Untouched
    <2>3. CASE d = c
      <3>1. \A v \in Wallets : chan'[v][c] = "none" => chan[v][c] = "none"
        BY <1>1, <1>5
      <3>2. FreshOK(c)'
        BY <1>1, <2>1, <2>3, <3>1, SideFacts DEF ChannelOK, FreshOK
      <3>3. AnswerOK(c)' /\ DepositOK(c)'
        BY <1>1, <1>2, <2>1, <2>3, SideFacts DEF ChannelOK, AnswerOK, DepositOK, Signed
      <3>4. ASSUME NEW v \in Wallets PROVE EventOK(v, c)' /\ OpenedOK(v, c)'
        <4>1. EventOK(v, c)'
          BY <1>1, <1>2, <2>1, <2>3, SideFacts DEF ChannelOK, EventOK
        <4>2. OpenedOK(v, c)'
          BY <1>1, <1>2, <1>3, <1>5 DEF ChannelOK, OpenedOK
        <4> QED BY <4>1, <4>2
      <3> QED BY <2>3, <3>2, <3>3, <3>4 DEF ChannelOK
    <2> QED BY <2>2, <2>3
  <1> QED BY <1>7, <1>8 DEF IInv

\* What the second write of terminate changes of the table.
LEMMA ConfirmFacts ==
    ASSUME TypeOK, NEW w \in Wallets, NEW c \in Channels, Confirm(w, c)
    PROVE  /\ row' \in [Wallets -> [Channels -> Trades]]
           /\ row'[w][c].state = "confirmed" /\ row'[w][c].signed = row[w][c].signed
           /\ \A v \in Wallets, d \in Channels : v # w \/ d # c => row'[v][d] = row[v][d]
  <1>1. row \in [Wallets -> [Channels -> Trades]]
    BY DEF TypeOK, Trades
  <1>2. PICK r : r = [row[w][c] EXCEPT !.state = "confirmed"]
    OBVIOUS
  <1>3. r \in Trades /\ r.state = "confirmed" /\ r.signed = row[w][c].signed
    <2>1. row[w][c] \in Trades
      BY <1>1
    <2> QED BY <1>2, <2>1 DEF Trades
  <1>4. PICK g : g = [row EXCEPT ![w][c] = r]
    OBVIOUS
  <1>5. /\ g \in [Wallets -> [Channels -> Trades]] /\ g[w][c] = r
        /\ \A v \in Wallets, d \in Channels : v # w \/ d # c => g[v][d] = row[v][d]
    BY <1>1, <1>3, <1>4, OneEntry
  <1>6. row' = g
    BY <1>2, <1>4 DEF Confirm
  <1> QED BY <1>3, <1>5, <1>6

LEMMA ConfirmStep ==
    ASSUME IInv, UNCHANGED env, NEW w \in Wallets, NEW c \in env.opens, Confirm(w, c)
    PROVE  IInv'
  <1>1. TypeOK /\ c \in Channels
    BY EnvFacts DEF IInv
  <1>2. /\ UNCHANGED <<chan, net, tx, allowance, funded, faults>>
        /\ GoTo(w, c, "complete") /\ HasEvent(w, c)
    BY DEF Confirm, InStage, HasEvent
  <1>3. /\ row' \in [Wallets -> [Channels -> Trades]]
        /\ \A v \in Wallets, d \in Channels : row'[v][d].signed = row[v][d].signed
    BY <1>1, ConfirmFacts
  <1>4. /\ event' \in [Wallets -> [Channels -> Events]]
        /\ \A v \in Wallets, d \in Channels : v # w \/ d # c => event'[v][d] = event[v][d]
    <2>1. PICK st : st = "complete"
      OBVIOUS
    <2>2. st \in EventStages /\ event' = [event EXCEPT ![w][c].stage = st]
      BY <1>2, <2>1 DEF GoTo, EventStages
    <2> QED BY <1>1, <2>2, StageFacts, ZenonT(30)
  <1>5. TypeOK'
    BY <1>1, <1>2, <1>3, <1>4 DEF TypeOK, Trades, Events
  <1>6. \A v \in Wallets, d \in Channels :
            /\ HasEvent(v, d)' => HasEvent(v, d)
            /\ Deposits(v, d)' => Deposits(v, d)
            /\ chan'[v][d] = chan[v][d]
    BY <1>2, <1>4 DEF HasEvent, Deposits
  <1> QED BY <1>2, <1>3, <1>5, <1>6, QuietStep

LEMMA MineStep ==
    ASSUME IInv, UNCHANGED env, NEW w \in Wallets, NEW c \in env.opens, NEW k \in Kinds,
           NEW fails \in BOOLEAN, Mine(w, c, k, fails)
    PROVE  IInv'
  <1>1. TypeOK /\ c \in Channels /\ ChannelOK(c)
    BY EnvFacts DEF IInv
  <1>2. PICK works \in BOOLEAN :
            works = (/\ ~fails
                     /\ k = "deposit" =>
                          c \notin funded /\ Affords(c) /\ \A v \in Sides(c) : Covers(v, c))
    OBVIOUS
  <1>3. /\ tx[w][c][k].status = "pending"
        /\ tx' = [tx EXCEPT ![w][c][k].status = IF works THEN "success" ELSE "failed"]
        /\ \/ UNCHANGED allowance
           \/ allowance' = [allowance EXCEPT ![w] = @ + Deposit[c][w]]
           \/ allowance' = [v \in Wallets |->
                                allowance[v] - IF v \in Sides(c) THEN Deposit[c][v] ELSE 0]
        /\ funded' = IF works /\ k = "deposit" THEN funded \cup {c} ELSE funded
        /\ Fault("txfails", fails)
        /\ UNCHANGED <<chan, row, net, event>>
    BY <1>2 DEF Mine
  <1>4. tx \in [Wallets -> [Channels -> [Kinds -> Txs]]]
    BY <1>1 DEF TypeOK, Kinds, Txs
  <1>5. PICK x : x = [tx[w][c][k] EXCEPT !.status = IF works THEN "success" ELSE "failed"]
    OBVIOUS
  <1>6. x \in Txs
    <2>1. tx[w][c][k] \in Txs
      BY <1>1, <1>4
    <2> QED BY <1>5, <2>1 DEF Txs
  <1>7. tx' = Written(w, c, k, x)
    BY <1>3, <1>5 DEF Written
  <1>8. /\ tx' \in [Wallets -> [Channels -> [Kinds -> Txs]]]
        /\ \A v \in Wallets, d \in Channels, l \in Kinds :
               v # w \/ d # c \/ l # k => tx'[v][d][l] = tx[v][d][l]
    BY <1>1, <1>6, <1>7, TxFacts
  <1>9. \A v \in Wallets, d \in Channels : Deposits(v, d)' => Deposits(v, d)
    <2>1. "deposit" \in Kinds
      BY DEF Kinds
    <2>2. ASSUME NEW v \in Wallets, NEW d \in Channels, Deposits(v, d)' PROVE Deposits(v, d)
      <3>1. CASE v = w /\ d = c /\ k = "deposit"
        BY <1>3, <3>1 DEF Deposits
      <3>2. CASE ~ (v = w /\ d = c /\ k = "deposit")
        BY <1>8, <2>1, <2>2, <3>2 DEF Deposits
      <3> QED BY <3>1, <3>2
    <2> QED BY <2>2
  <1>10. allowance' \in [Wallets -> Int]
    <2>1. \A v \in Wallets : Deposit[c][v] \in Nat
      BY <1>1, OpenAssumption
    <2>2. allowance \in [Wallets -> Int]
      BY <1>1 DEF TypeOK
    <2> QED BY <1>3, <2>1, <2>2
  <1>11. TypeOK'
    <2>1. env' \in Environments /\ faults' \in 0 .. env'.maxFaults
      BY <1>1, <1>3, FaultOK
    <2> QED BY <1>1, <1>3, <1>8, <1>10, <2>1 DEF TypeOK, Kinds, Txs
  <1>12. CASE k = "deposit"
    <2>1. Deposits(w, c)
      BY <1>3, <1>12 DEF Deposits
    <2>2. Signed(c) /\ chan[FounderOf[c]][c] # "none"
      BY <1>1, <2>1 DEF ChannelOK, DepositOK, FreshOK
    <2>3. /\ \A d \in Channels : d # c => (d \in funded' <=> d \in funded)
          /\ funded \subseteq funded'
      BY <1>3
    <2> QED BY <1>1, <1>3, <1>9, <1>11, <2>2, <2>3, DepositStep
  <1>13. CASE k # "deposit"
    <2>1. \A v \in Wallets, d \in Channels :
              (HasEvent(v, d)' => HasEvent(v, d)) /\ chan'[v][d] = chan[v][d]
      BY <1>3 DEF HasEvent
    <2> QED BY <1>3, <1>9, <1>11, <1>13, <2>1, QuietStep
  <1> QED BY <1>12, <1>13

LEMMA NextInv == IInv /\ [Next]_vars => IInv'
  <1> SUFFICES ASSUME IInv, [Next]_vars PROVE IInv'
    OBVIOUS
  <1>1. CASE UNCHANGED vars
    <2>1. TypeOK'
      BY <1>1 DEF IInv, TypeOK, vars, system
    <2>2. \A v \in Wallets, d \in Channels :
              /\ HasEvent(v, d)' => HasEvent(v, d)
              /\ Deposits(v, d)' => Deposits(v, d)
              /\ chan'[v][d] = chan[v][d]
      BY <1>1 DEF vars, system, HasEvent, Deposits
    <2> QED BY <1>1, <2>1, <2>2, QuietStep DEF vars, system
  <1>2. ASSUME Next PROVE IInv'
    <2> UNCHANGED env
      BY <1>2 DEF Next
    <2>1. ASSUME NEW c \in env.opens, NEW unsent \in BOOLEAN, DoChannelCreate(c, unsent)
          PROVE  IInv'
      BY <2>1, CreateStep
    <2>2. ASSUME NEW c \in env.opens, Message(c) PROVE IInv'
      BY <2>2, FounderStep, FounderSignStep DEF Message
    <2>3. ASSUME NEW m \in net, Lose(m) PROVE IInv'
      BY <2>3, LoseStep
    <2>4. ASSUME NEW w \in Wallets, NEW c \in env.opens, Stage(w, c) PROVE IInv'
      <3>1. ASSUME NEW unread \in BOOLEAN,
                   Prepared(w, c) \/ Approve(w, c, unread) \/ Executed(w, c)
            PROVE  IInv'
        BY <3>1, StageStep
      <3> QED BY <2>4, <3>1, SendDepositStep, OpenedStep, ConfirmStep, TimeoutStep DEF Stage
    <2>5. ASSUME NEW w \in Wallets, NEW c \in env.opens, NEW k \in Kinds, NEW fails \in BOOLEAN,
                 Mine(w, c, k, fails)
          PROVE  IInv'
      BY <2>5, MineStep
    <2>6. ASSUME NEW w \in Wallets, Crash(w) PROVE IInv'
      BY <2>6, CrashStep
    <2> QED BY <1>2, <2>1, <2>2, <2>3, <2>4, <2>5, <2>6 DEF Next, Kinds
  <1> QED BY <1>1, <1>2

-----------------------------------------------------------------------------
(* What a wallet puts into a set of channels: the sum of the library, which  *)
(* takes one channel after the other off the set.                           *)

Put(w, S) == MapThenSumSet(LAMBDA c : Deposit[c][w], S)

\* The channel that is taken off first.
First(s) == CHOOSE c \in s : TRUE

\* f gives the sums of all parts of S.
SumsUp(w, f, S) ==
    f = [s \in SUBSET S |-> IF s = {} THEN 0 ELSE Deposit[First(s)][w] + f[s \ {First(s)}]]

LEMMA PutIs ==
    ASSUME NEW w, NEW S
    PROVE  Put(w, S) = (CHOOSE f : SumsUp(w, f, S))[S]
  BY DEF Put, MapThenSumSet, MapThenFoldSet, SumsUp, First

LEMMA FirstFacts ==
    ASSUME NEW s, s # {}
    PROVE  First(s) \in s
  BY DEF First

LEMMA DepositType ==
    ASSUME NEW w \in Wallets, NEW c \in Channels
    PROVE  Deposit[c][w] \in Nat
  BY OpenAssumption

\* Among sets of channels there is one without a smaller one: the principle
\* the proofs by induction below rest on.
LEMMA Smallest ==
    ASSUME NEW B \in SUBSET SUBSET Channels, B # {}
    PROVE  \E S \in B : \A T \in SUBSET S : T # S => T \notin B
  <1>1. PICK R : R = StrictSubsetOrdering(Channels)
    OBVIOUS
  <1>2. IsWellFoundedOn(R, SUBSET Channels)
    BY <1>1, ChannelsFinite, FS_StrictSubsetOrderingWellFounded, FS_FiniteSubsetsOfFinite
  <1>3. PICK S \in B : \A T \in B : ~ (<<T, S>> \in R)
    BY <1>2, WFMin
  <1>4. ASSUME NEW T \in SUBSET S, T # S, T \in B PROVE FALSE
    <2>1. <<T, S>> \in R
      BY <1>1, <1>4 DEF StrictSubsetOrdering
    <2> QED BY <1>3, <1>4, <2>1
  <1> QED BY <1>3, <1>4

\* The sums of parts do not depend on the set they are taken for.
LEMMA SumsUnique ==
    ASSUME NEW w, NEW S \in SUBSET Channels, NEW T \in SUBSET Channels,
           NEW f, NEW g, SumsUp(w, f, S), SumsUp(w, g, T)
    PROVE  \A s \in (SUBSET S) \cap (SUBSET T) : f[s] = g[s]
  <1>1. PICK B : B = {s \in (SUBSET S) \cap (SUBSET T) : f[s] # g[s]}
    OBVIOUS
  <1>2. ASSUME B # {} PROVE FALSE
    <2>1. PICK s \in B : \A r \in SUBSET s : r # s => r \notin B
      <3>1. B \in SUBSET SUBSET Channels
        BY <1>1
      <3> QED BY <1>2, <3>1, Smallest
    <2>2. s \in SUBSET S /\ s \in SUBSET T /\ f[s] # g[s]
      BY <1>1
    <2>3. f[s] = IF s = {} THEN 0 ELSE Deposit[First(s)][w] + f[s \ {First(s)}]
      BY <2>2 DEF SumsUp
    <2>4. g[s] = IF s = {} THEN 0 ELSE Deposit[First(s)][w] + g[s \ {First(s)}]
      BY <2>2 DEF SumsUp
    <2>5. s # {}
      BY <2>2, <2>3, <2>4
    <2>6. PICK r : r = s \ {First(s)}
      OBVIOUS
    <2>7. r \in SUBSET s /\ r # s
      BY <2>5, <2>6, FirstFacts
    <2>8. f[r] = g[r]
      BY <1>1, <2>1, <2>2, <2>7
    <2> QED BY <2>2, <2>3, <2>4, <2>5, <2>6, <2>8
  <1> QED BY <1>1, <1>2

\* Every set of channels has sums.
LEMMA SumsExist ==
    ASSUME NEW w
    PROVE  \A S \in SUBSET Channels : \E f : SumsUp(w, f, S)
  <1>1. PICK B : B = {S \in SUBSET Channels : ~ \E f : SumsUp(w, f, S)}
    OBVIOUS
  <1>2. ASSUME B # {} PROVE FALSE
    <2>1. PICK S \in B : \A T \in SUBSET S : T # S => T \notin B
      <3>1. B \in SUBSET SUBSET Channels
        BY <1>1
      <3> QED BY <1>2, <3>1, Smallest
    <2>2. S \in SUBSET Channels /\ ~ \E f : SumsUp(w, f, S)
      BY <1>1
    <2>3. \A T \in SUBSET S : T # S => SumsUp(w, CHOOSE f : SumsUp(w, f, T), T)
      <3>1. \A T \in SUBSET S : T # S => \E f : SumsUp(w, f, T)
        BY <1>1, <2>1, <2>2
      <3> QED BY <3>1
    <2> DEFINE V(T) == (CHOOSE f : SumsUp(w, f, T))[T]
    <2>4. PICK f : f = [T \in SUBSET S |-> IF T = {} THEN 0 ELSE Deposit[First(T)][w] + V(T \ {First(T)})]
      OBVIOUS
    <2>5. ASSUME NEW T \in SUBSET S, T # S PROVE f[T] = V(T)
      <3>1. PICK g : g = CHOOSE h : SumsUp(w, h, T)
        OBVIOUS
      <3>2. SumsUp(w, g, T)
        BY <2>3, <2>5, <3>1
      <3>3. V(T) = g[T]
        BY <3>1
      <3>4. g[T] = IF T = {} THEN 0 ELSE Deposit[First(T)][w] + g[T \ {First(T)}]
        BY <3>2 DEF SumsUp
      <3>5. ASSUME T # {} PROVE g[T \ {First(T)}] = V(T \ {First(T)})
        <4>1. PICK R : R = T \ {First(T)}
          OBVIOUS
        <4>2. R \in SUBSET T /\ R \in SUBSET S /\ R # S
          BY <2>5, <3>5, <4>1, FirstFacts
        <4>3. PICK h : h = CHOOSE k : SumsUp(w, k, R)
          OBVIOUS
        <4>4. SumsUp(w, h, R)
          BY <2>3, <4>2, <4>3
        <4>5. g[R] = h[R]
          <5>1. T \in SUBSET Channels /\ R \in SUBSET Channels /\ R \in (SUBSET T) \cap (SUBSET R)
            BY <2>2, <4>2
          <5> QED BY <3>2, <4>4, <5>1, SumsUnique
        <4> QED BY <4>1, <4>3, <4>5
      <3>6. f[T] = IF T = {} THEN 0 ELSE Deposit[First(T)][w] + V(T \ {First(T)})
        BY <2>4
      <3> HIDE DEF V
      <3> QED BY <3>3, <3>4, <3>5, <3>6
    <2>6. ASSUME NEW T \in SUBSET S, T # {}
          PROVE  f[T] = Deposit[First(T)][w] + f[T \ {First(T)}]
      <3>1. PICK R : R = T \ {First(T)}
        OBVIOUS
      <3>2. R \in SUBSET S /\ R # S
        BY <2>6, <3>1, FirstFacts
      <3>3. f[R] = V(R)
        BY <2>5, <3>2
      <3>4. f[T] = Deposit[First(T)][w] + V(R)
        BY <2>4, <2>6, <3>1
      <3> HIDE DEF V
      <3> QED BY <3>1, <3>3, <3>4
    <2>7. f = [T \in SUBSET S |-> IF T = {} THEN 0 ELSE Deposit[First(T)][w] + f[T \ {First(T)}]]
      <3>1. ASSUME NEW T \in SUBSET S
            PROVE  f[T] = IF T = {} THEN 0 ELSE Deposit[First(T)][w] + f[T \ {First(T)}]
        <4>1. CASE T = {}
          BY <2>4, <4>1
        <4>2. CASE T # {}
          BY <2>6, <4>2
        <4> QED BY <4>1, <4>2
      <3>2. DOMAIN f = SUBSET S /\ f = [T \in DOMAIN f |-> f[T]]
        BY <2>4
      <3> HIDE DEF V
      <3> QED BY <3>1, <3>2
    <2>8. SumsUp(w, f, S)
      BY <2>7 DEF SumsUp
    <2> QED BY <2>2, <2>8
  <1> QED BY <1>1, <1>2

LEMMA PutNone == \A w : Put(w, {}) = 0
  <1> TAKE w
  <1>1. PICK f : f = CHOOSE g : SumsUp(w, g, {})
    OBVIOUS
  <1>2. SumsUp(w, f, {})
    BY <1>1, SumsExist
  <1>3. f[{}] = 0
    BY <1>2 DEF SumsUp
  <1> QED BY <1>1, <1>3, PutIs

LEMMA PutFirst ==
    ASSUME NEW w, NEW S \in SUBSET Channels, S # {}
    PROVE  Put(w, S) = Deposit[First(S)][w] + Put(w, S \ {First(S)})
  <1>1. PICK f : f = CHOOSE h : SumsUp(w, h, S)
    OBVIOUS
  <1>2. SumsUp(w, f, S)
    BY <1>1, SumsExist
  <1>3. PICK R : R = S \ {First(S)}
    OBVIOUS
  <1>4. R \in SUBSET Channels
    BY <1>3
  <1>5. PICK g : g = CHOOSE h : SumsUp(w, h, R)
    OBVIOUS
  <1>6. SumsUp(w, g, R)
    BY <1>4, <1>5, SumsExist
  <1>7. f[R] = g[R]
    <2>1. R \in (SUBSET S) \cap (SUBSET R)
      BY <1>3
    <2> QED BY <1>2, <1>4, <1>6, <2>1, SumsUnique
  <1>8. f[S] = Deposit[First(S)][w] + f[R]
    BY <1>2, <1>3 DEF SumsUp
  <1>9. Put(w, S) = f[S] /\ Put(w, R) = g[R]
    BY <1>1, <1>5, PutIs
  <1> QED BY <1>3, <1>7, <1>8, <1>9

LEMMA PutType ==
    ASSUME NEW w \in Wallets
    PROVE  \A S \in SUBSET Channels : Put(w, S) \in Nat
  <1>1. PICK B : B = {S \in SUBSET Channels : Put(w, S) \notin Nat}
    OBVIOUS
  <1>2. ASSUME B # {} PROVE FALSE
    <2>1. PICK S \in B : \A T \in SUBSET S : T # S => T \notin B
      <3>1. B \in SUBSET SUBSET Channels
        BY <1>1
      <3> QED BY <1>2, <3>1, Smallest
    <2>2. S \in SUBSET Channels /\ Put(w, S) \notin Nat
      BY <1>1
    <2>3. S # {}
      BY <2>2, PutNone
    <2>4. PICK c \in S : c = First(S)
      BY <2>3, FirstFacts
    <2>5. PICK R : R = S \ {c}
      OBVIOUS
    <2>6. Put(w, R) \in Nat
      BY <1>1, <2>1, <2>2, <2>5
    <2>7. Deposit[c][w] \in Nat
      BY <2>2, DepositType
    <2> QED BY <2>2, <2>3, <2>4, <2>5, <2>6, <2>7, PutFirst
  <1> QED BY <1>1, <1>2

\* Any channel can be taken off.
LEMMA PutOne ==
    ASSUME NEW w \in Wallets
    PROVE  \A S \in SUBSET Channels : \A c \in S : Put(w, S) = Deposit[c][w] + Put(w, S \ {c})
  <1>1. PICK B : B = {S \in SUBSET Channels : \E c \in S : Put(w, S) # Deposit[c][w] + Put(w, S \ {c})}
    OBVIOUS
  <1>2. ASSUME B # {} PROVE FALSE
    <2>1. PICK S \in B : \A T \in SUBSET S : T # S => T \notin B
      <3>1. B \in SUBSET SUBSET Channels
        BY <1>1
      <3> QED BY <1>2, <3>1, Smallest
    <2>2. PICK c \in S : Put(w, S) # Deposit[c][w] + Put(w, S \ {c})
      BY <1>1
    <2>3. S \in SUBSET Channels /\ S # {}
      BY <1>1, <2>2
    <2>4. PICK d \in S : d = First(S)
      BY <2>3, FirstFacts
    <2>5. Put(w, S) = Deposit[d][w] + Put(w, S \ {d})
      BY <2>3, <2>4, PutFirst
    <2>6. c # d
      BY <2>2, <2>5
    <2>7. PICK R : R = S \ {d}
      OBVIOUS
    <2>8. PICK Q : Q = S \ {c}
      OBVIOUS
    <2>9. PICK P : P = R \ {c}
      OBVIOUS
    <2>10. P = Q \ {d} /\ c \in R /\ d \in Q /\ R \in SUBSET S /\ Q \in SUBSET S /\ R # S /\ Q # S
      BY <2>4, <2>6, <2>7, <2>8, <2>9
    <2>11. Put(w, R) = Deposit[c][w] + Put(w, P)
      <3>1. R \in SUBSET Channels /\ R \notin B
        BY <2>1, <2>3, <2>10
      <3> QED BY <1>1, <2>9, <2>10, <3>1
    <2>12. Put(w, Q) = Deposit[d][w] + Put(w, P)
      BY <1>1, <2>1, <2>3, <2>10
    <2>13. Deposit[c][w] \in Nat /\ Deposit[d][w] \in Nat /\ Put(w, P) \in Nat
      BY <2>3, <2>9, <2>10, DepositType, PutType
    <2> QED BY <2>2, <2>5, <2>7, <2>8, <2>11, <2>12, <2>13
  <1> QED BY <1>1, <1>2

\* A part can be taken off.
LEMMA PutParts ==
    ASSUME NEW w \in Wallets, NEW S \in SUBSET Channels
    PROVE  \A T \in SUBSET S : Put(w, S) = Put(w, T) + Put(w, S \ T)
  <1>1. PICK B : B = {T \in SUBSET S : Put(w, S) # Put(w, T) + Put(w, S \ T)}
    OBVIOUS
  <1>2. ASSUME B # {} PROVE FALSE
    <2>1. PICK T \in B : \A U \in SUBSET T : U # T => U \notin B
      <3>1. B \in SUBSET SUBSET Channels
        BY <1>1
      <3> QED BY <1>2, <3>1, Smallest
    <2>2. T \in SUBSET S /\ T \in SUBSET Channels /\ Put(w, S) # Put(w, T) + Put(w, S \ T)
      BY <1>1
    <2>3. T # {}
      <3>1. Put(w, S) \in Nat /\ Put(w, {}) = 0 /\ S \ {} = S
        BY PutType, PutNone
      <3> QED BY <2>2, <3>1
    <2>4. PICK c \in T : TRUE
      BY <2>3
    <2>5. PICK U : U = T \ {c}
      OBVIOUS
    <2>6. PICK R : R = S \ U
      OBVIOUS
    <2>7. U \in SUBSET T /\ U # T /\ U \in SUBSET S /\ c \in R /\ R \ {c} = S \ T /\ R \in SUBSET Channels
      BY <2>2, <2>4, <2>5, <2>6
    <2>8. Put(w, S) = Put(w, U) + Put(w, R)
      BY <1>1, <2>1, <2>6, <2>7
    <2>9. Put(w, T) = Deposit[c][w] + Put(w, U)
      BY <2>2, <2>5, PutOne
    <2>10. Put(w, R) = Deposit[c][w] + Put(w, S \ T)
      BY <2>7, PutOne
    <2>11. Deposit[c][w] \in Nat /\ Put(w, U) \in Nat /\ Put(w, S \ T) \in Nat
      BY <2>2, <2>7, DepositType, PutType
    <2> QED BY <2>2, <2>8, <2>9, <2>10, <2>11
  <1> QED BY <1>1, <1>2

-----------------------------------------------------------------------------
(* The allowance.  It is what a wallet approved for channels, once for each, *)
(* less what was taken for those that are funded.                           *)

ApprovalOf(w, c) == tx[w][c]["approve"].status

Approved(w) == {c \in Channels : ApprovalOf(w, c) = "success"}

Taken(w) == ChannelsOf(w) \cap funded

\* A wallet approves for its own channels.
OwnOK(w) == \A c \in Channels : ApprovalOf(w, c) # "none" => w \in Sides(c)

AllowanceOK(w) == allowance[w] + Put(w, Taken(w)) = Put(w, Approved(w))

AInv == \A w \in Wallets : OwnOK(w) /\ AllowanceOK(w)

LEMMA InitAllowance == Init => AInv
  <1> SUFFICES ASSUME Init, NEW w \in Wallets PROVE OwnOK(w) /\ AllowanceOK(w)
    BY DEF AInv
  <1>1. \A c \in Channels : ApprovalOf(w, c) = "none"
    BY NoTxType DEF Init, ApprovalOf
  <1>2. Approved(w) = {} /\ Taken(w) = {} /\ allowance[w] = 0
    BY <1>1 DEF Init, Approved, Taken
  <1> QED BY <1>1, <1>2, PutNone DEF OwnOK, AllowanceOK

\* A step that changes no allowance, no approval that was mined, and sends one
\* only for an own channel.
LEMMA QuietAllowance ==
    ASSUME AInv, UNCHANGED <<allowance, funded>>,
           \A w \in Wallets, c \in Channels :
               /\ ApprovalOf(w, c)' = "success" <=> ApprovalOf(w, c) = "success"
               /\ ApprovalOf(w, c)' # "none" => ApprovalOf(w, c) # "none" \/ w \in Sides(c)
    PROVE  AInv'
  <1> SUFFICES ASSUME NEW w \in Wallets PROVE OwnOK(w)' /\ AllowanceOK(w)'
    BY DEF AInv
  <1>1. Approved(w)' = Approved(w) /\ Taken(w)' = Taken(w)
    BY DEF Approved, Taken
  <1>2. OwnOK(w)'
    BY DEF AInv, OwnOK
  <1>3. AllowanceOK(w)'
    BY <1>1 DEF AInv, AllowanceOK
  <1> QED BY <1>2, <1>3

LEMMA SameAllowance ==
    ASSUME AInv, UNCHANGED <<allowance, funded, tx>>
    PROVE  AInv'
  BY QuietAllowance DEF ApprovalOf

\* Approvals are sent for channels that have none that was mined, and replace
\* none that was.
LEMMA ApproveAllowance ==
    ASSUME IInv, AInv, NEW w \in Wallets, NEW c \in Channels, NEW unread \in BOOLEAN,
           Approve(w, c, unread)
    PROVE  AInv'
  <1>1. TypeOK /\ EventOK(w, c) /\ HasEvent(w, c)
    BY DEF IInv, ChannelOK, Approve, InStage, HasEvent
  <1>2. w \in Sides(c)
    BY <1>1 DEF EventOK
  <1>3. PICK k \in Kinds : k = "approve"
    BY DEF Kinds
  <1>4. Submit(w, c, k) /\ UNCHANGED <<allowance, funded>> /\ ApprovalOf(w, c) # "success"
    BY <1>3 DEF Approve, Receipt, HasId, ApprovalOf
  <1>5. \A v \in Wallets, d \in Channels :
           \/ tx'[v][d][k] = tx[v][d][k]
           \/ v = w /\ d = c /\ tx'[v][d][k].status \in {"none", "pending"}
           \/ tx[v][d][k].status = "pending" /\ tx'[v][d][k].status = "replaced"
    BY <1>1, <1>4, SubmitFacts
  <1>6. ASSUME NEW v \in Wallets, NEW d \in Channels
        PROVE  /\ ApprovalOf(v, d)' = "success" <=> ApprovalOf(v, d) = "success"
               /\ ApprovalOf(v, d)' # "none" => ApprovalOf(v, d) # "none" \/ v \in Sides(d)
    BY <1>2, <1>3, <1>4, <1>5 DEF ApprovalOf
  <1> QED BY <1>4, <1>6, QuietAllowance

LEMMA DepositAllowance ==
    ASSUME IInv, AInv, NEW w \in Wallets, NEW c \in Channels, SendDeposit(w, c)
    PROVE  AInv'
  <1>1. TypeOK
    BY DEF IInv
  <1>2. PICK k \in Kinds, l \in Kinds : k = "deposit" /\ l = "approve" /\ k # l
    BY DEF Kinds
  <1>3. /\ UNCHANGED <<allowance, funded>>
        /\ Submit(w, c, k) \/ tx' = Written(w, c, k, NoTx)
    BY <1>2 DEF SendDeposit, Written
  <1>4. \A v \in Wallets, d \in Channels :
           \/ tx'[v][d][l] = tx[v][d][l]
           \/ tx[v][d][l].status = "pending" /\ tx'[v][d][l].status = "replaced"
    <2>1. CASE Submit(w, c, k)
      BY <1>1, <1>2, <2>1, SubmitFacts
    <2>2. CASE tx' = Written(w, c, k, NoTx)
      <3>1. \A v \in Wallets, d \in Channels, j \in Kinds :
               v # w \/ d # c \/ j # k => Written(w, c, k, NoTx)[v][d][j] = tx[v][d][j]
        BY <1>1, NoTxType, TxFacts
      <3> QED BY <1>2, <2>2, <3>1
    <2> QED BY <1>3, <2>1, <2>2
  <1>5. ASSUME NEW v \in Wallets, NEW d \in Channels
        PROVE  /\ ApprovalOf(v, d)' = "success" <=> ApprovalOf(v, d) = "success"
               /\ ApprovalOf(v, d)' # "none" => ApprovalOf(v, d) # "none" \/ v \in Sides(d)
    BY <1>2, <1>4 DEF ApprovalOf
  <1> QED BY <1>3, <1>5, QuietAllowance

\* What is mined adds what was approved, or takes the deposits of a channel.
LEMMA MineAllowance ==
    ASSUME IInv, AInv, NEW w \in Wallets, NEW c \in Channels, NEW k \in Kinds,
           NEW fails \in BOOLEAN, Mine(w, c, k, fails)
    PROVE  AInv'
  <1>1. TypeOK
    BY DEF IInv
  <1>2. PICK works \in BOOLEAN :
            works = (/\ ~fails
                     /\ k = "deposit" =>
                          c \notin funded /\ Affords(c) /\ \A v \in Sides(c) : Covers(v, c))
    OBVIOUS
  <1>3. /\ tx[w][c][k].status = "pending"
        /\ tx' = [tx EXCEPT ![w][c][k].status = IF works THEN "success" ELSE "failed"]
        /\ ~works => UNCHANGED allowance
        /\ works /\ k = "approve" => allowance' = [allowance EXCEPT ![w] = @ + Deposit[c][w]]
        /\ works /\ k = "deposit" =>
             allowance' = [v \in Wallets |-> allowance[v] - IF v \in Sides(c) THEN Deposit[c][v] ELSE 0]
        /\ funded' = IF works /\ k = "deposit" THEN funded \cup {c} ELSE funded
    <2>1. /\ tx[w][c][k].status = "pending"
          /\ tx' = [tx EXCEPT ![w][c][k].status = IF works THEN "success" ELSE "failed"]
          /\ funded' = IF works /\ k = "deposit" THEN funded \cup {c} ELSE funded
          /\ allowance' = CASE works /\ k = "approve" -> [allowance EXCEPT ![w] = @ + Deposit[c][w]]
                            [] works /\ k = "deposit" -> [v \in Wallets |->
                                  allowance[v] - IF v \in Sides(c) THEN Deposit[c][v] ELSE 0]
                            [] OTHER -> allowance
      BY <1>2 DEF Mine
    <2>2. CASE ~works
      BY <2>1, <2>2
    <2>3. CASE works /\ k = "approve"
      BY <2>1, <2>3
    <2>4. CASE works /\ k = "deposit"
      BY <2>1, <2>4
    <2>5. k = "approve" \/ k = "deposit"
      BY DEF Kinds
    <2> QED BY <2>2, <2>3, <2>4, <2>5
  <1>4. tx \in [Wallets -> [Channels -> [Kinds -> Txs]]] /\ allowance \in [Wallets -> Int]
    BY <1>1 DEF TypeOK, Kinds, Txs
  <1>5. PICK x : x = [tx[w][c][k] EXCEPT !.status = IF works THEN "success" ELSE "failed"]
    OBVIOUS
  <1>6. x \in Txs /\ x.status = IF works THEN "success" ELSE "failed"
    <2>1. tx[w][c][k] \in Txs
      BY <1>4
    <2> QED BY <1>5, <2>1 DEF Txs
  <1>7. /\ tx'[w][c][k].status = IF works THEN "success" ELSE "failed"
        /\ \A v \in Wallets, d \in Channels, l \in Kinds :
               v # w \/ d # c \/ l # k => tx'[v][d][l] = tx[v][d][l]
    <2>1. tx' = Written(w, c, k, x)
      BY <1>3, <1>5 DEF Written
    <2>2. /\ Written(w, c, k, x)[w][c][k] = x
          /\ \A v \in Wallets, d \in Channels, l \in Kinds :
                 v # w \/ d # c \/ l # k => Written(w, c, k, x)[v][d][l] = tx[v][d][l]
      BY <1>1, <1>6, TxFacts
    <2> QED BY <1>6, <2>1, <2>2
  <1>8. "approve" \in Kinds /\ (k = "approve" \/ k = "deposit")
    BY DEF Kinds
  <1>9. \A v \in Wallets, d \in Channels :
            ~ (v = w /\ d = c /\ k = "approve") => ApprovalOf(v, d)' = ApprovalOf(v, d)
    BY <1>7, <1>8 DEF ApprovalOf
  <1>10. ASSUME k = "approve"
         PROVE  /\ ApprovalOf(w, c) = "pending"
                /\ ApprovalOf(w, c)' = IF works THEN "success" ELSE "failed"
    BY <1>3, <1>7, <1>10 DEF ApprovalOf
  <1>11. CASE ~works
    <2>1. UNCHANGED <<allowance, funded>>
      BY <1>3, <1>11
    <2>2. ASSUME NEW v \in Wallets, NEW d \in Channels
          PROVE  /\ ApprovalOf(v, d)' = "success" <=> ApprovalOf(v, d) = "success"
                 /\ ApprovalOf(v, d)' # "none" => ApprovalOf(v, d) # "none" \/ v \in Sides(d)
      BY <1>9, <1>10, <1>11
    <2> QED BY <2>1, <2>2, QuietAllowance
  <1>12. ASSUME NEW v \in Wallets PROVE OwnOK(v)'
    BY <1>9, <1>10 DEF AInv, OwnOK
  <1>13. CASE works /\ k = "approve"
    <2>1. ASSUME NEW v \in Wallets PROVE AllowanceOK(v)'
      <3>1. Taken(v)' = Taken(v)
        BY <1>3, <1>13 DEF Taken
      <3>2. CASE v # w
        <4>1. Approved(v)' = Approved(v)
          BY <1>9, <3>2 DEF Approved
        <4>2. allowance'[v] = allowance[v]
          BY <1>3, <1>4, <1>13, <3>2
        <4> QED BY <3>1, <4>1, <4>2 DEF AInv, AllowanceOK
      <3>3. CASE v = w
        <4>1. PICK A, B : A = Approved(w) /\ B = Approved(w)'
          OBVIOUS
        <4>2. c \in B /\ A = B \ {c} /\ B \in SUBSET Channels /\ A \in SUBSET Channels
          BY <1>9, <1>10, <1>13, <4>1 DEF Approved
        <4>3. Put(w, B) = Deposit[c][w] + Put(w, A)
          BY <4>2, PutOne
        <4>4. allowance'[w] = allowance[w] + Deposit[c][w]
          BY <1>3, <1>4, <1>13
        <4>5. Deposit[c][w] \in Nat /\ Put(w, A) \in Nat /\ Put(w, Taken(w)) \in Nat /\ allowance[w] \in Int
          <5>1. Taken(w) \in SUBSET Channels
            BY DEF Taken, ChannelsOf
          <5> QED BY <1>4, <4>2, <5>1, DepositType, PutType
        <4>6. allowance[w] + Put(w, Taken(w)) = Put(w, A)
          BY <4>1 DEF AInv, AllowanceOK
        <4>7. allowance'[w] + Put(w, Taken(w)) = Put(w, B)
          BY <4>3, <4>4, <4>5, <4>6
        <4> QED BY <3>1, <3>3, <4>1, <4>7 DEF AllowanceOK
      <3> QED BY <3>2, <3>3
    <2> QED BY <1>12, <2>1 DEF AInv
  <1>14. CASE works /\ k = "deposit"
    <2>1. funded' = funded \cup {c} /\ c \notin funded
      BY <1>2, <1>3, <1>14
    <2>2. ASSUME NEW v \in Wallets PROVE AllowanceOK(v)'
      <3>1. Approved(v)' = Approved(v)
        BY <1>9, <1>14 DEF Approved
      <3>2. allowance'[v] = allowance[v] - IF v \in Sides(c) THEN Deposit[c][v] ELSE 0
        BY <1>3, <1>14
      <3>3. PICK A, B : A = Taken(v) /\ B = Taken(v)'
        OBVIOUS
      <3>4. A \in SUBSET Channels /\ B \in SUBSET Channels
        BY <3>3 DEF Taken, ChannelsOf
      <3>5. /\ Deposit[c][v] \in Nat /\ Put(v, A) \in Nat /\ Put(v, B) \in Nat /\ allowance[v] \in Int
            /\ Put(v, Approved(v)) \in Nat
        <4>1. Approved(v) \in SUBSET Channels
          BY DEF Approved
        <4> QED BY <1>4, <3>4, <4>1, DepositType, PutType
      <3>6. allowance[v] + Put(v, A) = Put(v, Approved(v))
        BY <3>3 DEF AInv, AllowanceOK
      <3>7. CASE v \in Sides(c)
        <4>1. c \in B /\ A = B \ {c}
          BY <2>1, <3>3, <3>7 DEF Taken, ChannelsOf
        <4>2. Put(v, B) = Deposit[c][v] + Put(v, A)
          BY <3>4, <4>1, PutOne
        <4>3. allowance'[v] + Put(v, B) = Put(v, Approved(v))
          BY <3>2, <3>5, <3>6, <3>7, <4>2
        <4> QED BY <3>1, <3>3, <4>3 DEF AllowanceOK
      <3>8. CASE v \notin Sides(c)
        <4>1. A = B
          BY <2>1, <3>3, <3>8 DEF Taken, ChannelsOf
        <4>2. allowance'[v] + Put(v, B) = Put(v, Approved(v))
          BY <3>2, <3>5, <3>6, <3>8, <4>1
        <4> QED BY <3>1, <3>3, <4>2 DEF AllowanceOK
      <3> QED BY <3>7, <3>8
    <2> QED BY <1>12, <2>2 DEF AInv
  <1> QED BY <1>8, <1>11, <1>13, <1>14

LEMMA NextAllowance == IInv /\ AInv /\ [Next]_vars => AInv'
  <1> SUFFICES ASSUME IInv, AInv, [Next]_vars PROVE AInv'
    OBVIOUS
  <1>1. CASE UNCHANGED vars
    BY <1>1, SameAllowance DEF vars, system
  <1>2. ASSUME Next PROVE AInv'
    <2> env.opens \subseteq Channels
      BY EnvFacts DEF IInv
    <2>1. ASSUME NEW c \in env.opens, NEW unsent \in BOOLEAN, DoChannelCreate(c, unsent)
          PROVE  AInv'
      BY <2>1, SameAllowance DEF DoChannelCreate, Create
    <2>2. ASSUME NEW c \in env.opens, Message(c) PROVE AInv'
      BY <2>2, SameAllowance DEF Message, HandleFounder, HandleFounderSign
    <2>3. ASSUME NEW m \in net, Lose(m) PROVE AInv'
      BY <2>3, SameAllowance DEF Lose
    <2>4. ASSUME NEW w \in Wallets, NEW c \in env.opens, Stage(w, c) PROVE AInv'
      <3>1. ASSUME NEW unread \in BOOLEAN, Approve(w, c, unread) PROVE AInv'
        BY <3>1, ApproveAllowance
      <3>2. CASE SendDeposit(w, c)
        BY <3>2, DepositAllowance
      <3>3. CASE Prepared(w, c) \/ Executed(w, c) \/ Opened(w, c) \/ Confirm(w, c) \/ Timeout(w, c)
        BY <3>3, SameAllowance DEF Prepared, Executed, Opened, Confirm, Timeout
      <3> QED BY <2>4, <3>1, <3>2, <3>3 DEF Stage
    <2>5. ASSUME NEW w \in Wallets, NEW c \in env.opens, NEW k \in Kinds, NEW fails \in BOOLEAN,
                 Mine(w, c, k, fails)
          PROVE  AInv'
      BY <2>5, MineAllowance
    <2>6. ASSUME NEW w \in Wallets, Crash(w) PROVE AInv'
      BY <2>6, SameAllowance DEF Crash
    <2> QED BY <1>2, <2>1, <2>2, <2>3, <2>4, <2>5, <2>6 DEF Next, Kinds
  <1> QED BY <1>1, <1>2

-----------------------------------------------------------------------------
(* Between the two writes of terminate.                                    *)

\* Founder and FounderSign are handled once, before anything is opened.
OnceOK(c) ==
    /\ Sent("Founder", c) =>
         /\ ~ Sent("FounderSign", c)
         /\ \A w \in Wallets : ~ HasEvent(w, c) /\ chan[w][c] # "OPENED"
    /\ Sent("FounderSign", c) =>
         ~ HasEvent(FounderOf[c], c) /\ chan[FounderOf[c]][c] # "OPENED"

\* An event that works on has opened nothing yet, one that is over has confirmed
\* the trade of what it opened.
ConfirmOK(w, c) ==
    /\ chan[w][c] = "OPENED" => event[w][c].stage \in {"confirm", "complete", "none"}
    /\ event[w][c].stage = "confirm" => chan[w][c] = "OPENED"
    /\ event[w][c].stage = "complete" => row[w][c].state = "confirmed"
    /\ row[w][c].state = "confirmed" => chan[w][c] = "OPENED"

ConfirmedOK(c) == OnceOK(c) /\ \A w \in Wallets : ConfirmOK(w, c)

CInv == \A c \in Channels : ConfirmedOK(c)

LEMMA InitConfirm == Init => CInv
  <1> SUFFICES ASSUME Init, NEW c \in Channels PROVE ConfirmedOK(c)
    BY DEF CInv
  <1>1. \A w \in Wallets : chan[w][c] = "none" /\ event[w][c].stage = "none" /\ row[w][c].state = "none"
    BY DEF Init
  <1>2. ~ Sent("Founder", c) /\ ~ Sent("FounderSign", c)
    BY DEF Init, Sent
  <1> QED BY <1>1, <1>2 DEF ConfirmedOK, OnceOK, ConfirmOK

\* What may become of an event that gets no further than terminate.
Moves(w, c) ==
    \/ event'[w][c].stage = event[w][c].stage /\ chan'[w][c] = chan[w][c]
    \/ /\ event[w][c].stage \in Working /\ event'[w][c].stage \in Working \cup {"none", "error"}
       /\ chan'[w][c] \in {chan[w][c], "OPENING"}
    \/ event[w][c].stage = "confirm" /\ event'[w][c].stage = "none" /\ chan'[w][c] = chan[w][c]

LEMMA MovesConfirm ==
    ASSUME NEW c \in Channels, ConfirmedOK(c),
           \A w \in Wallets : Moves(w, c) /\ row'[w][c].state = row[w][c].state,
           \A kind \in {"Founder", "FounderSign"} : Sent(kind, c)' => Sent(kind, c)
    PROVE  ConfirmedOK(c)'
  <1>1. ASSUME NEW w \in Wallets
        PROVE  /\ ConfirmOK(w, c)' /\ (HasEvent(w, c)' => HasEvent(w, c))
               /\ chan'[w][c] = "OPENED" => chan[w][c] = "OPENED"
    <2>1. ConfirmOK(w, c) /\ Moves(w, c) /\ row'[w][c].state = row[w][c].state
      BY DEF ConfirmedOK
    <2> QED BY <2>1 DEF ConfirmOK, Moves, Working, HasEvent
  <1>2. OnceOK(c)'
    BY <1>1, SideFacts DEF ConfirmedOK, OnceOK
  <1> QED BY <1>1, <1>2 DEF ConfirmedOK

\* A step that only moves events along, and sends nothing.
LEMMA MovesAll ==
    ASSUME CInv, UNCHANGED row, net' \subseteq net,
           \A w \in Wallets, c \in Channels : Moves(w, c)
    PROVE  CInv'
  <1>1. ASSUME NEW c \in Channels PROVE ConfirmedOK(c)'
    <2>1. ConfirmedOK(c) /\ \A kind \in {"Founder", "FounderSign"} : Sent(kind, c)' => Sent(kind, c)
      BY DEF CInv, Sent
    <2> QED BY <2>1, MovesConfirm
  <1> QED BY <1>1 DEF CInv

LEMMA SameConfirm ==
    ASSUME CInv, UNCHANGED <<chan, row, event>>, net' \subseteq net
    PROVE  CInv'
  BY MovesAll DEF Moves

\* An event that works on goes on, times out or is given up.
LEMMA WorksConfirm ==
    ASSUME IInv, CInv, NEW w \in Wallets, NEW c \in Channels,
           Prepared(w, c) \/ Executed(w, c) \/ Timeout(w, c)
    PROVE  CInv'
  <1>1. TypeOK /\ event \in [Wallets -> [Channels -> Events]]
    BY DEF IInv, TypeOK, Events
  <1>2. PICK x \in Events : /\ event' = [event EXCEPT ![w][c] = x]
                           /\ x.stage \in Working \cup {"none", "error"}
    <2>1. event[w][c] \in Events
      BY <1>1
    <2>2. CASE Prepared(w, c) \/ Executed(w, c)
      <3>1. PICK st \in {"execute", "terminate"} : event' = [event EXCEPT ![w][c].stage = st]
        BY <2>2 DEF Prepared, Executed, GoTo
      <3>2. PICK x : x = [event[w][c] EXCEPT !.stage = st]
        OBVIOUS
      <3>3. x \in Events /\ x.stage = st
        BY <2>1, <3>2 DEF Events, EventStages, Working
      <3>4. event' = [event EXCEPT ![w][c] = x]
        BY <3>1, <3>2
      <3> QED BY <3>3, <3>4 DEF Working
    <2>3. CASE Timeout(w, c)
      <3>1. PICK x : x = IF event[w][c].retry THEN [event[w][c] EXCEPT !.stage = "error"]
                         ELSE [stage |-> "prepare", retry |-> TRUE]
        OBVIOUS
      <3>2. x \in Events /\ x.stage \in {"prepare", "error"}
        BY <2>1, <3>1 DEF Events, EventStages, Working
      <3>3. event' = [event EXCEPT ![w][c] = x]
        BY <2>3, <3>1 DEF Timeout
      <3> QED BY <3>2, <3>3 DEF Working
    <2> QED BY <2>2, <2>3
  <1>3. /\ event'[w][c] = x
        /\ \A v \in Wallets, d \in Channels : v # w \/ d # c => event'[v][d] = event[v][d]
    BY <1>1, <1>2, OneEntry
  <1>4. event[w][c].stage \in Working /\ UNCHANGED <<row, net>>
    BY DEF Prepared, Executed, Timeout, InStage, Working
  <1>5. /\ chan'[w][c] \in {chan[w][c], "OPENING"}
        /\ \A v \in Wallets, d \in Channels : v # w \/ d # c => chan'[v][d] = chan[v][d]
    <2>1. UNCHANGED chan \/ chan' = [chan EXCEPT ![w][c] = "OPENING"]
      BY DEF Prepared, Executed, Timeout
    <2>2. PICK States : States = {"none", "INIT", "OPENING", "OPENED"}
      OBVIOUS
    <2>3. PICK s \in States : s = "OPENING"
      BY <2>2
    <2>4. CASE chan' = [chan EXCEPT ![w][c] = s]
      <3>1. chan \in [Wallets -> [Channels -> States]]
        BY <1>1, <2>2 DEF TypeOK
      <3> QED BY <2>3, <2>4, <3>1, OneEntry
    <2> QED BY <2>1, <2>3, <2>4
  <1>6. ASSUME NEW v \in Wallets, NEW d \in Channels PROVE Moves(v, d)
    <2>1. CASE v = w /\ d = c
      BY <1>2, <1>3, <1>4, <1>5, <2>1 DEF Moves
    <2>2. CASE v # w \/ d # c
      BY <1>3, <1>5, <2>2 DEF Moves
    <2> QED BY <2>1, <2>2
  <1> QED BY <1>4, <1>6, MovesAll

LEMMA CrashConfirm ==
    ASSUME IInv, CInv, NEW w \in Wallets, Crash(w)
    PROVE  CInv'
  <1>1. event \in [Wallets -> [Channels -> Events]]
    BY DEF IInv, TypeOK, Events
  <1>2. UNCHANGED <<chan, row, net>>
    BY DEF Crash
  <1>3. PICK g : g = [c \in Channels |->
                        IF event[w][c].stage \in Working \cup {"confirm"}
                        THEN [event[w][c] EXCEPT !.stage = "none"]
                        ELSE event[w][c]]
    OBVIOUS
  <1>4. event' = [event EXCEPT ![w] = g]
    BY <1>3 DEF Crash
  <1>5. event'[w] = g /\ \A v \in Wallets : v # w => event'[v] = event[v]
    BY <1>1, <1>4
  <1>6. ASSUME NEW v \in Wallets, NEW c \in Channels PROVE Moves(v, c)
    <2>1. CASE v # w
      BY <1>2, <1>5, <2>1 DEF Moves
    <2>2. CASE v = w
      <3>1. event[w][c] \in Events
        BY <1>1
      <3>2. g[c].stage = IF event[w][c].stage \in Working \cup {"confirm"} THEN "none"
                         ELSE event[w][c].stage
        BY <1>3, <3>1 DEF Events
      <3> QED BY <1>2, <1>5, <2>2, <3>2 DEF Moves
    <2> QED BY <2>1, <2>2
  <1> QED BY <1>2, <1>6, MovesAll

\* Nothing changes for the other channels: their events, states and rows stay,
\* and no message about them is sent.
LEMMA OthersConfirm ==
    ASSUME CInv, NEW c \in Channels,
           \A w \in Wallets, d \in Channels : d # c =>
               event'[w][d] = event[w][d] /\ chan'[w][d] = chan[w][d] /\ row'[w][d] = row[w][d],
           \A kind \in {"Founder", "FounderSign"}, d \in Channels :
               d # c => (Sent(kind, d)' => Sent(kind, d)),
           ConfirmedOK(c)'
    PROVE  CInv'
  <1>1. ASSUME NEW d \in Channels, d # c PROVE ConfirmedOK(d)'
    <2>1. ConfirmedOK(d) /\ \A w \in Wallets : Moves(w, d) /\ row'[w][d].state = row[w][d].state
      BY <1>1 DEF CInv, Moves
    <2>2. \A kind \in {"Founder", "FounderSign"} : Sent(kind, d)' => Sent(kind, d)
      BY <1>1
    <2> QED BY <2>1, <2>2, MovesConfirm
  <1> QED BY <1>1 DEF CInv

LEMMA CreateConfirm ==
    ASSUME IInv, CInv, NEW c \in Channels, NEW unsent \in BOOLEAN, DoChannelCreate(c, unsent)
    PROVE  CInv'
  <1>1. TypeOK /\ ChannelOK(c) /\ ConfirmedOK(c)
    BY DEF IInv, CInv
  <1>2. PICK f \in Wallets : f = FounderOf[c]
    BY SideFacts
  <1>3. PICK r : r = [state |-> "init", signed |-> {f}]
    OBVIOUS
  <1>4. r \in Trades /\ r.state = "init"
    BY <1>3 DEF Trades
  <1>5. PICK st \in {"none", "INIT", "OPENING", "OPENED"} : st = "INIT"
    OBVIOUS
  <1>6. /\ chan[f][c] = "none" /\ SetTo(f, c, st, r) /\ UNCHANGED event
        /\ net' = IF unsent THEN net ELSE net \cup {[kind |-> "Founder", channel |-> c]}
    BY <1>2, <1>3, <1>5 DEF DoChannelCreate, Create, MayCreate
  <1>7. /\ chan'[f][c] = "INIT" /\ row'[f][c].state = "init"
        /\ \A v \in Wallets, d \in Channels : v # f \/ d # c =>
               chan'[v][d] = chan[v][d] /\ row'[v][d] = row[v][d]
    BY <1>1, <1>4, <1>5, <1>6, SetFacts
  <1>8. /\ ~ Sent("FounderSign", c)
        /\ \A w \in Wallets : ~ HasEvent(w, c) /\ chan[w][c] # "OPENED"
    BY <1>1, <1>2, <1>6 DEF ChannelOK, FreshOK, OpenedOK
  <1>9. /\ ~ Sent("FounderSign", c)'
        /\ \A w \in Wallets : ~ HasEvent(w, c)' /\ chan'[w][c] # "OPENED"
    BY <1>6, <1>7, <1>8 DEF Sent, HasEvent
  <1>10. ASSUME NEW w \in Wallets PROVE ConfirmOK(w, c)'
    <2>1. event'[w][c].stage = "none"
      BY <1>9 DEF HasEvent
    <2>2. row'[w][c].state # "confirmed"
      BY <1>1, <1>7, <1>8 DEF ConfirmedOK, ConfirmOK
    <2> QED BY <1>9, <2>1, <2>2 DEF ConfirmOK
  <1>11. ConfirmedOK(c)'
    BY <1>9, <1>10 DEF ConfirmedOK, OnceOK
  <1>12. \A kind \in {"Founder", "FounderSign"}, d \in Channels :
             d # c => (Sent(kind, d)' => Sent(kind, d))
    BY <1>6 DEF Sent
  <1>13. \A w \in Wallets, d \in Channels : d # c =>
             event'[w][d] = event[w][d] /\ chan'[w][d] = chan[w][d] /\ row'[w][d] = row[w][d]
    BY <1>6, <1>7
  <1> QED BY <1>11, <1>12, <1>13, OthersConfirm

LEMMA FounderConfirm ==
    ASSUME IInv, CInv, NEW c \in Channels, NEW unsent \in BOOLEAN, HandleFounder(c, unsent)
    PROVE  CInv'
  <1>1. TypeOK /\ ConfirmedOK(c)
    BY DEF IInv, CInv
  <1>2. PICK p \in Wallets : p = PartnerOf[c] /\ p # FounderOf[c] /\ FounderOf[c] \in Wallets
    BY SideFacts
  <1>3. PICK r : r = [state |-> "confirming", signed |-> Sides(c)]
    OBVIOUS
  <1>4. r \in Trades /\ r.state = "confirming"
    BY <1>3, SideFacts DEF Trades
  <1>5. PICK st \in {"none", "INIT", "OPENING", "OPENED"} : st = "INIT"
    OBVIOUS
  <1>6. /\ Sent("Founder", c) /\ ~ Sent("Founder", c)' /\ SetTo(p, c, st, r)
        /\ UNCHANGED event \/ StartEvent(p, c)
        /\ net' \subseteq net \cup {[kind |-> "FounderSign", channel |-> c]}
    BY <1>2, <1>3, <1>5 DEF HandleFounder, StoreAnswered, Sent
  <1>7. /\ chan'[p][c] = "INIT" /\ row'[p][c].state = "confirming"
        /\ \A v \in Wallets, d \in Channels : v # p \/ d # c =>
               chan'[v][d] = chan[v][d] /\ row'[v][d] = row[v][d]
    BY <1>1, <1>4, <1>5, <1>6, SetFacts
  <1>8. \A w \in Wallets : ~ HasEvent(w, c) /\ chan[w][c] # "OPENED"
    BY <1>1, <1>6 DEF ConfirmedOK, OnceOK
  <1>9. /\ event'[p][c].stage \in {"none", "prepare"}
        /\ \A v \in Wallets, d \in Channels : v # p \/ d # c => event'[v][d] = event[v][d]
    <2>1. CASE UNCHANGED event
      BY <1>8, <2>1 DEF HasEvent
    <2>2. CASE StartEvent(p, c)
      <3>1. PICK sg \in EventStages : sg = "prepare"
        BY DEF EventStages, Working
      <3>2. event' = [event EXCEPT ![p][c].stage = sg]
        BY <2>2, <3>1 DEF StartEvent
      <3>3. /\ event'[p][c].stage = sg
            /\ \A v \in Wallets, d \in Channels : v # p \/ d # c => event'[v][d] = event[v][d]
        BY <1>1, <3>2, StageFacts, ZenonT(30)
      <3> QED BY <3>1, <3>3
    <2> QED BY <1>6, <2>1, <2>2
  <1>10. ASSUME NEW w \in Wallets PROVE ConfirmOK(w, c)'
    <2>1. CASE w = p
      BY <1>7, <1>9, <2>1 DEF ConfirmOK
    <2>2. CASE w # p
      BY <1>1, <1>7, <1>9, <2>2 DEF ConfirmedOK, ConfirmOK
    <2> QED BY <2>1, <2>2
  <1>11. OnceOK(c)'
    <2>1. ~ HasEvent(FounderOf[c], c)' /\ chan'[FounderOf[c]][c] # "OPENED"
      BY <1>2, <1>7, <1>8, <1>9 DEF HasEvent
    <2> QED BY <1>6, <2>1 DEF OnceOK
  <1>12. \A kind \in {"Founder", "FounderSign"}, d \in Channels :
             d # c => (Sent(kind, d)' => Sent(kind, d))
    BY <1>6 DEF Sent
  <1>13. \A w \in Wallets, d \in Channels : d # c =>
             event'[w][d] = event[w][d] /\ chan'[w][d] = chan[w][d] /\ row'[w][d] = row[w][d]
    BY <1>7, <1>9
  <1>14. ConfirmedOK(c)'
    BY <1>10, <1>11 DEF ConfirmedOK
  <1> QED BY <1>12, <1>13, <1>14, OthersConfirm

LEMMA FounderSignConfirm ==
    ASSUME IInv, CInv, NEW c \in Channels, HandleFounderSign(c)
    PROVE  CInv'
  <1>1. TypeOK /\ ConfirmedOK(c)
    BY DEF IInv, CInv
  <1>2. PICK f \in Wallets : f = FounderOf[c]
    BY SideFacts
  <1>3. /\ Sent("FounderSign", c) /\ ~ Sent("FounderSign", c)' /\ net' \subseteq net
        /\ UNCHANGED chan
        /\ row' = [row EXCEPT ![f][c].signed = Sides(c)] /\ StartEvent(f, c)
    BY <1>2 DEF HandleFounderSign, Sent
  <1>4. ~ Sent("Founder", c) /\ ~ HasEvent(f, c) /\ chan[f][c] # "OPENED"
    BY <1>1, <1>2, <1>3 DEF ConfirmedOK, OnceOK
  <1>5. row \in [Wallets -> [Channels -> Trades]]
    BY <1>1 DEF TypeOK, Trades
  <1>6. PICK r : r = [row[f][c] EXCEPT !.signed = Sides(c)]
    OBVIOUS
  <1>7. r \in Trades /\ r.state = row[f][c].state
    <2>1. row[f][c] \in Trades /\ Sides(c) \subseteq Wallets
      BY <1>5, SideFacts
    <2> QED BY <1>6, <2>1 DEF Trades
  <1>8. row' = [row EXCEPT ![f][c] = r]
    BY <1>3, <1>6
  <1>9. /\ row'[f][c] = r
        /\ \A v \in Wallets, d \in Channels : v # f \/ d # c => row'[v][d] = row[v][d]
    BY <1>5, <1>7, <1>8, OneEntry
  <1>10. /\ event'[f][c].stage = "prepare"
         /\ \A v \in Wallets, d \in Channels : v # f \/ d # c => event'[v][d] = event[v][d]
    <2>1. PICK sg \in EventStages : sg = "prepare"
      BY DEF EventStages, Working
    <2>2. event' = [event EXCEPT ![f][c].stage = sg]
      BY <1>3, <2>1 DEF StartEvent
    <2>3. /\ event'[f][c].stage = sg
          /\ \A v \in Wallets, d \in Channels : v # f \/ d # c => event'[v][d] = event[v][d]
      BY <1>1, <2>2, StageFacts, ZenonT(30)
    <2> QED BY <2>1, <2>3
  <1>11. ASSUME NEW w \in Wallets PROVE ConfirmOK(w, c)'
    <2>1. CASE w = f
      <3>1. row'[f][c].state # "confirmed" /\ chan'[f][c] # "OPENED"
        BY <1>1, <1>3, <1>4, <1>7, <1>9 DEF ConfirmedOK, ConfirmOK
      <3> QED BY <1>10, <2>1, <3>1 DEF ConfirmOK
    <2>2. CASE w # f
      BY <1>1, <1>3, <1>9, <1>10, <2>2 DEF ConfirmedOK, ConfirmOK
    <2> QED BY <2>1, <2>2
  <1>12. OnceOK(c)'
    BY <1>3, <1>4 DEF OnceOK, Sent
  <1>13. \A kind \in {"Founder", "FounderSign"}, d \in Channels :
             d # c => (Sent(kind, d)' => Sent(kind, d))
    BY <1>3 DEF Sent
  <1>14. \A w \in Wallets, d \in Channels : d # c =>
             event'[w][d] = event[w][d] /\ chan'[w][d] = chan[w][d] /\ row'[w][d] = row[w][d]
    BY <1>3, <1>9, <1>10
  <1>15. ConfirmedOK(c)'
    BY <1>11, <1>12 DEF ConfirmedOK
  <1> QED BY <1>13, <1>14, <1>15, OthersConfirm

LEMMA OpenedConfirm ==
    ASSUME IInv, CInv, NEW w \in Wallets, NEW c \in Channels, Opened(w, c)
    PROVE  CInv'
  <1>1. TypeOK /\ ConfirmedOK(c)
    BY DEF IInv, CInv
  <1>2. /\ UNCHANGED <<row, net>> /\ HasEvent(w, c)
        /\ chan' = [chan EXCEPT ![w][c] = "OPENED"] /\ GoTo(w, c, "confirm")
    BY DEF Opened, InStage, HasEvent
  <1>3. /\ chan'[w][c] = "OPENED"
        /\ \A v \in Wallets, d \in Channels : v # w \/ d # c => chan'[v][d] = chan[v][d]
    <2>1. PICK States : States = {"none", "INIT", "OPENING", "OPENED"}
      OBVIOUS
    <2>2. PICK s \in States : s = "OPENED"
      BY <2>1
    <2>3. chan \in [Wallets -> [Channels -> States]] /\ chan' = [chan EXCEPT ![w][c] = s]
      BY <1>1, <1>2, <2>1, <2>2 DEF TypeOK
    <2>4. /\ chan'[w][c] = s
          /\ \A v \in Wallets, d \in Channels : v # w \/ d # c => chan'[v][d] = chan[v][d]
      BY <2>3, OneEntry
    <2> QED BY <2>2, <2>4
  <1>4. /\ event'[w][c].stage = "confirm"
        /\ \A v \in Wallets, d \in Channels : v # w \/ d # c => event'[v][d] = event[v][d]
    <2>1. PICK sg \in EventStages : sg = "confirm"
      BY DEF EventStages
    <2>2. event' = [event EXCEPT ![w][c].stage = sg]
      BY <1>2, <2>1 DEF GoTo
    <2>3. /\ event'[w][c].stage = sg
          /\ \A v \in Wallets, d \in Channels : v # w \/ d # c => event'[v][d] = event[v][d]
      BY <1>1, <2>2, StageFacts, ZenonT(30)
    <2> QED BY <2>1, <2>3
  <1>5. ASSUME NEW v \in Wallets PROVE ConfirmOK(v, c)'
    <2>1. CASE v = w
      BY <1>3, <1>4, <2>1 DEF ConfirmOK
    <2>2. CASE v # w
      BY <1>1, <1>2, <1>3, <1>4, <2>2 DEF ConfirmedOK, ConfirmOK
    <2> QED BY <2>1, <2>2
  <1>6. OnceOK(c)'
    <2>1. ~ Sent("Founder", c) /\ (Sent("FounderSign", c) => w # FounderOf[c])
      BY <1>1, <1>2 DEF ConfirmedOK, OnceOK
    <2>2. ~ Sent("Founder", c)' /\ (Sent("FounderSign", c)' => Sent("FounderSign", c))
      BY <1>2, <2>1 DEF Sent
    <2>3. ASSUME Sent("FounderSign", c)
          PROVE  ~ HasEvent(FounderOf[c], c)' /\ chan'[FounderOf[c]][c] # "OPENED"
      BY <1>1, <1>3, <1>4, <2>1, <2>3, SideFacts DEF ConfirmedOK, OnceOK, HasEvent
    <2> QED BY <2>2, <2>3 DEF OnceOK
  <1>7. \A kind \in {"Founder", "FounderSign"}, d \in Channels : Sent(kind, d)' => Sent(kind, d)
    BY <1>2 DEF Sent
  <1>8. \A v \in Wallets, d \in Channels : d # c =>
             event'[v][d] = event[v][d] /\ chan'[v][d] = chan[v][d] /\ row'[v][d] = row[v][d]
    BY <1>2, <1>3, <1>4
  <1>9. ConfirmedOK(c)'
    BY <1>5, <1>6 DEF ConfirmedOK
  <1> QED BY <1>7, <1>8, <1>9, OthersConfirm

LEMMA ConfirmConfirm ==
    ASSUME IInv, CInv, NEW w \in Wallets, NEW c \in Channels, Confirm(w, c)
    PROVE  CInv'
  <1>1. TypeOK /\ ConfirmedOK(c)
    BY DEF IInv, CInv
  <1>2. UNCHANGED <<chan, net>> /\ event[w][c].stage = "confirm" /\ GoTo(w, c, "complete")
    BY DEF Confirm, InStage
  <1>3. /\ row'[w][c].state = "confirmed"
        /\ \A v \in Wallets, d \in Channels : v # w \/ d # c => row'[v][d] = row[v][d]
    BY <1>1, ConfirmFacts
  <1>4. /\ event'[w][c].stage = "complete"
        /\ \A v \in Wallets, d \in Channels : v # w \/ d # c => event'[v][d] = event[v][d]
    <2>1. PICK sg \in EventStages : sg = "complete"
      BY DEF EventStages
    <2>2. event' = [event EXCEPT ![w][c].stage = sg]
      BY <1>2, <2>1 DEF GoTo
    <2>3. /\ event'[w][c].stage = sg
          /\ \A v \in Wallets, d \in Channels : v # w \/ d # c => event'[v][d] = event[v][d]
      BY <1>1, <2>2, StageFacts, ZenonT(30)
    <2> QED BY <2>1, <2>3
  <1>5. ASSUME NEW v \in Wallets
        PROVE  ConfirmOK(v, c)' /\ (HasEvent(v, c)' => HasEvent(v, c)) /\ chan'[v][c] = chan[v][c]
    <2>1. CASE v = w
      <3>1. chan'[w][c] = "OPENED"
        BY <1>1, <1>2 DEF ConfirmedOK, ConfirmOK
      <3> QED BY <1>2, <1>3, <1>4, <2>1, <3>1 DEF ConfirmOK, HasEvent
    <2>2. CASE v # w
      BY <1>1, <1>2, <1>3, <1>4, <2>2 DEF ConfirmedOK, ConfirmOK, HasEvent
    <2> QED BY <2>1, <2>2
  <1>6. \A kind \in {"Founder", "FounderSign"}, d \in Channels : Sent(kind, d)' => Sent(kind, d)
    BY <1>2 DEF Sent
  <1>7. OnceOK(c)'
    BY <1>1, <1>5, <1>6, SideFacts DEF ConfirmedOK, OnceOK
  <1>8. \A v \in Wallets, d \in Channels : d # c =>
             event'[v][d] = event[v][d] /\ chan'[v][d] = chan[v][d] /\ row'[v][d] = row[v][d]
    BY <1>2, <1>3, <1>4
  <1>9. ConfirmedOK(c)'
    BY <1>5, <1>7 DEF ConfirmedOK
  <1> QED BY <1>6, <1>8, <1>9, OthersConfirm

LEMMA NextConfirm == IInv /\ CInv /\ [Next]_vars => CInv'
  <1> SUFFICES ASSUME IInv, CInv, [Next]_vars PROVE CInv'
    OBVIOUS
  <1>1. CASE UNCHANGED vars
    BY <1>1, SameConfirm DEF vars, system
  <1>2. ASSUME Next PROVE CInv'
    <2> env.opens \subseteq Channels
      BY EnvFacts DEF IInv
    <2>1. ASSUME NEW c \in env.opens, NEW unsent \in BOOLEAN, DoChannelCreate(c, unsent)
          PROVE  CInv'
      BY <2>1, CreateConfirm
    <2>2. ASSUME NEW c \in env.opens, Message(c) PROVE CInv'
      BY <2>2, FounderConfirm, FounderSignConfirm DEF Message
    <2>3. ASSUME NEW m \in net, Lose(m) PROVE CInv'
      BY <2>3, SameConfirm DEF Lose, wallet
    <2>4. ASSUME NEW w \in Wallets, NEW c \in env.opens, Stage(w, c) PROVE CInv'
      <3>1. CASE Prepared(w, c) \/ Executed(w, c) \/ Timeout(w, c)
        BY <3>1, WorksConfirm
      <3>2. ASSUME NEW unread \in BOOLEAN, SendDeposit(w, c) \/ Approve(w, c, unread) PROVE CInv'
        BY <3>2, SameConfirm DEF SendDeposit, Approve
      <3>3. CASE Opened(w, c)
        BY <3>3, OpenedConfirm
      <3>4. CASE Confirm(w, c)
        BY <3>4, ConfirmConfirm
      <3> QED BY <2>4, <3>1, <3>2, <3>3, <3>4 DEF Stage
    <2>5. ASSUME NEW w \in Wallets, NEW c \in env.opens, NEW k \in Kinds, NEW fails \in BOOLEAN,
                 Mine(w, c, k, fails)
          PROVE  CInv'
      BY <2>5, SameConfirm DEF Mine
    <2>6. ASSUME NEW w \in Wallets, Crash(w) PROVE CInv'
      BY <2>6, CrashConfirm
    <2> QED BY <1>2, <2>1, <2>2, <2>3, <2>4, <2>5, <2>6 DEF Next, Kinds
  <1> QED BY <1>1, <1>2

-----------------------------------------------------------------------------
(* The theorems.                                                           *)

\* Every state a behaviour reaches has the types of TypeOK; the allowance the
\* contract has from a wallet may be any integer.
THEOREM TypeCorrect == Spec => []TypeOK
  <1>1. IInv => TypeOK
    BY DEF IInv
  <1> QED BY <1>1, InitInv, NextInv, PTL DEF Spec

\* A wallet marks a channel OPENED only when the contract holds its deposits
\* and both have signed the founding trade, and confirms that trade only for an
\* OPENED channel (terminate of ChannelDepositEvent), whatever is lost, times
\* out or fails; the trade stays unconfirmed only for a wallet that is between
\* the two writes of terminate, or stopped there.
THEOREM OpenedFunded == Spec => []OpenedIsFunded
  <1>1. IInv /\ CInv => OpenedIsFunded
    BY DEF IInv, CInv, ChannelOK, OpenedOK, ConfirmedOK, ConfirmOK, OpenedIsFunded
  <1> QED BY <1>1, InitInv, NextInv, InitConfirm, NextConfirm, PTL DEF Spec

\* Deposits enter the contract only when both wallets hold the founding trade
\* with both signatures: the partner stores it before it answers
\* (FounderResponsesMessage.create) and the founder deposits after the answer.
THEOREM FundedSigned == Spec => []FundedIsSigned
  <1>1. IInv => FundedIsSigned
    BY DEF IInv, ChannelOK, DepositOK, Signed, FundedIsSigned, TypeOK
  <1> QED BY <1>1, InitInv, NextInv, PTL DEF Spec

\* However often a wallet's events fail, are retried or take the place of each
\* other's transactions, and however many channels it opens: approvals add up,
\* but the contract may take no more than the channels not yet funded need.
THEOREM AllowanceNeeded == Spec => []AllowanceIsNeeded
  <1>1. IInv /\ AInv => AllowanceIsNeeded
    <2> SUFFICES ASSUME AInv, IInv, NEW w \in Wallets
                 PROVE  allowance[w] <= Put(w, ChannelsOf(w) \ funded)
      BY DEF AllowanceIsNeeded, Put
    <2>1. PICK S : S = ChannelsOf(w)
      OBVIOUS
    <2>2. S \in SUBSET Channels
      BY <2>1 DEF ChannelsOf
    <2>3. Approved(w) \in SUBSET S /\ Taken(w) \in SUBSET S /\ S \ Taken(w) = S \ funded
      BY <2>1 DEF AInv, OwnOK, Approved, ChannelsOf, Taken
    <2>4. Put(w, S) = Put(w, Approved(w)) + Put(w, S \ Approved(w))
      BY <2>2, <2>3, PutParts
    <2>5. Put(w, S) = Put(w, Taken(w)) + Put(w, S \ funded)
      BY <2>2, <2>3, PutParts
    <2>6. /\ Put(w, S \ Approved(w)) \in Nat /\ Put(w, Approved(w)) \in Nat
          /\ Put(w, Taken(w)) \in Nat /\ Put(w, S \ funded) \in Nat /\ allowance[w] \in Int
      BY <2>2, <2>3, PutType DEF IInv, TypeOK
    <2>7. allowance[w] + Put(w, Taken(w)) = Put(w, Approved(w))
      BY DEF AInv, AllowanceOK
    <2>8. allowance[w] <= Put(w, S \ funded)
      BY <2>4, <2>5, <2>6, <2>7
    <2> QED BY <2>1, <2>8
  <1> QED BY <1>1, InitInv, NextInv, InitAllowance, NextAllowance, PTL DEF Spec
=============================================================================
