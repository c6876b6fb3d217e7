----------------------------- MODULE QuickClose -----------------------------
(***************************************************************************)
(* Closing a channel by agreement: the Settle and SettleSign messages      *)
(* (wallet/transaction/settle.py), the event both wallets run from block   *)
(* to block (ChannelQuickSettleEvent in wallet/event/channel_event.py) and *)
(* the contract's quickCloseChannel, while payments go on in the channel.  *)
(*                                                                         *)
(* Either wallet may start it, more than once, and so may both.  One       *)
(* message thread per wallet handles messages in the order they come.  An  *)
(* event runs one stage at a time (EventMachine says when).                *)
(*                                                                         *)
(* Balances are written as what the founder of the channel owns: the books *)
(* always add up to Total (RsmcChannel.Conserved).  A payment moves one    *)
(* unit with the three messages of RsmcChannel, of which only what matters *)
(* here is kept: the state check of each handler and the book it writes.   *)
(***************************************************************************)
EXTENDS Integers, Sequences

CONSTANTS
    Founder, Partner,  \* the two wallets of the channel
    Total,             \* what they put into it
    Deposit,           \* the founder's part of it
    Environments       \* what users, network and chain may do

Wallets == {Founder, Partner}

\* calm: the users pay and close one at a time; the numbers bound how often the users close and pay and something goes wrong.
Environment ==
    [calm : BOOLEAN, closes : Nat, pays : Nat,
     faults : SUBSET {"lost", "unsent", "timeout", "txfails", "crash"}, maxFaults : Nat]

ASSUME CloseAssumption ==
    /\ Founder # Partner
    /\ Total \in Nat /\ Deposit \in 0 .. Total
    /\ Environments \subseteq Environment

VARIABLES
    chan,   \* chan[w]: the state in w's channel table
    book,   \* book[w]: the balances in w's channel table
    row,    \* row[w]: the trade of nonce 0 in w's table
    net,    \* net[w]: the messages on their way to w
    event,  \* event[w]: the close event in w's event machine
    pool,   \* pool[w]: the transaction of w the chain has not mined yet
    paid,   \* what the contract paid out, Open before
    left,   \* how many closes, payments and faults the bounds leave
    shown,  \* history: the balances both books have shown
    env     \* the environment of this behaviour, fixed by Init

system == <<chan, book, row, net, event, pool, paid, left, shown>>
vars == <<system, env>>
channel == <<chan, book, row>>

Other(w) == IF w = Founder THEN Partner ELSE Founder

Balances == 0 .. Total
Open == -1

\* What a signature covers: who is named first, and the balances.
Commitment == [first : Wallets, bal : Balances]

NoRow == [role |-> "none"]
NoArgs == [bal |-> Open]
NoTx == [price |-> 0]
Working == {"prepare", "execute", "terminate"}
Idle == [stage |-> "none", retry |-> FALSE, founder |-> FALSE, args |-> NoArgs, tx |-> "none"]

Args == [bal : Balances, own : Commitment, peer : Commitment]

TypeOK ==
    /\ chan \in [Wallets -> {"OPENED", "CLOSING", "CLOSED"}]
    /\ book \in [Wallets -> Balances]
    /\ row \in [Wallets -> {NoRow} \cup
                  [role : {"FOUNDER", "PARTNER"}, bal : Balances,
                   own : Commitment, peer : SUBSET Commitment]]
    /\ net \in [Wallets -> Seq([kind : {"Settle", "SettleSign", "Rsmc", "Sign0", "Sign1"},
                                bal : Balances])]
    /\ event \in [Wallets -> [stage : Working \cup {"none", "complete", "error"},
                              retry : BOOLEAN, founder : BOOLEAN, args : {NoArgs} \cup Args,
                              tx : {"none", "pending", "success", "failed"}]]
    /\ pool \in [Wallets -> {NoTx} \cup [price : {1, 2}, args : Args, own : BOOLEAN]]
    /\ paid \in {Open} \cup Balances
    /\ left \in [{"close", "pay", "fault"} -> Nat]
    /\ shown \in SUBSET Balances
    /\ env \in Environments

Init ==
    /\ chan = [w \in Wallets |-> "OPENED"]
    /\ book = [w \in Wallets |-> Deposit]
    /\ row = [w \in Wallets |-> NoRow]
    /\ net = [w \in Wallets |-> <<>>]
    /\ event = [w \in Wallets |-> Idle]
    /\ pool = [w \in Wallets |-> NoTx]
    /\ paid = Open
    /\ env \in Environments
    /\ left = [close |-> env.closes, pay |-> env.pays, fault |-> env.maxFaults]
    /\ shown = {Deposit}

Use(kind) == left[kind] > 0 /\ left' = [left EXCEPT ![kind] = @ - 1]

Fault(kind, happens) == IF happens THEN kind \in env.faults /\ Use("fault") ELSE UNCHANGED left

\* The message thread of w takes its next message and sends the answers.
Takes(w, kind) == net[w] # <<>> /\ Head(net[w]).kind = kind

Reply(w, answers) == net' = [net EXCEPT ![w] = Tail(@), ![Other(w)] = @ \o answers]

Signed(closer, bal) == [first |-> closer, bal |-> bal]

-----------------------------------------------------------------------------
(* The payments.                                                           *)

AfterPayment(bal, payer) == IF payer = Founder THEN bal - 1 ELSE bal + 1

NobodyCloses ==
    /\ paid = Open
    /\ \A w \in Wallets :
          net[w] = <<>> /\ event[w].stage \notin Working /\ pool[w] = NoTx

Paying ==
    \E w \in Wallets : \E i \in DOMAIN net[w] : net[w][i].kind \in {"Rsmc", "Sign0", "Sign1"}

\* RsmcMessage.create; bound: one payment under way at a time.
Pay(w) ==
    /\ env.calm => NobodyCloses
    /\ ~Paying
    /\ chan[w] = "OPENED"
    /\ AfterPayment(book[w], w) \in Balances
    /\ net' = [net EXCEPT ![Other(w)] =
                 Append(@, [kind |-> "Rsmc", bal |-> AfterPayment(book[w], w)])]
    /\ Use("pay")
    /\ UNCHANGED <<channel, event, pool, paid, shown>>

SetBook(w, bal) ==
    /\ book' = [book EXCEPT ![w] = bal]
    /\ shown' = IF book[Other(w)] = bal THEN shown \cup {bal} ELSE shown

\* RsmcMessage.handle at the payee and handle_partner_response at the payer:
\* the channel is OPENED and the balances are those the payment leads to.
HandleRsmc(w) ==
    /\ Takes(w, "Rsmc")
    /\ IF chan[w] = "OPENED" /\ Head(net[w]).bal = AfterPayment(book[w], Other(w))
       THEN Reply(w, <<[Head(net[w]) EXCEPT !.kind = "Sign0"]>>)
       ELSE Reply(w, <<>>)
    /\ UNCHANGED <<channel, event, pool, paid, left, shown>>

HandleSign0(w) ==
    /\ Takes(w, "Sign0")
    /\ IF chan[w] = "OPENED" /\ Head(net[w]).bal = AfterPayment(book[w], w)
       THEN /\ Reply(w, <<[Head(net[w]) EXCEPT !.kind = "Sign1"]>>)
            /\ SetBook(w, Head(net[w]).bal)
       ELSE Reply(w, <<>>) /\ UNCHANGED <<book, shown>>
    /\ UNCHANGED <<chan, row, event, pool, paid, left>>

\* handle_founder_response at the payee.
HandleSign1(w) ==
    /\ Takes(w, "Sign1")
    /\ Reply(w, <<>>)
    /\ IF chan[w] = "OPENED" /\ AfterPayment(book[w], Other(w)) \in Balances
       THEN SetBook(w, AfterPayment(book[w], Other(w)))
       ELSE UNCHANGED <<book, shown>>
    /\ UNCHANGED <<chan, row, event, pool, paid, left>>

-----------------------------------------------------------------------------
(* The agreement.                                                          *)

\* add_or_update_quick_settle_trade: its query never answers with a list, so
\* it always adds; Channel.add_trade is refused, without an error, once the
\* nonce has a row.
AddRow(w, r) == row' = [row EXCEPT ![w] = IF @ = NoRow THEN r ELSE @]

\* register_quick_close_event: takes the place of an event under the same
\* channel, whose transaction nobody waits for any more.
Register(w, founder, args) ==
    /\ event' = [event EXCEPT ![w] =
                   [Idle EXCEPT !.stage = "prepare", !.founder = founder, !.args = args]]
    /\ pool' = [pool EXCEPT ![w] = IF @ = NoTx THEN @ ELSE [@ EXCEPT !.own = FALSE]]

\* SettleMessage.create at the console, whatever state the channel is in.
Create(w, unsent) ==
    LET bal == book[w] IN
    /\ env.calm => ~Paying
    /\ Use("close")
    /\ unsent => "unsent" \in env.faults
    /\ AddRow(w, [role |-> "FOUNDER", bal |-> bal, own |-> Signed(w, bal), peer |-> {}])
    /\ net' = IF unsent THEN net
              ELSE [net EXCEPT ![Other(w)] = Append(@, [kind |-> "Settle", bal |-> bal])]
    /\ UNCHANGED <<chan, book, event, pool, paid, shown>>

\* Mutant of BooksAgree: the peer signs whatever balances it is sent.
BooksTaken(w, bal) == TRUE

\* check_balance
BooksAgree(w, bal) == book[w] = bal

\* SettleMessage.handle; its event starts after its answer.
HandleSettle(w, unsent) ==
    LET bal == Head(net[w]).bal
        sig == Signed(Other(w), bal) IN
    /\ Takes(w, "Settle")
    /\ unsent => BooksAgree(w, bal)
    /\ IF BooksAgree(w, bal)
       THEN AddRow(w, [role |-> "PARTNER", bal |-> bal, own |-> sig, peer |-> {sig}])
       ELSE UNCHANGED row
    /\ IF BooksAgree(w, bal) /\ ~unsent
       THEN /\ Reply(w, <<[kind |-> "SettleSign", bal |-> bal]>>)
            /\ Register(w, FALSE, NoArgs)
       ELSE Reply(w, <<>>) /\ UNCHANGED <<event, pool>>
    /\ Fault("unsent", unsent)
    /\ UNCHANGED <<chan, book, paid, shown>>

\* SettleResponseMessage.handle: the signature must cover the balances of the
\* row, whichever closing the row is from.
HandleSettleSign(w) ==
    LET sig == Signed(w, Head(net[w]).bal) IN
    /\ Takes(w, "SettleSign")
    /\ Reply(w, <<>>)
    /\ IF row[w].bal = sig.bal
       THEN /\ row' = [row EXCEPT ![w].peer = {sig}]
            /\ Register(w, TRUE, [bal |-> row[w].bal, own |-> row[w].own, peer |-> sig])
       ELSE UNCHANGED <<row, event, pool>>
    /\ UNCHANGED <<chan, book, paid, left, shown>>

-----------------------------------------------------------------------------
(* The stages of the event.                                                *)

InStage(w, stage) == event[w].stage = stage

GoTo(w, stage) == event' = [event EXCEPT ![w].stage = stage]

\* prepare, which runs twice and writes the same both times.
Prepared(w) ==
    /\ InStage(w, "prepare")
    /\ chan' = [chan EXCEPT ![w] = IF event[w].retry THEN @ ELSE "CLOSING"]
    /\ GoTo(w, "execute")
    /\ UNCHANGED <<book, row, net, pool, paid, left, shown>>

\* Mutant of Executed: both wallets wait for a transaction of their own.
ExecutedByBoth(w) ==
    /\ InStage(w, "execute")
    /\ event[w].tx = "success"
    /\ GoTo(w, "terminate")
    /\ UNCHANGED <<channel, net, pool, paid, left, shown>>

\* execute, when it goes on.
Executed(w) ==
    /\ InStage(w, "execute")
    /\ ~event[w].founder \/ paid # Open \/ event[w].tx = "success"
    /\ GoTo(w, "terminate")
    /\ UNCHANGED <<channel, net, pool, paid, left, shown>>

\* execute, when it sends the transaction (quick_settle): the node refuses
\* one under the nonce of a pending one, unless it pays more.
SendClose(w) ==
    LET price == IF event[w].retry THEN 2 ELSE 1 IN
    /\ InStage(w, "execute") /\ event[w].founder
    /\ paid = Open /\ event[w].tx \in {"none", "failed"}
    /\ IF pool[w].price < price
       THEN /\ pool' = [pool EXCEPT ![w] = [price |-> price, args |-> event[w].args, own |-> TRUE]]
            /\ event' = [event EXCEPT ![w].tx = "pending"]
       ELSE event' = [event EXCEPT ![w].tx = "none"] /\ UNCHANGED pool
    /\ UNCHANGED <<channel, net, paid, left, shown>>

\* terminate
Ended(w) ==
    /\ InStage(w, "terminate") /\ paid # Open
    /\ chan' = [chan EXCEPT ![w] = "CLOSED"]
    /\ GoTo(w, "complete")
    /\ UNCHANGED <<book, row, net, pool, paid, left, shown>>

\* timeout_handler: one retry from the first stage, which keeps the id of the
\* transaction sent, then error_handler, which reads the contract's total.
Timeout(w) ==
    /\ event[w].stage \in Working
    /\ event' = [event EXCEPT ![w] = IF @.retry THEN [@ EXCEPT !.stage = "error"]
                                     ELSE [@ EXCEPT !.stage = "prepare", !.retry = TRUE]]
    /\ chan' = [chan EXCEPT ![w] = IF event[w].retry /\ paid = Open THEN "OPENED" ELSE @]
    /\ Fault("timeout", TRUE)
    /\ UNCHANGED <<book, row, net, pool, paid, shown>>

-----------------------------------------------------------------------------
(* Outside the wallets.                                                    *)

\* quickCloseChannel: the channel is open and both have signed, the caller
\* named first.
Accepts(w, args) ==
    /\ paid = Open
    /\ \A sig \in {args.own, args.peer} : sig = Signed(w, args.bal)

Mine(w, fails) ==
    LET works == ~fails /\ Accepts(w, pool[w].args) IN
    /\ pool[w] # NoTx
    /\ pool' = [pool EXCEPT ![w] = NoTx]
    /\ event' = IF pool[w].own
                THEN [event EXCEPT ![w].tx = IF works THEN "success" ELSE "failed"] ELSE event
    /\ paid' = IF works THEN pool[w].args.bal ELSE paid
    /\ Fault("txfails", fails)
    /\ UNCHANGED <<channel, net, shown>>

Lose(w) ==
    /\ net[w] # <<>>
    /\ net' = [net EXCEPT ![w] = Tail(@)]
    /\ Fault("lost", TRUE)
    /\ UNCHANGED <<channel, event, pool, paid, shown>>

\* The event of a wallet that stops is gone: nothing starts it again.
Crash(w) ==
    /\ InStage(w, "prepare") \/ InStage(w, "execute") \/ InStage(w, "terminate")
    /\ event' = [event EXCEPT ![w] = Idle]
    /\ pool' = [pool EXCEPT ![w] = IF @ = NoTx THEN @ ELSE [@ EXCEPT !.own = FALSE]]
    /\ Fault("crash", TRUE)
    /\ UNCHANGED <<channel, net, paid, shown>>

-----------------------------------------------------------------------------
\* _handlemessage
Message(w) ==
    \/ HandleRsmc(w) \/ HandleSign0(w) \/ HandleSign1(w)
    \/ \E unsent \in BOOLEAN : HandleSettle(w, unsent)
    \/ HandleSettleSign(w)

Next ==
    /\ UNCHANGED env
    /\ \E w \in Wallets :
          \/ Pay(w)
          \/ \E unsent \in BOOLEAN : Create(w, unsent)
          \/ Message(w)
          \/ Prepared(w) \/ Executed(w) \/ SendClose(w) \/ Ended(w) \/ Timeout(w)
          \/ \E fails \in BOOLEAN : Mine(w, fails)
          \/ Lose(w) \/ Crash(w)

Spec == Init /\ [][Next]_vars

\* What the event's turn can get done: it sends when nothing of its wallet is
\* pending, as the node refuses it otherwise.
Turn(w) == Prepared(w) \/ Executed(w) \/ Ended(w) \/ (pool[w] = NoTx /\ SendClose(w))

\* The message thread and the monitor thread never stop, and the chain mines
\* what it accepted; nothing makes a user close or pay.
Fairness ==
    \A w \in Wallets :
        WF_system(Message(w)) /\ WF_system(Turn(w)) /\ WF_system(Mine(w, FALSE))

LiveSpec == Spec /\ Fairness

-----------------------------------------------------------------------------
(* Correctness.                                                            *)

\* The contract pays out balances that both wallets' books have shown at the
\* same time: a wallet cannot be made to sign a state of a payment only one of
\* them carried out, whatever is lost or given up.  When nobody pays while the
\* channel is being closed it pays what both books say, although an earlier
\* closing may have left a row behind (check_balance, "founder remaining assets
\* amount" in quick_close_channel).
PaidIsAgreed ==
    paid # Open =>
        /\ paid \in shown
        /\ env.calm => \A w \in Wallets : book[w] = paid

\* One closing, at most one transaction that fails.
OneClosing == env.closes <= 1 /\ env.faults \subseteq {"txfails"} /\ env.maxFaults <= 1

\* "channel partners have agreed to dismantle the channel"
\* (quick_close_channel): once a wallet has the other's signature, the
\* channel gets closed for both of them, if only one of them started it.
AgreedCloses ==
    \A w \in Wallets :
        (OneClosing /\ event[w].founder /\ InStage(w, "prepare"))
            ~> \A v \in Wallets : chan[v] = "CLOSED"
=============================================================================
