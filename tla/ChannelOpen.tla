----------------------------- MODULE ChannelOpen -----------------------------
(***************************************************************************)
(* Opening channels: the Founder and FounderSign messages                  *)
(* (wallet/transaction/founder.py), the deposit events both wallets run    *)
(* from block to block (ChannelDepositEvent in                             *)
(* wallet/event/channel_event.py), and the transactions they send          *)
(* (blockchain/ethInterface.py, blockchain/web3client.py).                 *)
(*                                                                         *)
(* The channels of one wallet share two things on the chain: the allowance *)
(* it gave the contract, and its transaction nonce, which is read from the *)
(* mined transactions, so that a wallet has one transaction pending at a   *)
(* time and a better paid one replaces it.                                 *)
(*                                                                         *)
(* An event runs one stage at a time (EventMachine says when).  The token  *)
(* is external: increaseApproval adds, transferFrom takes.  The founder's  *)
(* console looks at both balances before it creates a channel, and nothing *)
(* keeps them until the deposit is mined.                                  *)
(***************************************************************************)
EXTENDS Integers, FiniteSetsExt, Functions

CONSTANTS
    Wallets, Channels,
    FounderOf, PartnerOf,  \* the two wallets of a channel
    Deposit,               \* Deposit[c][w]: what wallet w puts into channel c
    Environments           \* what users, network and chain may do

\* opens: the channels the users open; tokens: what the wallets own; faults: what goes wrong, at most
\* maxFaults times.
Environment ==
    [opens : SUBSET Channels,
     tokens : [Wallets -> Nat],
     faults : SUBSET {"lost", "unsent", "unread", "txfails", "timeout", "crash"},
     maxFaults : Nat]

\* check_deposit
CheckDeposit(c) ==
    /\ Deposit[c][PartnerOf[c]] <= Deposit[c][FounderOf[c]]
    /\ Deposit[c][FounderOf[c]] > 0

ASSUME OpenAssumption ==
    /\ FounderOf \in [Channels -> Wallets]
    /\ PartnerOf \in [Channels -> Wallets]
    /\ \A c \in Channels : FounderOf[c] # PartnerOf[c]
    /\ Deposit \in [Channels -> [Wallets -> Nat]]
    /\ \A c \in Channels : CheckDeposit(c)
    /\ Environments \subseteq Environment

\* A wallet has finitely many channels.
ASSUME ChannelsFinite == IsFiniteSet(Channels)

VARIABLES
    chan,       \* chan[w][c]: the state in w's channel table
    row,        \* row[w][c]: the trade of nonce 1 and who signed it
    net,        \* the messages on their way
    event,      \* event[w][c]: the deposit event of w
    tx,         \* tx[w][c][k]: the transaction whose id the event keeps
    allowance,  \* allowance[w]: what the contract may take from w
    funded,     \* the channels the contract holds the deposits of
    faults,     \* how many faults have happened
    env         \* the environment of this behaviour, fixed by Init

system == <<chan, row, net, event, tx, allowance, funded, faults>>
vars == <<system, env>>
wallet == <<chan, row, event>>

Working == {"prepare", "execute", "terminate"}

\* "confirm": terminate has written the channel's state, and not yet its trade.
EventStages == Working \cup {"none", "confirm", "complete", "error"}
Sides(c) == {FounderOf[c], PartnerOf[c]}
ChannelsOf(w) == {c \in Channels : w \in Sides(c)}

\* price: 1 for the configured gas price, 2 for that of a retry.
NoTx == [status |-> "none", price |-> 1]

TypeOK ==
    /\ chan \in [Wallets -> [Channels -> {"none", "INIT", "OPENING", "OPENED"}]]
    /\ row \in [Wallets -> [Channels ->
                  [state : {"none", "init", "confirming", "confirmed"},
                   signed : SUBSET Wallets]]]
    /\ net \in SUBSET [kind : {"Founder", "FounderSign"}, channel : Channels]
    /\ event \in [Wallets -> [Channels ->
                    [stage : EventStages, retry : BOOLEAN]]]
    /\ tx \in [Wallets -> [Channels -> [{"approve", "deposit"} ->
                 [status : {"none", "pending", "success", "failed", "replaced"},
                  price : {1, 2}]]]]
    /\ allowance \in [Wallets -> Int]
    /\ funded \in SUBSET Channels
    /\ env \in Environments
    /\ faults \in 0 .. env.maxFaults

Init ==
    /\ chan = [w \in Wallets |-> [c \in Channels |-> "none"]]
    /\ row = [w \in Wallets |-> [c \in Channels |-> [state |-> "none", signed |-> {}]]]
    /\ net = {}
    /\ event = [w \in Wallets |-> [c \in Channels |-> [stage |-> "none", retry |-> FALSE]]]
    /\ tx = [w \in Wallets |-> [c \in Channels |-> [k \in {"approve", "deposit"} |-> NoTx]]]
    /\ allowance = [w \in Wallets |-> 0]
    /\ funded = {}
    /\ faults = 0
    /\ env \in Environments

Fault(kind, happens) ==
    /\ happens => kind \in env.faults /\ faults < env.maxFaults
    /\ faults' = faults + IF happens THEN 1 ELSE 0

-----------------------------------------------------------------------------
(* The messages.                                                           *)

SetTo(w, c, state, r) ==
    /\ chan' = [chan EXCEPT ![w][c] = state]
    /\ row' = [row EXCEPT ![w][c] = r]

\* register_deposit_event
StartEvent(w, c) == event' = [event EXCEPT ![w][c].stage = "prepare"]

\* Channel.create refuses a second channel only when the first is OPENED.
MayCreate(c) ==
    LET w == FounderOf[c] IN
    /\ chan[w][c] = "none"
    /\ \A d \in Channels : Sides(d) = Sides(c) => chan[w][d] # "OPENED"

\* FounderMessage.create, at the founder's console.
Create(c, unsent) ==
    LET w == FounderOf[c] IN
    /\ MayCreate(c)
    /\ SetTo(w, c, "INIT", [state |-> "init", signed |-> {w}])
    /\ net' = IF unsent THEN net ELSE net \cup {[kind |-> "Founder", channel |-> c]}
    /\ Fault("unsent", unsent)
    /\ UNCHANGED <<event, tx, allowance, funded>>

\* What is left of the tokens of w.
Tokens(w) == env.tokens[w] - MapThenSumSet(LAMBDA c : Deposit[c][w], ChannelsOf(w) \cap funded)

\* check_onchain_balance of both wallets
Affords(c) == \A w \in Sides(c) : Tokens(w) >= Deposit[c][w]

DoChannelCreate(c, unsent) == Affords(c) /\ Create(c, unsent)

\* Mutant of StoreAnswered: the founder's signature is not stored.
StoreOwnOnly(c) ==
    SetTo(PartnerOf[c], c, "INIT", [state |-> "confirming", signed |-> {PartnerOf[c]}])

\* FounderResponsesMessage.create up to its send: the partner stores the
\* trade both have signed before it answers.
StoreAnswered(c) ==
    SetTo(PartnerOf[c], c, "INIT", [state |-> "confirming", signed |-> Sides(c)])

\* FounderMessage.handle at the partner; its event starts after its answer.
HandleFounder(c, unsent) ==
    LET m == [kind |-> "Founder", channel |-> c] IN
    /\ m \in net
    /\ StoreAnswered(c)
    /\ IF unsent
       THEN net' = net \ {m} /\ UNCHANGED event
       ELSE /\ net' = (net \ {m}) \cup {[kind |-> "FounderSign", channel |-> c]}
            /\ StartEvent(PartnerOf[c], c)
    /\ Fault("unsent", unsent)
    /\ UNCHANGED <<tx, allowance, funded>>

\* FounderResponsesMessage.handle at the founder.
HandleFounderSign(c) ==
    LET w == FounderOf[c]
        m == [kind |-> "FounderSign", channel |-> c] IN
    /\ m \in net
    /\ net' = net \ {m}
    /\ row' = [row EXCEPT ![w][c].signed = Sides(c)]
    /\ StartEvent(w, c)
    /\ UNCHANGED <<chan, tx, allowance, funded, faults>>

-----------------------------------------------------------------------------
(* The transactions of a wallet.                                           *)

Pending(w) == {p \in Channels \X {"approve", "deposit"} : tx[w][p[1]][p[2]].status = "pending"}

\* gwei_for_retry
Price(w, c) == IF event[w][c].retry THEN 2 ELSE 1

\* contruct_transaction: the node refuses a second transaction under the
\* nonce of a pending one (approve and approve_deposit then return nothing),
\* unless it pays more: then it takes the place of the pending one.
Submit(w, c, k) ==
    LET sent  == [status |-> "pending", price |-> Price(w, c)]
        beats == \A p \in Pending(w) : tx[w][p[1]][p[2]].price < Price(w, c) IN
    tx' = IF ~beats THEN [tx EXCEPT ![w][c][k] = NoTx]
          ELSE [tx EXCEPT ![w] = [d \in Channels |-> [l \in {"approve", "deposit"} |->
                  IF <<d, l>> = <<c, k>> THEN sent
                  ELSE IF <<d, l>> \in Pending(w) THEN [@[d][l] EXCEPT !.status = "replaced"]
                  ELSE @[d][l]]]]

\* check_transaction_success: a replaced transaction never has a receipt.
Receipt(w, c, k) == tx[w][c][k].status

HasId(w, c, k) == Receipt(w, c, k) # "none"
Awaits(w, c, k) == Receipt(w, c, k) \in {"pending", "replaced"}

-----------------------------------------------------------------------------
(* The stages of a deposit event.                                          *)

InStage(w, c, stage) == event[w][c].stage = stage

GoTo(w, c, stage) == event' = [event EXCEPT ![w][c].stage = stage]

Covers(w, c) == allowance[w] >= Deposit[c][w]

\* prepare, when it goes on: the own approval was mined, or what the wallet
\* approved before is enough.
Prepared(w, c) ==
    /\ InStage(w, c, "prepare")
    /\ \/ Receipt(w, c, "approve") = "success" /\ chan' = [chan EXCEPT ![w][c] = "OPENING"]
       \/ ~HasId(w, c, "approve") /\ Covers(w, c) /\ UNCHANGED chan
    /\ GoTo(w, c, "execute")
    /\ UNCHANGED <<row, net, tx, allowance, funded, faults>>

\* Mutant of Approve: a retry approves again, whatever became of the first.
ApproveAgain(w, c, unread) ==
    /\ InStage(w, c, "prepare")
    /\ Receipt(w, c, "approve") \in {"none", "failed"} \/ event[w][c].retry
    /\ Submit(w, c, "approve")
    /\ Fault("unread", unread)
    /\ UNCHANGED <<chan, row, net, event, allowance, funded>>

\* Mutant of Approve: a failed approval is waited for.
ApproveOnce(w, c, unread) ==
    /\ InStage(w, c, "prepare")
    /\ ~HasId(w, c, "approve") /\ (unread \/ ~Covers(w, c))
    /\ Submit(w, c, "approve")
    /\ Fault("unread", unread)
    /\ UNCHANGED <<chan, row, net, event, allowance, funded>>

\* prepare, when it sends the approval; after a failed one it asks no more
\* whether the allowance is enough.  An allowance the node does not tell counts
\* as 0: here the wallet approves for nothing, in execute it only waits.
Approve(w, c, unread) ==
    /\ InStage(w, c, "prepare")
    /\ \/ Receipt(w, c, "approve") = "failed" /\ ~unread
       \/ ~HasId(w, c, "approve") /\ (unread \/ ~Covers(w, c))
    /\ Submit(w, c, "approve")
    /\ Fault("unread", unread)
    /\ UNCHANGED <<chan, row, net, event, allowance, funded>>

\* Mutant of Executed: the partner waits for a deposit of its own.
ExecutedByBoth(w, c) ==
    /\ InStage(w, c, "execute")
    /\ Receipt(w, c, "deposit") = "success"
    /\ GoTo(w, c, "terminate")
    /\ UNCHANGED <<chan, row, net, tx, allowance, funded, faults>>

\* execute, when it goes on: the partner at once, the founder when its
\* deposit was mined.
Executed(w, c) ==
    /\ InStage(w, c, "execute")
    /\ w = PartnerOf[c] \/ Receipt(w, c, "deposit") = "success"
    /\ GoTo(w, c, "terminate")
    /\ UNCHANGED <<chan, row, net, tx, allowance, funded, faults>>

\* execute of the founder: the deposit, once both have approved enough.  A
\* failed deposit is forgotten also when the allowances are not enough.
SendDeposit(w, c) ==
    /\ InStage(w, c, "execute") /\ w = FounderOf[c]
    /\ Receipt(w, c, "deposit") \in {"none", "failed"}
    /\ IF \A v \in Sides(c) : Covers(v, c)
       THEN Submit(w, c, "deposit")
       ELSE tx' = [tx EXCEPT ![w][c]["deposit"] = NoTx]
    /\ UNCHANGED <<chan, row, net, event, allowance, funded, faults>>

\* Mutant of Opened: the contract's total is not read.
OpenedUnread(w, c) ==
    /\ InStage(w, c, "terminate")
    /\ chan' = [chan EXCEPT ![w][c] = "OPENED"]
    /\ GoTo(w, c, "confirm")
    /\ UNCHANGED <<row, net, tx, allowance, funded, faults>>

\* terminate, its first write: the contract holds both deposits.
Opened(w, c) ==
    /\ InStage(w, c, "terminate")
    /\ c \in funded
    /\ chan' = [chan EXCEPT ![w][c] = "OPENED"]
    /\ GoTo(w, c, "confirm")
    /\ UNCHANGED <<row, net, tx, allowance, funded, faults>>

\* terminate, its second write: the founding trade counts.
Confirm(w, c) ==
    /\ InStage(w, c, "confirm")
    /\ row' = [row EXCEPT ![w][c].state = "confirmed"]
    /\ GoTo(w, c, "complete")
    /\ UNCHANGED <<chan, net, tx, allowance, funded, faults>>

\* timeout_handler: one retry from the first stage, which keeps the ids of
\* the transactions sent, then error_handler, which changes nothing.
Timeout(w, c) ==
    /\ event[w][c].stage \in Working
    /\ event' = [event EXCEPT ![w][c] =
                   IF @.retry THEN [@ EXCEPT !.stage = "error"]
                   ELSE [stage |-> "prepare", retry |-> TRUE]]
    /\ Fault("timeout", TRUE)
    /\ UNCHANGED <<chan, row, net, tx, allowance, funded>>

-----------------------------------------------------------------------------
(* Outside the wallets.                                                    *)

\* A transaction is mined.  The contract's deposit takes both deposits or
\* fails (TrinityContract.Deposit).
Mine(w, c, k, fails) ==
    LET works == /\ ~fails
                 /\ k = "deposit" =>
                      c \notin funded /\ Affords(c) /\ \A v \in Sides(c) : Covers(v, c) IN
    /\ tx[w][c][k].status = "pending"
    /\ tx' = [tx EXCEPT ![w][c][k].status = IF works THEN "success" ELSE "failed"]
    /\ allowance' = CASE works /\ k = "approve" -> [allowance EXCEPT ![w] = @ + Deposit[c][w]]
                      [] works /\ k = "deposit" -> [v \in Wallets |->
                            allowance[v] - IF v \in Sides(c) THEN Deposit[c][v] ELSE 0]
                      [] OTHER -> allowance
    /\ funded' = IF works /\ k = "deposit" THEN funded \cup {c} ELSE funded
    /\ Fault("txfails", fails)
    /\ UNCHANGED <<chan, row, net, event>>

Lose(m) ==
    /\ m \in net
    /\ net' = net \ {m}
    /\ Fault("lost", TRUE)
    /\ UNCHANGED <<wallet, tx, allowance, funded>>

\* The events of a wallet that stops are gone: nothing starts them again, and
\* nothing does the second write of terminate.
Crash(w) ==
    /\ Fault("crash", TRUE)
    /\ event' = [event EXCEPT ![w] = [c \in Channels |->
                   IF @[c].stage \in Working \cup {"confirm"} THEN [@[c] EXCEPT !.stage = "none"] ELSE @[c]]]
    /\ UNCHANGED <<chan, row, net, tx, allowance, funded>>

-----------------------------------------------------------------------------
\* _handlemessage
Message(c) ==
    \/ \E unsent \in BOOLEAN : HandleFounder(c, unsent)
    \/ HandleFounderSign(c)

\* Only the monitor thread runs events: between the two writes of one it does
\* nothing else, while messages, the console and the chain go on.
Idle(w) == \A c \in Channels : event[w][c].stage # "confirm"

Stage(w, c) ==
    \/ Confirm(w, c)
    \/ /\ Idle(w)
       /\ \/ Prepared(w, c) \/ Executed(w, c) \/ SendDeposit(w, c) \/ Opened(w, c)
          \/ Timeout(w, c)
          \/ \E unread \in BOOLEAN : Approve(w, c, unread)

Next ==
    /\ UNCHANGED env
    /\ \/ \E c \in env.opens :
             \/ \E unsent \in BOOLEAN : DoChannelCreate(c, unsent)
             \/ Message(c)
       \/ \E m \in net : Lose(m)
       \/ \E w \in Wallets, c \in env.opens :
             \/ Stage(w, c)
             \/ \E k \in {"approve", "deposit"}, fails \in BOOLEAN : Mine(w, c, k, fails)
       \/ \E w \in Wallets : Crash(w)

Spec == Init /\ [][Next]_vars

\* What an event's turn can get done: it sends when nothing of its wallet is
\* pending, as the node refuses it otherwise.
Turn(w, c) ==
    \/ Confirm(w, c)
    \/ /\ Idle(w)
       /\ \/ Prepared(w, c) \/ Executed(w, c) \/ Opened(w, c)
          \/ Pending(w) = {} /\ (Approve(w, c, FALSE) \/ SendDeposit(w, c))

Mined(w) == \E c \in env.opens, k \in {"approve", "deposit"} : Mine(w, c, k, FALSE)

\* The message thread goes on, the monitor thread lives (EventMachine's
\* MonitorDies is left out), and the chain mines what it accepted; nothing makes
\* a user create a channel.
Fairness ==
    /\ WF_system(\E c \in env.opens : Message(c))
    /\ \A w \in Wallets : WF_system(\E c \in env.opens : Turn(w, c))
    /\ \A w \in Wallets : WF_system(Mined(w))

LiveSpec == Spec /\ Fairness

-----------------------------------------------------------------------------
(* Correctness.                                                            *)

\* One channel, and at most one thing that goes wrong on the chain.
OneEventRetried ==
    env.faults \subseteq {"txfails", "timeout"} /\ env.maxFaults <= 1 /\ Cardinality(env.opens) <= 1

\* At most one transaction fails, and no event times out.
NoEventRetried == env.faults \subseteq {"txfails"} /\ env.maxFaults <= 1

\* A channel is OPENED for a wallet only when the contract holds its deposits
\* and the founding trade in its table is signed by both: what the wallet starts
\* to pay from is there and can be settled.  The founding trade is confirmed only
\* for an OPENED channel; it is not yet between the two writes of terminate, and
\* never for a wallet that stopped there.
OpenedIsFunded ==
    \A w \in Wallets, c \in Channels :
        /\ chan[w][c] = "OPENED" =>
             /\ c \in funded /\ row[w][c].signed = Sides(c)
             /\ row[w][c].state = "confirmed" \/ event[w][c].stage \in {"confirm", "none"}
        /\ row[w][c].state = "confirmed" => chan[w][c] = "OPENED"

\* Deposits enter the contract only when both wallets hold the founding trade
\* with both signatures in their tables: each has what the contract wants for a
\* close, whatever messages were lost and whoever stopped after that.
FundedIsSigned ==
    \A c \in funded : \A w \in Sides(c) : row[w][c].signed = Sides(c)

\* Approvals add up (increaseApproval), so a wallet that approved twice for a
\* channel would let the contract take more than its channels need.  However
\* its events fail, are retried or replace each other's transactions, a
\* wallet's allowance is at most the deposits of its channels not yet funded.
AllowanceIsNeeded ==
    \A w \in Wallets :
        allowance[w] <= MapThenSumSet(LAMBDA c : Deposit[c][w], ChannelsOf(w) \ funded)

\* A channel gets opened by both wallets, with the founding trade confirmed: one
\* that is funded, unless an event times out, and one that both have signed, if
\* it is the only one, whichever single transaction fails or event is retried.
AgreedOpens ==
    \A c \in Channels :
        \/ NoEventRetried /\ c \in funded
        \/ OneEventRetried /\ row[FounderOf[c]][c].signed = Sides(c)
        ~> \A w \in Sides(c) : chan[w][c] = "OPENED" /\ row[w][c].state = "confirmed"
=============================================================================
