----------------------------- MODULE TradeBooks -----------------------------
(***************************************************************************)
(* The trade books of a wallet as its threads mean them: every channel has *)
(* a book of trades by nonce, and one operation on a book is one step.     *)
(* This is what the protocol modules (RsmcChannel, QuickClose, HtlcRoute,  *)
(* Dispute) take for granted.  A thread records a trade in several such    *)
(* steps: it takes the next nonce and adds, or looks a nonce up and adds   *)
(* or updates (Channel.new_nonce, Message.record_transaction).             *)
(*                                                                         *)
(* That much holds of a thread alone.  A thread that another one overtakes *)
(* on the way to its book is astray: its next operation is still one step  *)
(* on one book, of any channel.                                            *)
(***************************************************************************)
EXTENDS Integers

CONSTANTS
    Threads,    \* message, console, event and websocket thread
    Channels,
    Rows,       \* contents of a trade
    None,       \* no trade under a nonce
    MaxNonce    \* bound: the nonces of a channel

Nonces == 1 .. MaxNonce

VARIABLES
    book,   \* book[c][n]: the trade of nonce n in the book of channel c
    task,   \* task[t]: what thread t is about, and its next operation
    astray  \* the threads that were overtaken since they reached for their book

vars == <<book, task, astray>>

Operations == {"newest", "lookup", "add", "update", "delete"}
Stages == Operations \cup {"idle", "done"}
Task == [stage : Stages, ch : Channels, nonce : Nonces, row : Rows]

\* A channel is opened with its founder's trade, of nonce 1.
Init ==
    /\ book \in [Channels -> {[n \in Nonces |-> IF n = 1 THEN r ELSE None] : r \in Rows}]
    /\ task \in [Threads -> {k \in Task : k.stage = "idle"}]
    /\ astray = {}

-----------------------------------------------------------------------------
(* Operations on the book b.                                               *)

Used(b) == {n \in Nonces : b[n] # None}

\* sort(key='nonce')
Newest(b) == CHOOSE n \in Used(b) : \A m \in Used(b) : m <= n

\* insert_one: a second row of a nonce is refused, and nobody asks.
Add(b, n, r) == IF b[n] = None THEN [b EXCEPT ![n] = r] ELSE b

\* update_one: a row that is not there stays away.
Update(b, n, r) == IF b[n] = None THEN b ELSE [b EXCEPT ![n] = r]

To(t, stage) == task' = [task EXCEPT ![t].stage = stage]

-----------------------------------------------------------------------------
(* What a thread does with a book b.                                       *)

\* The console takes the next nonce and adds a trade; a handler records the
\* trade of a nonce the peer named, changes one or deletes it.
Start(t, k) ==
    /\ task[t].stage = "idle"
    /\ k.stage \in Operations
    /\ task' = [task EXCEPT ![t] = k]

\* new_nonce
NewNonce(t, b) ==
    /\ task[t].stage = "newest"
    /\ Used(b) # {} /\ Newest(b) < MaxNonce
    /\ task' = [task EXCEPT ![t] = [@ EXCEPT !.nonce = Newest(b) + 1, !.stage = "add"]]

\* record_transaction
Lookup(t, b) ==
    /\ task[t].stage = "lookup"
    /\ To(t, IF b[task[t].nonce] = None THEN "add" ELSE "update")

Write(t, op, c, b) ==
    /\ task[t].stage = op
    /\ book' = [book EXCEPT ![c] = b]
    /\ To(t, "done")

\* The thread goes on to something else.
Finish(t) == task[t].stage = "done" /\ To(t, "idle")

\* Whoever was not overtaken works on the book of its own channel.
Reached(t) == IF t \in astray THEN Channels ELSE {task[t].ch}

OperateOn(t, c) ==
    LET k == task[t]
        b == book[c] IN
    \/ (NewNonce(t, b) \/ Lookup(t, b)) /\ UNCHANGED book
    \/ Write(t, "add", c, Add(b, k.nonce, k.row))
    \/ Write(t, "update", c, Update(b, k.nonce, k.row))
    \/ Write(t, "delete", c, [b EXCEPT ![k.nonce] = None])

Operate(t) ==
    /\ \E c \in Reached(t) : OperateOn(t, c)
    /\ astray' = astray \ {t}

\* Threads that are about another channel.
Elsewhere(t) == {u \in Threads : task[u].stage \in Operations /\ task[u].ch # task[t].ch}

\* Thread t reaches for its book, and may overtake threads that are elsewhere.
Reach(t) ==
    /\ task[t].stage \in Operations
    /\ \E S \in SUBSET Elsewhere(t) : astray' = (astray \ {t}) \cup S
    /\ UNCHANGED <<book, task>>

Next ==
    \E t \in Threads :
       \/ Reach(t) \/ Operate(t)
       \/ (Finish(t) \/ \E k \in Task : Start(t, k)) /\ UNCHANGED <<book, astray>>

Spec == Init /\ [][Next]_vars
=============================================================================
