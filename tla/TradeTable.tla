----------------------------- MODULE TradeTable -----------------------------
(***************************************************************************)
(* The trade table of a wallet as it is: documents in one collection per   *)
(* channel, with a unique index on the nonce, behind one table object that *)
(* the class APITransaction holds.  An operation names its channel first   *)
(* (APITransaction(name) sets the collection of the object) and then works *)
(* on whatever collection is set: in between another thread may have named *)
(* its own, of which a history variable keeps account.  This module        *)
(* implements TradeBooks, where such a thread is astray.                   *)
(*                                                                         *)
(* The channels are those whose founding trade is stored: their collection *)
(* has its index.                                                          *)
(***************************************************************************)
EXTENDS Integers

CONSTANTS Threads, Channels, Rows, None, MaxNonce

ASSUME TradeTableAssumption == None \notin Rows /\ MaxNonce \in Nat \ {0}

VARIABLES
    docs,          \* docs[c]: the documents of the collection of channel c
    task,          \* as in TradeBooks
    collection,    \* the channel whose collection the table works on
    named,         \* named[t]: thread t has named its channel
    overtaken      \* history: the threads that named theirs before another named a different one

vars == <<docs, task, collection, named, overtaken>>

Nonces == 1 .. MaxNonce
Document == [nonce : Nonces, row : Rows]

Under(n, ds) == {d \in ds : d.nonce = n}

\* The book a collection stands for.
BookOf(ds) ==
    [n \in Nonces |-> IF Under(n, ds) = {} THEN None ELSE (CHOOSE d \in Under(n, ds) : TRUE).row]

Books == INSTANCE TradeBooks WITH book <- [c \in Channels |-> BookOf(docs[c])], astray <- overtaken

Unique == \A c \in Channels : \A d, e \in docs[c] : d.nonce = e.nonce => d = e

TypeOK ==
    /\ docs \in [Channels -> SUBSET Document]
    /\ task \in [Threads -> Books!Task]
    /\ collection \in Channels
    /\ named \in [Threads -> BOOLEAN]
    /\ overtaken \subseteq Threads
    /\ Unique

Init ==
    /\ docs \in [Channels -> {{[nonce |-> 1, row |-> r]} : r \in Rows}]
    /\ task \in [Threads -> {k \in Books!Task : k.stage = "idle"}]
    /\ collection \in Channels
    /\ named = [t \in Threads |-> FALSE]
    /\ overtaken = {}

-----------------------------------------------------------------------------
(* The operations of DBManager on the documents ds.                        *)

\* Mutant of InsertOne: the index is not unique.
InsertOneMore(ds, n, r) == ds \cup {[nonce |-> n, row |-> r]}

\* add: DuplicateKeyError is caught, the status it gives is not looked at.
InsertOne(ds, n, r) ==
    IF Under(n, ds) = {} THEN ds \cup {[nonce |-> n, row |-> r]} ELSE ds

\* update_one: no document is added for one that does not match.
UpdateOne(ds, n, r) ==
    (ds \ Under(n, ds)) \cup {[d EXCEPT !.row = r] : d \in Under(n, ds)}

DeleteOne(ds, n) == ds \ Under(n, ds)

\* sort by nonce, descending, and the first of it.
Latest(ds) == CHOOSE d \in ds : \A e \in ds : e.nonce <= d.nonce

-----------------------------------------------------------------------------
(* A thread.                                                               *)

To(t, stage) == task' = [task EXCEPT ![t].stage = stage]

Start(t, k) == Books!Start(t, k) /\ UNCHANGED <<docs, collection, named, overtaken>>

Finish(t) == Books!Finish(t) /\ UNCHANGED <<docs, collection, named, overtaken>>

\* Thread t names its channel: those that named a different one and have not
\* worked on it yet are overtaken.
Overtakes(t) == (overtaken \ {t}) \cup {u \in Threads : named[u] /\ task[u].ch # task[t].ch}

\* Mutant of SetCollection: a channel is named before reading only.
SetCollectionToRead(t) ==
    /\ task[t].stage \in Books!Operations /\ ~named[t]
    /\ collection' = IF task[t].stage \in {"newest", "lookup"} THEN task[t].ch ELSE collection
    /\ named' = [named EXCEPT ![t] = TRUE]
    /\ overtaken' = Overtakes(t)
    /\ UNCHANGED <<docs, task>>

\* APITransaction(channel_name)
SetCollection(t) ==
    /\ task[t].stage \in Books!Operations /\ ~named[t]
    /\ collection' = task[t].ch
    /\ named' = [named EXCEPT ![t] = TRUE]
    /\ overtaken' = Overtakes(t)
    /\ UNCHANGED <<docs, task>>

\* new_nonce, of latest_nonce; without a trade it raises, and the nonces have a bound.
NewNonce(t, ds) ==
    /\ task[t].stage = "newest"
    /\ ds # {} /\ Latest(ds).nonce < MaxNonce
    /\ task' = [task EXCEPT ![t] = [@ EXCEPT !.nonce = Latest(ds).nonce + 1, !.stage = "add"]]

\* query_trade in record_transaction
Lookup(t, ds) ==
    /\ task[t].stage = "lookup"
    /\ To(t, IF Under(task[t].nonce, ds) = {} THEN "add" ELSE "update")

\* An operation changes the collection that is set.
Write(t, op, ds) ==
    /\ task[t].stage = op
    /\ docs' = [docs EXCEPT ![collection] = ds]
    /\ To(t, "done")

\* db_table is looked up when the operation runs.  add looks it up three times, for
\* a test, create_index and insert_one: a collection that has its index is not
\* changed by the first two, whichever it is, and the last says where the row goes.
Operate(t) ==
    LET k == task[t]
        ds == docs[collection] IN
    /\ named[t]
    /\ named' = [named EXCEPT ![t] = FALSE]
    /\ overtaken' = overtaken \ {t}
    /\ UNCHANGED collection
    /\ \/ (NewNonce(t, ds) \/ Lookup(t, ds)) /\ UNCHANGED docs
       \/ Write(t, "add", InsertOne(ds, k.nonce, k.row))
       \/ Write(t, "update", UpdateOne(ds, k.nonce, k.row))
       \/ Write(t, "delete", DeleteOne(ds, k.nonce))

Next ==
    \E t \in Threads :
       SetCollection(t) \/ Operate(t) \/ Finish(t) \/ \E k \in Books!Task : Start(t, k)

Spec == Init /\ [][Next]_vars
-----------------------------------------------------------------------------
(* Properties.                                                             *)

\* What several threads do with the collections of several channels is what they
\* would do with a book per channel and operations of one step, and the book is that
\* of the thread's own channel unless another thread, about a different channel,
\* came between naming the channel and working on it (APITransaction,
\* TBLTransaction.db_table, DBManager).  Such an operation may go to another
\* channel, but it is still one operation on one book and keeps its nonces unique.
Implements == Books!Spec
=============================================================================
