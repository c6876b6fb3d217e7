-------------------------- MODULE TradeTableProofs --------------------------
(***************************************************************************)
(* TradeTable implements TradeBooks for any number of threads, channels,   *)
(* rows and nonces: a thread nobody overtook works on the book of its own  *)
(* channel, any other on some book.                                        *)
(***************************************************************************)
EXTENDS TradeTable, WellFoundedInduction, TLAPS

\* No two documents of one nonce, as the index of the collection asks for.
Clean(ds) ==
    /\ ds \subseteq Document
    /\ \A d, e \in ds : d.nonce = e.nonce => d = e

-----------------------------------------------------------------------------
(* What a collection stands for.                                           *)

\* A document is what its book holds under its nonce.
LEMMA BookHolds ==
    ASSUME NEW ds, Clean(ds), NEW d \in ds
    PROVE  d.nonce \in Nonces /\ d.row \in Rows /\ BookOf(ds)[d.nonce] = d.row
<1>1. d \in Document
    BY DEF Clean
<1>2. Under(d.nonce, ds) = {d}
    BY DEF Clean, Under
<1>3. d.nonce \in Nonces /\ d.row \in Rows
    BY <1>1 DEF Document
<1>4. (CHOOSE e \in Under(d.nonce, ds) : TRUE) = d
    BY <1>2
<1>5. Under(d.nonce, ds) # {}
    BY <1>2
<1>6. BookOf(ds)[d.nonce] = (CHOOSE e \in Under(d.nonce, ds) : TRUE).row
    BY <1>3, <1>5 DEF BookOf
<1> QED
    BY <1>3, <1>4, <1>6

\* A nonce has a row in the book when it has a document.
LEMMA BookLacks ==
    ASSUME NEW ds, Clean(ds), NEW n \in Nonces
    PROVE  BookOf(ds)[n] = None <=> Under(n, ds) = {}
<1>1. CASE Under(n, ds) = {}
    BY <1>1 DEF BookOf
<1>2. CASE Under(n, ds) # {}
    <2>1. PICK d \in Under(n, ds) : TRUE
        BY <1>2
    <2>2. d \in ds /\ d.nonce = n
        BY <2>1 DEF Under
    <2>3. BookOf(ds)[n] = d.row /\ d.row \in Rows
        BY <2>2, BookHolds
    <2> QED
        BY <1>2, <2>3, TradeTableAssumption
<1> QED
    BY <1>1, <1>2

\* Two collections, one of which has the documents of the other but for those of
\* the nonce n, stand for books that differ in n only.
LEMMA BookDiffers ==
    ASSUME NEW ds, NEW es, NEW n \in Nonces, NEW r \in Rows \cup {None},
           BookOf(es)[n] = r,
           \A m \in Nonces \ {n} : Under(m, es) = Under(m, ds)
    PROVE  BookOf(es) = [BookOf(ds) EXCEPT ![n] = r]
<1> DEFINE RowIn(u) == IF u = {} THEN None ELSE (CHOOSE d \in u : TRUE).row
<1>1. ASSUME NEW m \in Nonces \ {n} PROVE BookOf(es)[m] = BookOf(ds)[m]
    <2>1. BookOf(es)[m] = RowIn(Under(m, es)) /\ BookOf(ds)[m] = RowIn(Under(m, ds))
        BY DEF BookOf
    <2>2. Under(m, es) = Under(m, ds)
        OBVIOUS
    <2> HIDE DEF RowIn
    <2> QED
        BY <2>1, <2>2
<1>2. /\ BookOf(es) = [m \in Nonces |-> BookOf(es)[m]]
      /\ BookOf(ds) = [m \in Nonces |-> BookOf(ds)[m]]
    BY DEF BookOf
<1> QED
    BY <1>1, <1>2

-----------------------------------------------------------------------------
(* The operations of DBManager are those of the books.                     *)

\* insert_one adds a trade, or refuses.
LEMMA InsertAdds ==
    ASSUME NEW ds, Clean(ds), NEW n \in Nonces, NEW r \in Rows
    PROVE  /\ Clean(InsertOne(ds, n, r))
           /\ BookOf(InsertOne(ds, n, r)) = Books!Add(BookOf(ds), n, r)
<1> DEFINE new == [nonce |-> n, row |-> r]
           es == ds \cup {new}
<1>1. CASE Under(n, ds) # {}
    BY <1>1, BookLacks DEF InsertOne, Books!Add
<1>2. CASE Under(n, ds) = {}
    <2>1. InsertOne(ds, n, r) = es
        BY <1>2 DEF InsertOne
    <2>2. new \in Document /\ new.nonce = n /\ new.row = r
        BY DEF Document
    <2>3. \A d \in ds : d.nonce # n
        BY <1>2 DEF Under
    <2>4. Clean(es)
        BY <2>2, <2>3 DEF Clean
    <2>5. \A m \in Nonces \ {n} : Under(m, es) = Under(m, ds)
        BY <2>2 DEF Under
    <2>6. BookOf(es)[n] = r
        BY <2>2, <2>4, BookHolds
    <2>7. BookOf(es) = [BookOf(ds) EXCEPT ![n] = r]
        <3> HIDE DEF es
        <3> QED
            BY <2>5, <2>6, BookDiffers
    <2>8. BookOf(ds)[n] = None
        BY <1>2, BookLacks
    <2> QED
        BY <2>1, <2>4, <2>7, <2>8 DEF Books!Add
<1> QED
    BY <1>1, <1>2

\* update_one changes a trade, or nothing.
LEMMA UpdateUpdates ==
    ASSUME NEW ds, Clean(ds), NEW n \in Nonces, NEW r \in Rows
    PROVE  /\ Clean(UpdateOne(ds, n, r))
           /\ BookOf(UpdateOne(ds, n, r)) = Books!Update(BookOf(ds), n, r)
<1> DEFINE new == [nonce |-> n, row |-> r]
           es == UpdateOne(ds, n, r)
<1>1. CASE Under(n, ds) = {}
    <2>1. es = ds
        BY <1>1 DEF UpdateOne
    <2> QED
        BY <1>1, <2>1, BookLacks DEF Books!Update
<1>2. CASE Under(n, ds) # {}
    <2>1. \A d \in Under(n, ds) : [d EXCEPT !.row = r] = new
        BY DEF Under, Clean, Document
    <2>2. es = (ds \ Under(n, ds)) \cup {new}
        BY <1>2, <2>1 DEF UpdateOne
    <2>3. new \in Document /\ new.nonce = n /\ new.row = r
        BY DEF Document
    <2>4. \A d \in ds \ Under(n, ds) : d.nonce # n
        BY DEF Under
    <2>5. Clean(es)
        BY <2>2, <2>3, <2>4 DEF Clean
    <2>6. \A m \in Nonces \ {n} : Under(m, es) = Under(m, ds)
        BY <2>2, <2>3 DEF Under
    <2>7. BookOf(es)[n] = r
        BY <2>2, <2>3, <2>5, BookHolds
    <2>8. BookOf(es) = [BookOf(ds) EXCEPT ![n] = r]
        BY <2>5, <2>6, <2>7, BookDiffers
    <2>9. BookOf(ds)[n] # None
        BY <1>2, BookLacks
    <2> QED
        BY <2>5, <2>8, <2>9 DEF Books!Update
<1> QED
    BY <1>1, <1>2

\* delete_one takes the trade out.
LEMMA DeleteDeletes ==
    ASSUME NEW ds, Clean(ds), NEW n \in Nonces
    PROVE  /\ Clean(DeleteOne(ds, n))
           /\ BookOf(DeleteOne(ds, n)) = [BookOf(ds) EXCEPT ![n] = None]
<1> DEFINE es == DeleteOne(ds, n)
<1>1. Clean(es)
    BY DEF Clean, DeleteOne
<1>2. Under(n, es) = {}
    BY DEF DeleteOne, Under
<1>3. \A m \in Nonces \ {n} : Under(m, es) = Under(m, ds)
    BY DEF DeleteOne, Under
<1>4. BookOf(es)[n] = None
    BY <1>1, <1>2, BookLacks
<1>5. BookOf(es) = [BookOf(ds) EXCEPT ![n] = None]
    <2> HIDE DEF es
    <2> QED
        BY <1>3, <1>4, BookDiffers
<1> QED
    BY <1>1, <1>5

\* A book has a nonce for each document.
LEMMA UsedNonces ==
    ASSUME NEW ds, Clean(ds)
    PROVE  Books!Used(BookOf(ds)) = {d.nonce : d \in ds}
<1>1. ASSUME NEW n \in Books!Used(BookOf(ds)) PROVE \E d \in ds : d.nonce = n
    <2>1. n \in Nonces /\ BookOf(ds)[n] # None
        BY DEF Books!Used, Books!Nonces, Nonces
    <2>2. Under(n, ds) # {}
        BY <2>1, BookLacks
    <2> QED
        BY <2>2 DEF Under
<1>2. ASSUME NEW d \in ds PROVE d.nonce \in Books!Used(BookOf(ds))
    <2>1. d.nonce \in Nonces /\ BookOf(ds)[d.nonce] = d.row /\ d.row \in Rows
        BY BookHolds
    <2> QED
        BY <2>1, TradeTableAssumption DEF Books!Used, Books!Nonces, Nonces
<1> QED
    BY <1>1, <1>2

\* A set of nonces that is not empty has a greatest one: the one at the smallest
\* distance from MaxNonce.
LEMMA GreatestNonce ==
    ASSUME NEW N \in SUBSET Nonces, N # {}
    PROVE  \E n \in N : \A m \in N : m <= n
<1> DEFINE D == {MaxNonce - n : n \in N}
<1>1. MaxNonce \in Nat /\ N \subseteq 1 .. MaxNonce
    BY TradeTableAssumption DEF Nonces
<1>2. D \subseteq Nat /\ D # {}
    <2>1. \A n \in N : MaxNonce - n \in Nat
        BY <1>1
    <2> QED
        BY <2>1
<1>3. PICK d \in D : \A e \in D : d <= e
    <2> HIDE DEF D
    <2>1. PICK d \in D : \A e \in D : ~ (<<e, d>> \in OpToRel(<, Nat))
        BY <1>2, WFMin, NatLessThanWellFounded, Zenon
    <2>2. \A x, y \in Nat : x < y => <<x, y>> \in OpToRel(<, Nat)
        BY DEF OpToRel
    <2> DEFINE R == OpToRel(<, Nat)
    <2>3. \A e \in D : ~ (<<e, d>> \in R)
        BY <2>1
    <2>4. \A x, y \in Nat : x < y => <<x, y>> \in R
        BY <2>2
    <2> HIDE DEF R
    <2>5. \A e \in D : ~ (e < d)
        BY <1>2, <2>3, <2>4
    <2> QED
        BY <1>2, <2>5
<1>4. PICK n \in N : d = MaxNonce - n
    BY <1>3
<1>5. ASSUME NEW m \in N PROVE m <= n
    <2>1. d <= MaxNonce - m
        BY <1>3
    <2> QED
        BY <1>1, <1>4, <2>1
<1> QED
    BY <1>5

\* sort by nonce finds the newest trade of the book.
LEMMA LatestIsNewest ==
    ASSUME NEW ds, Clean(ds), ds # {}
    PROVE  Latest(ds).nonce = Books!Newest(BookOf(ds)) /\ Latest(ds).nonce \in Nonces
<1> DEFINE N == Books!Used(BookOf(ds))
<1>1. N = {d.nonce : d \in ds} /\ N \in SUBSET Nonces /\ N # {}
    BY UsedNonces, BookHolds
<1>2. PICK n \in N : \A m \in N : m <= n
    <2> HIDE DEF N
    <2> QED
        BY <1>1, GreatestNonce
<1>3. PICK d \in ds : d.nonce = n
    BY <1>1, <1>2
<1>4. \A e \in ds : e.nonce \in N
    BY <1>1
<1>5. \E c \in ds : \A e \in ds : e.nonce <= c.nonce
    BY <1>2, <1>3, <1>4
<1>6. Latest(ds) \in ds /\ \A e \in ds : e.nonce <= Latest(ds).nonce
    BY <1>5 DEF Latest
<1>7. Books!Newest(BookOf(ds)) \in N /\ \A m \in N : m <= Books!Newest(BookOf(ds))
    BY <1>2 DEF Books!Newest
<1>8. N \subseteq Int
    BY <1>1 DEF Nonces
<1>9. \A m \in N : \E e \in ds : e.nonce = m
    BY <1>1
<1> HIDE DEF N
<1>10. Latest(ds).nonce \in N /\ Books!Newest(BookOf(ds)) <= Latest(ds).nonce
    <2>1. PICK e \in ds : e.nonce = Books!Newest(BookOf(ds))
        BY <1>7, <1>9
    <2> QED
        BY <1>4, <1>6, <2>1
<1>11. Latest(ds).nonce <= Books!Newest(BookOf(ds))
    BY <1>7, <1>10
<1>12. Latest(ds).nonce \in Int /\ Books!Newest(BookOf(ds)) \in Int
    BY <1>7, <1>8, <1>10
<1>13. Latest(ds).nonce = Books!Newest(BookOf(ds))
    BY <1>10, <1>11, <1>12
<1> QED
    BY <1>1, <1>10, <1>13

-----------------------------------------------------------------------------
(* The invariant.                                                          *)

Inv ==
    /\ docs \in [Channels -> SUBSET Document]
    /\ \A c \in Channels : Clean(docs[c])
    /\ task \in [Threads -> Books!Task]
    /\ collection \in Channels
    /\ named \in [Threads -> BOOLEAN]
    /\ \A t \in Threads : named[t] => task[t].stage \in Books!Operations
    /\ overtaken \subseteq Threads

\* Whoever has named its channel and was not overtaken works on it.
OnOwn == \A t \in Threads : named[t] /\ t \notin overtaken => collection = task[t].ch

USE DEF Books!To, To, Books!Operations, Books!Stages, Books!Nonces, Nonces

LEMMA InitInv == Init => Inv /\ OnOwn
<1> SUFFICES ASSUME Init PROVE Inv /\ OnOwn
    OBVIOUS
<1>1. \A c \in Channels : \E r \in Rows : docs[c] = {[nonce |-> 1, row |-> r]}
    BY DEF Init
<1>2. 1 \in Nonces
    BY TradeTableAssumption DEF Nonces
<1>3. ASSUME NEW c \in Channels PROVE Clean(docs[c])
    BY <1>1, <1>2 DEF Clean, Document
<1>4. docs \in [Channels -> SUBSET Document]
    <2>1. docs = [c \in Channels |-> docs[c]]
        BY DEF Init
    <2> QED
        BY <1>3, <2>1 DEF Clean
<1>5. task \in [Threads -> Books!Task]
    BY DEF Init
<1> QED
    BY <1>3, <1>4, <1>5 DEF Init, Inv, OnOwn

\* An operation on a clean collection leaves one, and reads a nonce of the book.
LEMMA OperateKeeps ==
    ASSUME Inv, NEW t \in Threads, Operate(t)
    PROVE  /\ task' \in [Threads -> Books!Task]
           /\ task'[t].ch = task[t].ch
           /\ \A u \in Threads \ {t} : task'[u] = task[u]
           /\ docs' \in [Channels -> SUBSET Document]
           /\ \A c \in Channels : Clean(docs'[c])
<1> DEFINE k == task[t]
           ds == docs[collection]
<1>1. k \in Books!Task /\ Clean(ds) /\ collection \in Channels
    BY DEF Inv
<1>2. k.nonce \in Nonces /\ k.row \in Rows /\ k.ch \in Channels
    BY <1>1 DEF Books!Task
<1>3. ASSUME NEW op, NEW es, Write(t, op, es), Clean(es)
      PROVE  /\ task' \in [Threads -> Books!Task]
             /\ task'[t].ch = task[t].ch
             /\ \A u \in Threads \ {t} : task'[u] = task[u]
             /\ docs' \in [Channels -> SUBSET Document]
             /\ \A c \in Channels : Clean(docs'[c])
    <2>1. docs' = [docs EXCEPT ![collection] = es] /\ es \subseteq Document
        BY <1>3 DEF Write, Clean
    <2>2. /\ task' \in [Threads -> Books!Task] /\ task'[t].ch = task[t].ch
          /\ \A u \in Threads \ {t} : task'[u] = task[u]
        BY <1>3 DEF Write, Inv, Books!Task
    <2>3. docs' \in [Channels -> SUBSET Document]
        BY <2>1 DEF Inv
    <2>4. \A c \in Channels : docs'[c] = IF c = collection THEN es ELSE docs[c]
        BY <2>1 DEF Inv
    <2>5. \A c \in Channels : Clean(docs'[c])
        BY <1>3, <2>4 DEF Inv
    <2> QED
        BY <2>2, <2>3, <2>5
<1>4. CASE NewNonce(t, ds) /\ UNCHANGED docs
    <2>1. Latest(ds).nonce \in Nonces /\ Latest(ds).nonce < MaxNonce
        BY <1>1, <1>4, LatestIsNewest DEF NewNonce
    <2>2. Latest(ds).nonce + 1 \in Nonces
        BY <2>1, TradeTableAssumption DEF Nonces
    <2>3. [k EXCEPT !.nonce = Latest(ds).nonce + 1, !.stage = "add"] \in Books!Task
        BY <1>1, <2>2 DEF Books!Task
    <2>4. task' = [task EXCEPT ![t] = [k EXCEPT !.nonce = Latest(ds).nonce + 1, !.stage = "add"]]
        BY <1>4 DEF NewNonce, Inv
    <2>5. task' \in [Threads -> Books!Task]
        BY <2>3, <2>4 DEF Inv
    <2>6. task'[t].ch = task[t].ch /\ \A u \in Threads \ {t} : task'[u] = task[u]
        BY <1>1, <2>4 DEF Inv, Books!Task
    <2> QED
        BY <1>4, <2>5, <2>6 DEF Inv
<1>5. CASE Lookup(t, ds) /\ UNCHANGED docs
    BY <1>5 DEF Lookup, Inv, Books!Task
<1>6. CASE Write(t, "add", InsertOne(ds, k.nonce, k.row))
    BY <1>1, <1>2, <1>3, <1>6, InsertAdds
<1>7. CASE Write(t, "update", UpdateOne(ds, k.nonce, k.row))
    BY <1>1, <1>2, <1>3, <1>7, UpdateUpdates
<1>8. CASE Write(t, "delete", DeleteOne(ds, k.nonce))
    BY <1>1, <1>2, <1>3, <1>8, DeleteDeletes
<1> QED
    BY <1>4, <1>5, <1>6, <1>7, <1>8 DEF Operate

\* The invariant is kept, whoever is about.
LEMMA NextInv == Inv /\ [Next]_vars => Inv'
<1> SUFFICES ASSUME Inv, [Next]_vars PROVE Inv'
    OBVIOUS
<1>1. ASSUME NEW t \in Threads, SetCollection(t) PROVE Inv'
    BY <1>1 DEF SetCollection, Overtakes, Inv, Books!Task
<1>2. ASSUME NEW t \in Threads, Operate(t) PROVE Inv'
    <2>1. named' = [named EXCEPT ![t] = FALSE] /\ collection' = collection /\ overtaken' \subseteq overtaken
        BY <1>2 DEF Operate
    <2>2. \A u \in Threads \ {t} : task'[u] = task[u]
        BY <1>2, OperateKeeps
    <2>3. \A u \in Threads : named'[u] => task'[u].stage \in Books!Operations
        BY <2>1, <2>2 DEF Inv
    <2>4. named' \in [Threads -> BOOLEAN] /\ collection' \in Channels /\ overtaken' \subseteq Threads
        BY <2>1 DEF Inv
    <2>5. /\ task' \in [Threads -> Books!Task]
          /\ docs' \in [Channels -> SUBSET Document]
          /\ \A c \in Channels : Clean(docs'[c])
        BY <1>2, OperateKeeps
    <2> QED
        BY <2>3, <2>4, <2>5 DEF Inv
<1>3. ASSUME NEW t \in Threads, Finish(t) PROVE Inv'
    BY <1>3 DEF Finish, Books!Finish, Inv, Books!Task
<1>4. ASSUME NEW t \in Threads, NEW k \in Books!Task, Start(t, k) PROVE Inv'
    BY <1>4 DEF Start, Books!Start, Inv
<1>5. CASE UNCHANGED vars
    BY <1>5 DEF vars, Inv
<1> QED
    BY <1>1, <1>2, <1>3, <1>4, <1>5 DEF Next

\* Naming a channel overtakes those that have named a different one; what else
\* threads do moves no collection.
LEMMA NextOnOwn == Inv /\ OnOwn /\ [Next]_vars => OnOwn'
<1> SUFFICES ASSUME Inv, OnOwn, [Next]_vars PROVE OnOwn'
    OBVIOUS
<1>1. ASSUME NEW t \in Threads, SetCollection(t) PROVE OnOwn'
    <2>1. /\ task' = task /\ collection' = task[t].ch
          /\ overtaken' = Overtakes(t)
          /\ \A u \in Threads : u # t => named'[u] = named[u]
        BY <1>1 DEF SetCollection, Inv
    <2>2. ASSUME NEW u \in Threads, named'[u], u \notin overtaken' PROVE collection' = task'[u].ch
        <3>1. CASE u = t
            BY <2>1, <3>1
        <3>2. CASE u # t
            BY <2>1, <2>2, <3>2 DEF Overtakes
        <3> QED
            BY <3>1, <3>2
    <2> QED
        BY <2>2 DEF OnOwn
<1>2. ASSUME NEW t \in Threads, Operate(t) PROVE OnOwn'
    <2>1. /\ named' = [named EXCEPT ![t] = FALSE] /\ collection' = collection
          /\ overtaken' = overtaken \ {t}
        BY <1>2 DEF Operate
    <2>2. \A u \in Threads \ {t} : task'[u] = task[u]
        BY <1>2, OperateKeeps
    <2> QED
        BY <2>1, <2>2 DEF OnOwn, Inv
<1>3. ASSUME NEW t \in Threads, Finish(t) PROVE OnOwn'
    BY <1>3 DEF Finish, Books!Finish, OnOwn, Inv, Books!Task
<1>4. ASSUME NEW t \in Threads, NEW k \in Books!Task, Start(t, k) PROVE OnOwn'
    BY <1>4 DEF Start, Books!Start, OnOwn, Inv
<1>5. CASE UNCHANGED vars
    BY <1>5 DEF vars, OnOwn
<1> QED
    BY <1>1, <1>2, <1>3, <1>4, <1>5 DEF Next

-----------------------------------------------------------------------------
(* The refinement.                                                         *)

\* The books the collections stand for.
Shelf == [c \in Channels |-> BookOf(docs[c])]

LEMMA InitMaps == Init => Books!Init
<1> SUFFICES ASSUME Init PROVE Books!Init
    OBVIOUS
<1>1. Inv
    BY InitInv
<1>2. ASSUME NEW c \in Channels
      PROVE  \E r \in Rows : BookOf(docs[c]) = [n \in Nonces |-> IF n = 1 THEN r ELSE None]
    <2>1. PICK r \in Rows : docs[c] = {[nonce |-> 1, row |-> r]}
        BY DEF Init
    <2>2. Clean(docs[c])
        BY <1>1 DEF Inv
    <2>3. BookOf(docs[c])[1] = r
        <3>1. PICK d \in docs[c] : d.nonce = 1 /\ d.row = r
            BY <2>1
        <3> QED
            BY <2>2, <3>1, BookHolds
    <2>4. ASSUME NEW n \in Nonces, n # 1 PROVE BookOf(docs[c])[n] = None
        <3>1. Under(n, docs[c]) = {}
            BY <2>1, <2>4 DEF Under
        <3> QED
            BY <2>2, <3>1, BookLacks
    <2>5. BookOf(docs[c]) = [n \in Nonces |-> BookOf(docs[c])[n]]
        BY DEF BookOf
    <2> HIDE DEF Nonces
    <2>6. BookOf(docs[c]) = [n \in Nonces |-> IF n = 1 THEN r ELSE None]
        BY <2>3, <2>4, <2>5
    <2> QED
        BY <2>6
<1>3. task \in [Threads -> {k \in Books!Task : k.stage = "idle"}] /\ overtaken = {}
    BY DEF Init
<1> QED
    BY <1>2, <1>3 DEF Books!Init

\* A write to the collection that is set is a write to the book it stands for.
LEMMA WriteMaps ==
    ASSUME Inv, NEW t \in Threads, NEW op, NEW es, NEW b,
           Write(t, op, es), BookOf(es) = b
    PROVE  Books!Write(t, op, collection, b)
<1>1. docs' = [docs EXCEPT ![collection] = es] /\ collection \in Channels
    BY DEF Write, Inv
<1>2. \A c \in Channels : docs'[c] = IF c = collection THEN es ELSE docs[c]
    BY <1>1 DEF Inv
<1>3. Shelf' = [Shelf EXCEPT ![collection] = b]
    <2>1. Shelf' = [c \in Channels |-> BookOf(docs'[c])]
        BY DEF Shelf
    <2>2. \A c \in Channels : BookOf(docs'[c]) = IF c = collection THEN b ELSE BookOf(docs[c])
        BY <1>2
    <2> QED
        BY <1>1, <2>1, <2>2 DEF Shelf
<1> QED
    BY <1>3 DEF Write, Books!Write, Shelf

\* An operation on the collection that is set is one on the book it stands for.
LEMMA OperateMaps ==
    ASSUME Inv, NEW t \in Threads, Operate(t)
    PROVE  Books!OperateOn(t, collection)
<1> DEFINE k == task[t]
           ds == docs[collection]
           b == Shelf[collection]
<1>1. collection \in Channels /\ k \in Books!Task
    BY DEF Inv
<1>2. Clean(ds) /\ b = BookOf(ds) /\ k.nonce \in Nonces /\ k.row \in Rows
    BY <1>1 DEF Inv, Shelf, Books!Task
<1>3. CASE NewNonce(t, ds) /\ UNCHANGED docs
    <2>1. Books!Used(b) # {}
        <3>1. PICK d \in ds : TRUE
            BY <1>3 DEF NewNonce
        <3>2. Books!Used(b) = {e.nonce : e \in ds}
            BY <1>2, UsedNonces
        <3> QED
            BY <3>1, <3>2
    <2>2. Latest(ds).nonce = Books!Newest(b)
        BY <1>2, <1>3, LatestIsNewest DEF NewNonce
    <2>3. Books!NewNonce(t, b)
        BY <1>3, <2>1, <2>2 DEF NewNonce, Books!NewNonce
    <2>4. Shelf' = Shelf
        BY <1>3 DEF Shelf
    <2> QED
        BY <2>3, <2>4 DEF Books!OperateOn, Shelf
<1>4. CASE Lookup(t, ds) /\ UNCHANGED docs
    <2>1. b[k.nonce] = None <=> Under(k.nonce, ds) = {}
        BY <1>2, BookLacks
    <2>2. Books!Lookup(t, b)
        BY <1>4, <2>1 DEF Lookup, Books!Lookup
    <2>3. Shelf' = Shelf
        BY <1>4 DEF Shelf
    <2> QED
        BY <2>2, <2>3 DEF Books!OperateOn, Shelf
<1>5. CASE Write(t, "add", InsertOne(ds, k.nonce, k.row))
    <2>1. Books!Write(t, "add", collection, Books!Add(b, k.nonce, k.row))
        BY <1>2, <1>5, InsertAdds, WriteMaps
    <2> QED
        BY <2>1 DEF Books!OperateOn, Shelf
<1>6. CASE Write(t, "update", UpdateOne(ds, k.nonce, k.row))
    <2>1. Books!Write(t, "update", collection, Books!Update(b, k.nonce, k.row))
        BY <1>2, <1>6, UpdateUpdates, WriteMaps
    <2> QED
        BY <2>1 DEF Books!OperateOn, Shelf
<1>7. CASE Write(t, "delete", DeleteOne(ds, k.nonce))
    <2>1. Books!Write(t, "delete", collection, [b EXCEPT ![k.nonce] = None])
        BY <1>2, <1>7, DeleteDeletes, WriteMaps
    <2> QED
        BY <2>1 DEF Books!OperateOn, Shelf
<1> QED
    BY <1>3, <1>4, <1>5, <1>6, <1>7 DEF Operate

LEMMA NextMaps == Inv /\ OnOwn /\ [Next]_vars => [Books!Next]_(Books!vars)
<1> SUFFICES ASSUME Inv, OnOwn, [Next]_vars PROVE Books!Next \/ UNCHANGED Books!vars
    OBVIOUS
<1>1. ASSUME NEW t \in Threads, SetCollection(t) PROVE Books!Reach(t)
    <2> DEFINE S == {u \in Threads : named[u] /\ task[u].ch # task[t].ch}
    <2>1. S \in SUBSET Books!Elsewhere(t)
        BY DEF Inv, Books!Elsewhere
    <2>2. overtaken' = (overtaken \ {t}) \cup S
        BY <1>1 DEF SetCollection, Overtakes
    <2>3. task[t].stage \in Books!Operations /\ docs' = docs /\ task' = task
        BY <1>1 DEF SetCollection
    <2> HIDE DEF S
    <2> QED
        BY <2>1, <2>2, <2>3 DEF Books!Reach
<1>2. ASSUME NEW t \in Threads, Operate(t) PROVE Books!Operate(t)
    <2>1. Books!OperateOn(t, collection)
        BY <1>2, OperateMaps
    <2>2. collection \in Books!Reached(t)
        BY <1>2 DEF Operate, OnOwn, Inv, Books!Reached
    <2>3. overtaken' = overtaken \ {t}
        BY <1>2 DEF Operate
    <2> QED
        BY <2>1, <2>2, <2>3 DEF Books!Operate
<1>3. ASSUME NEW t \in Threads, Finish(t) PROVE Books!Next
    BY <1>3 DEF Finish, Books!Next
<1>4. ASSUME NEW t \in Threads, NEW k \in Books!Task, Start(t, k) PROVE Books!Next
    BY <1>4 DEF Start, Books!Next
<1>5. CASE UNCHANGED vars
    BY <1>5 DEF vars, Books!vars
<1> QED
    BY <1>1, <1>2, <1>3, <1>4, <1>5 DEF Next, Books!Next

\* The collections keep one document per nonce, whatever threads do on whatever
\* channels: a second one is refused by the index (DBManager.add).
THEOREM TypeCorrect == Spec => []TypeOK
<1>1. Inv => TypeOK
    BY DEF Inv, TypeOK, Unique, Clean
<1> QED
    BY <1>1, InitInv, NextInv, PTL DEF Spec

\* However many threads work on however many channels, what they find in the table
\* and write to it is what one operation on one book would find and write: the book
\* of the thread's own channel, unless another thread named a different channel
\* before it got to work (APITransaction, DBManager).
THEOREM TableImplementsBooks == Spec => Implements
<1>1. Init => Inv /\ OnOwn
    BY InitInv
<1>2. Inv /\ OnOwn /\ [Next]_vars => Inv' /\ OnOwn'
    BY NextInv, NextOnOwn
<1> QED
    BY <1>1, <1>2, InitMaps, NextMaps, PTL DEF Spec, Implements, Books!Spec
=============================================================================
