----------------------------- MODULE AtomicRef ------------------------------
(***************************************************************************)
(* Counted references: Ref and CntObject of common/refcnt.hpp, and the     *)
(* lock-free AtomicRef of common/AtomicRef.h that threads share them by.   *)
(*                                                                         *)
(* An AtomicRef is one word: a pointer and the number of references to its *)
(* object that are in reserve.  A thread that loads the pointer takes a    *)
(* reference out of the reserve, and does not touch the object's counter;  *)
(* one that leaves the reserve low refills it.  A step is one access to    *)
(* the word or to a counter.  The memory of a deleted object is used       *)
(* again.                                                                  *)
(***************************************************************************)
EXTENDS Integers, FiniteSets

CONSTANTS
  Threads,
  Objects,   \* the places of objects in memory
  NoObj,     \* the null pointer
  Batch      \* BATCH_SIZE (100)

ASSUME AtomicRefAssumption ==
  /\ IsFiniteSet(Threads) /\ Threads # {} /\ NoObj \notin Objects
  /\ Batch \in Nat /\ Batch >= 2

VARIABLES
  word,   \* ptr_: a pointer and the references in reserve
  cnt,    \* cnt_ of the object in each place
  live,   \* the places that hold an object
  held,   \* the Ref of each thread
  owed,   \* references that a thread's operation has still to pass on
  pc

vars == <<word, cnt, live, held, owed, pc>>

Half == Batch \div 2
Empty == [obj |-> NoObj, cnt |-> 0]
Nothing == [obj |-> NoObj, n |-> 0]

Init ==
  /\ word = Empty /\ cnt = [o \in Objects |-> 0] /\ live = {}
  /\ held = [t \in Threads |-> NoObj] /\ owed = [t \in Threads |-> Nothing]
  /\ pc = [t \in Threads |-> "idle"]

---------------------------------------------------------------------------
(* Ref.                                                                    *)

Hold(t, o) == held' = [held EXCEPT ![t] = o]
Owe(t, o, n) == owed' = [owed EXCEPT ![t] = [obj |-> o, n |-> n]]
Goto(t, l) == pc' = [pc EXCEPT ![t] = l]

\* Constructor of CntObject, in memory that is not in use.
Create(o) == cnt' = [cnt EXCEPT ![o] = 1] /\ live' = live \cup {o}

AcquireShared(o, n) == cnt' = [cnt EXCEPT ![o] = @ + n] /\ UNCHANGED live

\* The references that bring the counter to zero delete the object.
ReleaseShared(o, n) ==
  /\ cnt' = [cnt EXCEPT ![o] = @ - n]
  /\ live' = IF cnt[o] = n THEN live \ {o} ELSE live

New(t) ==
  /\ pc[t] = "idle" /\ held[t] = NoObj
  /\ \E o \in Objects \ live : Create(o) /\ Hold(t, o)
  /\ UNCHANGED <<word, owed, pc>>

\* A copy of t's Ref is handed to u.
Copy(t, u) ==
  /\ pc[t] = "idle" /\ held[t] # NoObj
  /\ pc[u] = "idle" /\ held[u] = NoObj
  /\ AcquireShared(held[t], 1) /\ Hold(u, held[t])
  /\ UNCHANGED <<word, owed, pc>>

Clear(t) ==
  /\ pc[t] = "idle" /\ held[t] # NoObj
  /\ ReleaseShared(held[t], 1) /\ Hold(t, NoObj)
  /\ UNCHANGED <<word, owed, pc>>

\* Fault: the object is thought unique with two references.
WriteUnique_OffByOne(t) ==
  /\ pc[t] = "idle" /\ held[t] # NoObj /\ cnt[held[t]] <= 2
  /\ Goto(t, "write")
  /\ UNCHANGED <<word, cnt, live, held, owed>>

\* write() and unique_write() of a Ref that is_unique.
WriteUnique(t) ==
  /\ pc[t] = "idle" /\ held[t] # NoObj /\ cnt[held[t]] = 1
  /\ Goto(t, "write")
  /\ UNCHANGED <<word, cnt, live, held, owed>>

\* write() of one that is not: the reference to the original goes last.
WriteCopy(t) ==
  /\ pc[t] = "idle" /\ held[t] # NoObj /\ cnt[held[t]] # 1
  /\ \E o \in Objects \ live : Create(o) /\ Hold(t, o)
  /\ Owe(t, held[t], 1) /\ Goto(t, "copied")
  /\ UNCHANGED <<word>>

\* The caller is done with what write() returned.
WriteEnd(t) ==
  /\ pc[t] = "write" /\ Goto(t, "idle")
  /\ UNCHANGED <<word, cnt, live, held, owed>>

\* The owed references are given back.
GiveBack(t) ==
  /\ pc[t] \in {"release", "copied"}
  /\ ReleaseShared(owed[t].obj, owed[t].n) /\ Owe(t, NoObj, 0)
  /\ Goto(t, IF pc[t] = "copied" THEN "write" ELSE "idle")
  /\ UNCHANGED <<word, held>>

---------------------------------------------------------------------------
(* AtomicRefLockfree.  Its loops go round with the word that they last     *)
(* read until they leave or their compare_exchange finds that very word.   *)
(* A round that fails only reads again, so that an action is taken on the  *)
(* word as it is: the round that succeeds, or a read that ends the loop.   *)

\* The first read of load().
LoadStart(t) ==
  /\ pc[t] = "idle" /\ held[t] = NoObj /\ word.obj # NoObj /\ Goto(t, "load")
  /\ UNCHANGED <<word, cnt, live, held, owed>>

\* The cell has become empty, maybe while the thread yielded to a refill.
LoadEmpty(t) ==
  /\ pc[t] = "load" /\ word.obj = NoObj /\ Goto(t, "idle")
  /\ UNCHANGED <<word, cnt, live, held, owed>>

\* Fault: the reserve is refilled only when it was empty before.
LoadTake_Late(t) ==
  /\ pc[t] = "load" /\ word.obj # NoObj /\ word.cnt > 0
  /\ word' = [word EXCEPT !.cnt = @ - 1] /\ Hold(t, word.obj)
  /\ Goto(t, IF word.cnt = 0 THEN "reserve" ELSE "idle")
  /\ UNCHANGED <<cnt, live, owed>>

\* A reference out of the reserve; with none there the thread yields.
LoadTake(t) ==
  /\ pc[t] = "load" /\ word.obj # NoObj /\ word.cnt > 0
  /\ word' = [word EXCEPT !.cnt = @ - 1] /\ Hold(t, word.obj)
  /\ Goto(t, IF word.cnt - 1 < Half THEN "reserve" ELSE "idle")
  /\ UNCHANGED <<cnt, live, owed>>

\* Fault: try_reserve adds its batch to a word that was refilled since.
Low_Always(o) == word.obj = o

Low(o) == word.obj = o /\ word.cnt < Half

\* try_reserve, which load() calls with the object it got: references first.
ReserveStart(t) ==
  /\ pc[t] = "reserve"
  /\ AcquireShared(held[t], Batch) /\ Owe(t, held[t], Batch)
  /\ Goto(t, IF Low(held[t]) THEN "refill" ELSE "release")
  /\ UNCHANGED <<word, held>>

Refill(t) ==
  /\ pc[t] = "refill" /\ Low(held[t])
  /\ word' = [word EXCEPT !.cnt = @ + Batch] /\ Owe(t, NoObj, 0) /\ Goto(t, "idle")
  /\ UNCHANGED <<cnt, live, held>>

\* Somebody else refilled or replaced the word.
ReserveGiveUp(t) ==
  /\ pc[t] = "refill" /\ ~Low(held[t]) /\ Goto(t, "release")
  /\ UNCHANGED <<word, cnt, live, held, owed>>

\* store(): the Ref becomes the word's, with a batch in reserve.
StoreStart(t) ==
  /\ pc[t] = "idle" /\ Hold(t, NoObj) /\ Goto(t, "store")
  /\ IF held[t] = NoObj
     THEN UNCHANGED <<cnt, live, owed>>
     ELSE AcquireShared(held[t], Batch) /\ Owe(t, held[t], Batch + 1)
  /\ UNCHANGED word

\* Fault: the word's own reference to the old object is forgotten.
StoreSwap_Leak(t) ==
  /\ pc[t] = "store"
  /\ word' = [obj |-> owed[t].obj, cnt |-> IF owed[t].obj = NoObj THEN 0 ELSE Batch]
  /\ IF word.cnt = 0
     THEN Owe(t, NoObj, 0) /\ Goto(t, "idle")
     ELSE Owe(t, word.obj, word.cnt) /\ Goto(t, "release")
  /\ UNCHANGED <<cnt, live, held>>

\* What was in the word is the thread's to give back.
StoreSwap(t) ==
  /\ pc[t] = "store"
  /\ word' = [obj |-> owed[t].obj, cnt |-> IF owed[t].obj = NoObj THEN 0 ELSE Batch]
  /\ IF word.obj = NoObj
     THEN Owe(t, NoObj, 0) /\ Goto(t, "idle")
     ELSE Owe(t, word.obj, word.cnt + 1) /\ Goto(t, "release")
  /\ UNCHANGED <<cnt, live, held>>

\* store_if_empty() counts its references before it looks.
FillStart(t) ==
  /\ pc[t] = "idle" /\ held[t] # NoObj
  /\ AcquireShared(held[t], Batch + 1) /\ Owe(t, held[t], Batch + 1)
  /\ Goto(t, IF word.obj = NoObj THEN "fill" ELSE "release")
  /\ UNCHANGED <<word, held>>

\* Fault: the word is overwritten, whatever it holds by now.
Fill_Unchecked(t) ==
  /\ pc[t] = "fill"
  /\ word' = [obj |-> held[t], cnt |-> Batch] /\ Owe(t, NoObj, 0) /\ Goto(t, "idle")
  /\ UNCHANGED <<cnt, live, held>>

Fill(t) ==
  /\ pc[t] = "fill" /\ word.obj = NoObj
  /\ word' = [obj |-> held[t], cnt |-> Batch] /\ Owe(t, NoObj, 0) /\ Goto(t, "idle")
  /\ UNCHANGED <<cnt, live, held>>

FillFails(t) ==
  /\ pc[t] = "fill" /\ word.obj # NoObj /\ Goto(t, "release")
  /\ UNCHANGED <<word, cnt, live, held, owed>>

\* extract(): an exchange; the reserve is given back, the last one returned.
Extract(t) ==
  /\ pc[t] = "idle" /\ held[t] = NoObj
  /\ word' = Empty /\ Hold(t, word.obj)
  /\ IF word.cnt = 0
     THEN UNCHANGED <<owed, pc>>
     ELSE Owe(t, word.obj, word.cnt) /\ Goto(t, "release")
  /\ UNCHANGED <<cnt, live>>

\* The destructor and the constructors run when no operation does.
Quiet == \A t \in Threads : pc[t] = "idle"

Destroy ==
  /\ Quiet /\ word.obj # NoObj
  /\ ReleaseShared(word.obj, word.cnt + 1) /\ word' = Empty
  /\ UNCHANGED <<held, owed, pc>>

Construct(t) ==
  /\ Quiet /\ word = Empty /\ held[t] # NoObj
  /\ AcquireShared(held[t], Batch)
  /\ word' = [obj |-> held[t], cnt |-> Batch] /\ Hold(t, NoObj)
  /\ UNCHANGED <<owed, pc>>

---------------------------------------------------------------------------
\* A step of an operation that has begun.
InCall(t) ==
  \/ GiveBack(t) \/ WriteEnd(t)
  \/ LoadEmpty(t) \/ LoadTake(t)
  \/ ReserveStart(t) \/ Refill(t) \/ ReserveGiveUp(t)
  \/ StoreSwap(t) \/ Fill(t) \/ FillFails(t)

Call(t) ==
  \/ New(t) \/ Clear(t) \/ WriteUnique(t) \/ WriteCopy(t)
  \/ LoadStart(t) \/ StoreStart(t) \/ FillStart(t) \/ Extract(t)
  \/ Construct(t) \/ \E u \in Threads : Copy(t, u)

Next == Destroy \/ \E t \in Threads : Call(t) \/ InCall(t)

\* A thread in an operation is scheduled now and then.
Spec == Init /\ [][Next]_vars /\ \A t \in Threads : WF_vars(InCall(t))

---------------------------------------------------------------------------
(* Properties.                                                             *)

Locations == {"idle", "load", "reserve", "refill", "store", "fill", "release", "copied", "write"}
Words == [obj : Objects \cup {NoObj}, cnt : 0 .. Batch + Half - 1]

\* The types.  The reserve stays below one and a half batches however many
\* threads refill it at once, so that it fits in its 16 bits of the word.
TypeOK ==
  /\ word \in Words /\ (word.obj = NoObj => word.cnt = 0)
  /\ cnt \in [Objects -> Nat] /\ live \in SUBSET Objects
  /\ held \in [Threads -> Objects \cup {NoObj}]
  /\ owed \in [Threads -> [obj : Objects \cup {NoObj}, n : 0 .. 2 * Batch]]
  /\ pc \in [Threads -> Locations]

\* The references to o in the threads' hands: a Ref is number 0 of its thread.
InHand(o) ==
  {r \in Threads \X (0 .. 2 * Batch) :
     \/ r[2] = 0 /\ held[r[1]] = o
     \/ r[2] \in 1 .. owed[r[1]].n /\ owed[r[1]].obj = o}

InWord(o) == IF word.obj = o THEN word.cnt + 1 ELSE 0

\* The counter of every object is the number of the references to it, wherever
\* they are, and an object is deleted when, and only when, there are none: no
\* operation uses an object after it was deleted and none is leaked.
CountExact ==
  \A o \in Objects :
    /\ cnt[o] = Cardinality(InHand(o)) + InWord(o)
    /\ o \in live <=> cnt[o] > 0

\* Copy on write: while a thread changes the object of its Ref, no other thread,
\* no operation and no AtomicRef has a reference to that object.
WriteExclusive ==
  \A t \in Threads : pc[t] \in {"copied", "write"} =>
    /\ word.obj # held[t]
    /\ \A u \in Threads : owed[u].obj # held[t] /\ (u # t => held[u] # held[t])

\* The lock-free class is the one with the lock: an operation takes effect at
\* its exchange of the word, and the objects are there for as long as a cell or
\* a Ref refers to them.
Locked == INSTANCE RefCell WITH
  value <- word.obj,
  ref <- [t \in Threads |-> IF pc[t] = "store" THEN owed[t].obj ELSE held[t]],
  writing <- {t \in Threads : pc[t] \in {"copied", "write"}}

ImplementsRefCell == Locked!Spec

\* A load that waits for the reserve to be refilled does not wait for ever:
\* the thread that took the last reference refills it, or the word changes.
Refilled == (word.obj # NoObj /\ word.cnt = 0) ~> ~(word.obj # NoObj /\ word.cnt = 0)
=============================================================================
