-------------------------- MODULE AtomicRef_proofs --------------------------
(***************************************************************************)
(* Safety of counted references, for every number of threads and objects   *)
(* and every size of the reserve: no counter is ever wrong, so that no     *)
(* object is deleted under a reference or outlives the last one, and Ref's *)
(* copy on write never changes an object that somebody else sees.          *)
(***************************************************************************)
EXTENDS AtomicRef, FiniteSetTheorems, TLAPS

\* What an operation holds and owes at each of its places.
OwesAt(t) ==
  /\ owed[t] = Nothing \/ (owed[t].obj \in Objects /\ owed[t].n > 0)
  /\ pc[t] \in {"idle", "load", "reserve", "write"} => owed[t] = Nothing
  /\ pc[t] \in {"release", "copied"} => owed[t] # Nothing
  /\ pc[t] = "refill" => owed[t] = [obj |-> held[t], n |-> Batch]
  /\ pc[t] = "fill" => owed[t] = [obj |-> held[t], n |-> Batch + 1]
  /\ pc[t] = "store" => owed[t] = Nothing \/ owed[t].n = Batch + 1
  /\ pc[t] \in {"load", "store"} => held[t] = NoObj
  /\ pc[t] \in {"reserve", "refill", "fill", "copied", "write"} => held[t] \in Objects

Owing == \A t \in Threads : OwesAt(t)

IInv == TypeOK /\ Owing /\ CountExact /\ WriteExclusive

-----------------------------------------------------------------------------
(* Counting the references in the threads' hands.                          *)

Hand(h, w, S, o) ==
  {r \in S \X (0 .. 2 * Batch) :
     \/ r[2] = 0 /\ h[r[1]] = o
     \/ r[2] \in 1 .. w[r[1]].n /\ w[r[1]].obj = o}

Num(h, w, t, o) ==
  (IF h[t] = o THEN 1 ELSE 0) + (IF w[t].obj = o THEN w[t].n ELSE 0)

Owed == [obj : Objects \cup {NoObj}, n : 0 .. 2 * Batch]

\* One thread's references: its Ref and what it owes.
LEMMA OneHand ==
  ASSUME NEW h, NEW w \in [Threads -> Owed], NEW t \in Threads, NEW o
  PROVE  /\ IsFiniteSet(Hand(h, w, {t}, o))
         /\ Cardinality(Hand(h, w, {t}, o)) = Num(h, w, t, o)
<1> USE AtomicRefAssumption
<1> DEFINE n == w[t].n
           I == {i \in 0 .. 2 * Batch :
                   (i = 0 /\ h[t] = o) \/ (i \in 1 .. n /\ w[t].obj = o)}
<1>1. n \in Nat /\ n <= 2 * Batch
  BY DEF Owed
<1>2. Hand(h, w, {t}, o) = {t} \X I
  BY DEF Hand
<1>3. IsFiniteSet(I) /\ Cardinality(I) = Num(h, w, t, o)
  <2>1. CASE h[t] = o /\ w[t].obj = o
    <3>1. I = 0 .. n
      BY <1>1, <2>1
    <3>2. Num(h, w, t, o) = n + 1
      BY <1>1, <2>1 DEF Num
    <3> HIDE DEF I, n
    <3> QED
      BY <1>1, <3>1, <3>2, FS_Interval
  <2>2. CASE h[t] = o /\ w[t].obj # o
    <3>1. I = {0}
      BY <1>1, <2>2
    <3>2. Num(h, w, t, o) = 1
      BY <1>1, <2>2 DEF Num
    <3> HIDE DEF I, n
    <3> QED
      BY <3>1, <3>2, FS_Singleton
  <2>3. CASE h[t] # o /\ w[t].obj = o
    <3>1. I = 1 .. n
      BY <1>1, <2>3
    <3>2. Num(h, w, t, o) = n
      BY <1>1, <2>3 DEF Num
    <3> HIDE DEF I, n
    <3> QED
      BY <1>1, <3>1, <3>2, FS_Interval
  <2>4. CASE h[t] # o /\ w[t].obj # o
    <3>1. I = {}
      BY <2>4
    <3>2. Num(h, w, t, o) = 0
      BY <2>4 DEF Num
    <3> HIDE DEF I, n
    <3> QED
      BY <3>1, <3>2, FS_EmptySet
  <2> QED
    BY <2>1, <2>2, <2>3, <2>4
<1>4. IsFiniteSet({t}) /\ Cardinality({t}) = 1
  BY FS_Singleton
<1>5. Num(h, w, t, o) \in Nat
  BY <1>1 DEF Num
<1> HIDE DEF I, n
<1>6. IsFiniteSet({t} \X I) /\ Cardinality({t} \X I) = Cardinality({t}) * Cardinality(I)
  BY <1>3, <1>4, FS_Product
<1>7. Cardinality({t}) * Cardinality(I) = Cardinality(I)
  <2>1. \A k \in Nat : 1 * k = k
    OBVIOUS
  <2> QED
    BY ONLY <1>3, <1>4, <1>5, <2>1
<1>8. Cardinality(Hand(h, w, {t}, o)) = Cardinality({t} \X I)
  BY <1>2
<1> QED
  BY <1>2, <1>3, <1>6, <1>7, <1>8

\* The references of some threads are one thread's and the others'.
LEMMA SplitHands ==
  ASSUME NEW h, NEW w \in [Threads -> Owed], NEW S \in SUBSET Threads, NEW t \in S, NEW o
  PROVE  /\ Cardinality(Hand(h, w, S \ {t}, o)) \in Nat
         /\ Num(h, w, t, o) \in Nat
         /\ Cardinality(Hand(h, w, S, o)) =
              Cardinality(Hand(h, w, S \ {t}, o)) + Num(h, w, t, o)
<1> DEFINE mine == Hand(h, w, {t}, o)
           rest == Hand(h, w, S \ {t}, o)
<1>1. Hand(h, w, S, o) = rest \cup mine /\ rest \cap mine = {}
  BY DEF Hand
<1>2. IsFiniteSet(rest)
  <2>1. IsFiniteSet(S \ {t})
    BY AtomicRefAssumption, FS_Subset, FS_Difference
  <2>2. 2 * Batch \in Int
    BY AtomicRefAssumption
  <2>3. IsFiniteSet(0 .. 2 * Batch)
    BY <2>2, FS_Interval
  <2>4. IsFiniteSet((S \ {t}) \X (0 .. 2 * Batch))
    BY <2>1, <2>3, FS_Product
  <2>5. rest \subseteq (S \ {t}) \X (0 .. 2 * Batch)
    BY DEF Hand
  <2> QED
    BY <2>4, <2>5, FS_Subset
<1>3. IsFiniteSet(mine) /\ Cardinality(mine) = Num(h, w, t, o)
  BY OneHand
<1> HIDE DEF mine, rest
<1>4. /\ IsFiniteSet(rest \cup mine)
      /\ Cardinality(rest \cup mine) =
           Cardinality(rest) + Cardinality(mine) - Cardinality(rest \cap mine)
  BY <1>2, <1>3, FS_Union
<1>5. Cardinality(rest \cap mine) = 0 /\ Cardinality(rest) \in Nat /\ Cardinality(mine) \in Nat
  BY <1>1, <1>2, <1>3, FS_EmptySet, FS_CardinalityType
<1> QED
  BY <1>1, <1>3, <1>4, <1>5 DEF mine, rest

\* A step of thread t changes the number of references by what it does to t's.
LEMMA MoveHand ==
  ASSUME NEW h, NEW w \in [Threads -> Owed], NEW h2, NEW w2 \in [Threads -> Owed],
         NEW t \in Threads, NEW o,
         \A u \in Threads \ {t} : h2[u] = h[u] /\ w2[u] = w[u]
  PROVE  Cardinality(Hand(h2, w2, Threads, o)) =
           Cardinality(Hand(h, w, Threads, o)) - Num(h, w, t, o) + Num(h2, w2, t, o)
<1>1. Hand(h2, w2, Threads \ {t}, o) = Hand(h, w, Threads \ {t}, o)
  BY DEF Hand
<1>2. /\ Cardinality(Hand(h, w, Threads, o)) =
           Cardinality(Hand(h, w, Threads \ {t}, o)) + Num(h, w, t, o)
      /\ Cardinality(Hand(h, w, Threads \ {t}, o)) \in Nat /\ Num(h, w, t, o) \in Nat
  BY SplitHands
<1>3. /\ Cardinality(Hand(h2, w2, Threads, o)) =
           Cardinality(Hand(h2, w2, Threads \ {t}, o)) + Num(h2, w2, t, o)
      /\ Num(h2, w2, t, o) \in Nat
  BY SplitHands
<1> QED
  BY ONLY <1>1, <1>2, <1>3

LEMMA HandsAreInHand ==
  ASSUME NEW o
  PROVE  InHand(o) = Hand(held, owed, Threads, o)
BY DEF InHand, Hand

\* No two threads and the word have more references than are counted.
LEMMA Counted ==
  ASSUME TypeOK, CountExact, NEW o \in Objects, NEW t \in Threads
  PROVE  /\ Num(held, owed, t, o) \in Nat /\ InWord(o) \in Nat /\ cnt[o] \in Nat
         /\ Num(held, owed, t, o) + InWord(o) <= cnt[o]
         /\ \A u \in Threads \ {t} :
              /\ Num(held, owed, u, o) \in Nat
              /\ Num(held, owed, t, o) + Num(held, owed, u, o) + InWord(o) <= cnt[o]
<1>1. owed \in [Threads -> Owed] /\ cnt[o] \in Nat
  BY DEF TypeOK, Owed
<1>2. InWord(o) \in Nat
  BY DEF TypeOK, InWord, Words
<1>3. cnt[o] = Cardinality(Hand(held, owed, Threads, o)) + InWord(o)
  BY HandsAreInHand DEF CountExact
<1>4. /\ Cardinality(Hand(held, owed, Threads, o)) =
           Cardinality(Hand(held, owed, Threads \ {t}, o)) + Num(held, owed, t, o)
      /\ Cardinality(Hand(held, owed, Threads \ {t}, o)) \in Nat
      /\ Num(held, owed, t, o) \in Nat
  BY <1>1, SplitHands
<1>5. ASSUME NEW u \in Threads \ {t}
      PROVE  /\ Num(held, owed, u, o) \in Nat
             /\ Num(held, owed, u, o) <= Cardinality(Hand(held, owed, Threads \ {t}, o))
  <2> DEFINE S == Threads \ {t}
  <2>1. S \in SUBSET Threads /\ u \in S
    OBVIOUS
  <2> HIDE DEF S
  <2>2. /\ Cardinality(Hand(held, owed, S, o)) =
             Cardinality(Hand(held, owed, S \ {u}, o)) + Num(held, owed, u, o)
        /\ Cardinality(Hand(held, owed, S \ {u}, o)) \in Nat
        /\ Num(held, owed, u, o) \in Nat
    BY <1>1, <2>1, SplitHands
  <2>3. Num(held, owed, u, o) <= Cardinality(Hand(held, owed, S, o))
    BY ONLY <2>2
  <2> QED
    BY <2>2, <2>3 DEF S
<1>6. Num(held, owed, t, o) + InWord(o) <= cnt[o]
  BY ONLY <1>1, <1>2, <1>3, <1>4
<1>7. ASSUME NEW u \in Threads \ {t}
      PROVE  Num(held, owed, t, o) + Num(held, owed, u, o) + InWord(o) <= cnt[o]
  <2>1. /\ Num(held, owed, u, o) \in Nat
        /\ Num(held, owed, u, o) <= Cardinality(Hand(held, owed, Threads \ {t}, o))
    BY <1>5
  <2> QED
    BY ONLY <1>1, <1>2, <1>3, <1>4, <2>1
<1> QED
  BY <1>1, <1>2, <1>4, <1>5, <1>6, <1>7

-----------------------------------------------------------------------------
(* What every step has to show.                                            *)

Writers == {"copied", "write"}

LEMMA Step ==
  ASSUME IInv, TypeOK', NEW t \in Threads, OwesAt(t)',
         \A u \in Threads \ {t} :
           held'[u] = held[u] /\ owed'[u] = owed[u] /\ pc'[u] = pc[u],
         \A o \in Objects :
           /\ cnt'[o] = cnt[o] - Num(held, owed, t, o) + Num(held', owed', t, o)
                               - InWord(o) + InWord(o)'
           /\ o \in live' <=> cnt'[o] > 0,
         \A u \in Threads \ {t} : pc[u] \in Writers =>
           held[u] \notin {held'[t], owed'[t].obj, word'.obj},
         pc'[t] \in Writers =>
           /\ held'[t] \notin {word'.obj, owed'[t].obj}
           /\ \A u \in Threads \ {t} : held'[t] \notin {held[u], owed[u].obj}
  PROVE  IInv'
<1>1. Owing'
  BY DEF IInv, Owing, OwesAt
<1>2. CountExact'
  <2> SUFFICES ASSUME NEW o \in Objects
               PROVE  (cnt[o] = Cardinality(InHand(o)) + InWord(o))'
    BY DEF CountExact
  <2>1. owed \in [Threads -> Owed] /\ owed' \in [Threads -> Owed]
    BY DEF IInv, TypeOK, Owed
  <2>2. Cardinality(Hand(held', owed', Threads, o)) =
          Cardinality(Hand(held, owed, Threads, o)) - Num(held, owed, t, o)
            + Num(held', owed', t, o)
    BY <2>1, MoveHand
  <2>3. InHand(o) = Hand(held, owed, Threads, o) /\ InHand(o)' = Hand(held', owed', Threads, o)
    BY DEF InHand, Hand
  <2>4. cnt[o] = Cardinality(InHand(o)) + InWord(o)
    BY DEF IInv, CountExact
  <2>5. /\ Cardinality(Hand(held, owed, Threads, o)) \in Int
        /\ Num(held, owed, t, o) \in Nat /\ Num(held', owed', t, o) \in Nat
    <3>1. Threads \in SUBSET Threads /\ t \in Threads
      OBVIOUS
    <3>2. /\ Cardinality(Hand(held, owed, Threads, o)) =
               Cardinality(Hand(held, owed, Threads \ {t}, o)) + Num(held, owed, t, o)
          /\ Cardinality(Hand(held, owed, Threads \ {t}, o)) \in Nat
          /\ Num(held, owed, t, o) \in Nat
      BY ONLY <2>1, <3>1, SplitHands
    <3>3. Num(held', owed', t, o) \in Nat
      BY ONLY <2>1, <3>1, SplitHands
    <3> QED
      BY ONLY <3>2, <3>3
  <2>6. InWord(o) \in Nat /\ InWord(o)' \in Nat
    BY DEF IInv, TypeOK, InWord, Words
  <2>7. cnt'[o] = cnt[o] - Num(held, owed, t, o) + Num(held', owed', t, o)
                     - InWord(o) + InWord(o)'
    OBVIOUS
  <2> QED
    BY ONLY <2>2, <2>3, <2>4, <2>5, <2>6, <2>7
<1>3. WriteExclusive'
  BY DEF IInv, WriteExclusive, Owing, OwesAt, Writers
<1> QED
  BY <1>1, <1>2, <1>3 DEF IInv

LEMMA Halves == Half \in Nat /\ Half >= 1 /\ Half <= Batch
BY AtomicRefAssumption DEF Half

\* Who has a reference to an object is counted: it is there.
LEMMA InUse ==
  ASSUME IInv, NEW o \in Objects, NEW t \in Threads,
         o \in {held[t], owed[t].obj, word.obj}
  PROVE  o \in live /\ cnt[o] >= Num(held, owed, t, o) + InWord(o)
<1>1. /\ Num(held, owed, t, o) \in Nat /\ InWord(o) \in Nat /\ cnt[o] \in Nat
      /\ Num(held, owed, t, o) + InWord(o) <= cnt[o]
  BY Counted DEF IInv
<1>2. Num(held, owed, t, o) + InWord(o) > 0
  <2>1. owed[t].n \in Nat /\ word.cnt \in Nat /\ (o = owed[t].obj => owed[t].n > 0)
    BY AtomicRefAssumption DEF IInv, TypeOK, Owing, OwesAt, Nothing, Words
  <2>2. CASE o = held[t]
    BY <2>1, <2>2 DEF Num, InWord
  <2>3. CASE o = owed[t].obj
    BY <2>1, <2>3 DEF Num, InWord
  <2>4. CASE o = word.obj
    BY <2>1, <2>4 DEF Num, InWord
  <2> QED
    BY <2>2, <2>3, <2>4
<1>3. cnt[o] > 0
  BY ONLY <1>1, <1>2
<1> QED
  BY <1>1, <1>3 DEF IInv, CountExact

\* Nobody refers to memory that is not in use.
LEMMA Fresh ==
  ASSUME IInv, NEW o \in Objects \ live, NEW t \in Threads
  PROVE  cnt[o] = 0 /\ o \notin {held[t], owed[t].obj, word.obj}
<1>1. cnt[o] = 0
  BY DEF IInv, TypeOK, CountExact
<1> QED
  BY <1>1, InUse

\* A counter of 1 is a thread's own reference, and there is no other.
LEMMA Alone ==
  ASSUME IInv, NEW t \in Threads, held[t] \in Objects, cnt[held[t]] = 1
  PROVE  /\ held[t] \notin {owed[t].obj, word.obj}
         /\ \A u \in Threads \ {t} : held[t] \notin {held[u], owed[u].obj}
<1> DEFINE o == held[t]
<1>1. /\ Num(held, owed, t, o) \in Nat /\ InWord(o) \in Nat
      /\ Num(held, owed, t, o) + InWord(o) <= 1
      /\ \A u \in Threads \ {t} :
           /\ Num(held, owed, u, o) \in Nat
           /\ Num(held, owed, t, o) + Num(held, owed, u, o) + InWord(o) <= 1
  BY Counted DEF IInv
<1>2. Num(held, owed, t, o) = 1 + IF owed[t].obj = o THEN owed[t].n ELSE 0
  BY DEF Num
<1>3. owed[t].obj # o /\ InWord(o) = 0
  <2>1. owed[t].obj = o => owed[t].n \in Nat /\ owed[t].n > 0
    BY AtomicRefAssumption DEF IInv, TypeOK, Owing, OwesAt, Nothing
  <2> QED
    BY ONLY <1>1, <1>2, <2>1
<1>4. word.obj # o
  BY <1>3 DEF IInv, TypeOK, InWord, Words
<1>5. ASSUME NEW u \in Threads \ {t} PROVE o \notin {held[u], owed[u].obj}
  <2>1. Num(held, owed, u, o) = 0
    BY ONLY <1>1, <1>2, <1>3, <1>5
  <2>2. owed[u].obj = o => owed[u].n \in Nat /\ owed[u].n > 0
    BY AtomicRefAssumption DEF IInv, TypeOK, Owing, OwesAt, Nothing
  <2>3. owed[u].n \in Nat
    BY AtomicRefAssumption DEF IInv, TypeOK
  <2> QED
    BY ONLY <2>1, <2>2, <2>3 DEF Num
<1> QED
  BY <1>3, <1>4, <1>5

-----------------------------------------------------------------------------
(* The steps.                                                              *)

\* A thread goes on, and no reference moves.
LEMMA IdleStep ==
  ASSUME IInv, NEW t \in Threads, LoadStart(t) \/ LoadEmpty(t) \/ ReserveGiveUp(t) \/ FillFails(t) \/ WriteEnd(t)
  PROVE  IInv'
<1> USE AtomicRefAssumption, Halves DEF LoadStart, LoadEmpty, ReserveGiveUp, FillFails, WriteEnd, Goto, Empty, Nothing
<1>1. TypeOK'
  BY DEF IInv, TypeOK, Owing, OwesAt, Words, Locations, CountExact
<1>2. OwesAt(t)'
  BY DEF IInv, TypeOK, Owing, OwesAt, Words
<1>3. \A u \in Threads \ {t} : held'[u] = held[u] /\ owed'[u] = owed[u] /\ pc'[u] = pc[u]
  BY DEF IInv, TypeOK
<1>4. ASSUME NEW o \in Objects
      PROVE  /\ cnt'[o] = cnt[o] - Num(held, owed, t, o) + Num(held', owed', t, o)
                                 - InWord(o) + InWord(o)'
             /\ o \in live' <=> cnt'[o] > 0
  BY DEF IInv, TypeOK, Owing, OwesAt, Words, CountExact, Num, InWord
<1>5. \A u \in Threads \ {t} : pc[u] \in Writers =>
        held[u] \notin {held'[t], owed'[t].obj, word'.obj}
  BY DEF IInv, TypeOK, Owing, OwesAt, CountExact, WriteExclusive, Writers
<1>6. pc'[t] \in Writers =>
        /\ held'[t] \notin {word'.obj, owed'[t].obj}
        /\ \A u \in Threads \ {t} : held'[t] \notin {held[u], owed[u].obj}
  BY DEF IInv, TypeOK, Owing, OwesAt, CountExact, WriteExclusive, Writers
<1> QED
  BY ONLY IInv, t \in Threads, <1>1, <1>2, <1>3, <1>4, <1>5, <1>6, Step

\* make_ref: the new object's only reference.
LEMMA NewStep ==
  ASSUME IInv, NEW t \in Threads, New(t)
  PROVE  IInv'
<1> USE AtomicRefAssumption, Halves DEF New, Create, Hold, Empty, Nothing
<1>1. TypeOK'
  BY DEF IInv, TypeOK, Owing, OwesAt, Words, Locations, CountExact
<1>2. OwesAt(t)'
  BY DEF IInv, TypeOK, Owing, OwesAt, Words
<1>3. \A u \in Threads \ {t} : held'[u] = held[u] /\ owed'[u] = owed[u] /\ pc'[u] = pc[u]
  BY DEF IInv, TypeOK
<1>4. ASSUME NEW o \in Objects
      PROVE  /\ cnt'[o] = cnt[o] - Num(held, owed, t, o) + Num(held', owed', t, o)
                                 - InWord(o) + InWord(o)'
             /\ o \in live' <=> cnt'[o] > 0
  BY DEF IInv, TypeOK, Owing, OwesAt, Words, CountExact, Num, InWord
<1>5. \A u \in Threads \ {t} : pc[u] \in Writers =>
        held[u] \notin {held'[t], owed'[t].obj, word'.obj}
  BY Fresh DEF IInv, TypeOK, Owing, OwesAt, WriteExclusive, Writers
<1>6. pc'[t] \in Writers =>
        /\ held'[t] \notin {word'.obj, owed'[t].obj}
        /\ \A u \in Threads \ {t} : held'[t] \notin {held[u], owed[u].obj}
  BY DEF IInv, TypeOK, Owing, OwesAt, CountExact, WriteExclusive, Writers
<1> QED
  BY ONLY IInv, t \in Threads, <1>1, <1>2, <1>3, <1>4, <1>5, <1>6, Step

\* A Ref is cleared.
LEMMA ClearStep ==
  ASSUME IInv, NEW t \in Threads, Clear(t)
  PROVE  IInv'
<1> USE AtomicRefAssumption, Halves DEF Clear, ReleaseShared, Hold, Empty, Nothing
<1>1. TypeOK'
  <2>1. held[t] \in Objects /\ cnt[held[t]] \in Nat /\ cnt[held[t]] > 0
    BY InUse DEF IInv, TypeOK, CountExact
  <2> QED
    BY <2>1 DEF IInv, TypeOK
<1>2. OwesAt(t)'
  BY DEF IInv, TypeOK, Owing, OwesAt, Words
<1>3. \A u \in Threads \ {t} : held'[u] = held[u] /\ owed'[u] = owed[u] /\ pc'[u] = pc[u]
  BY DEF IInv, TypeOK
<1>4. ASSUME NEW o \in Objects
      PROVE  /\ cnt'[o] = cnt[o] - Num(held, owed, t, o) + Num(held', owed', t, o)
                                 - InWord(o) + InWord(o)'
             /\ o \in live' <=> cnt'[o] > 0
  BY DEF IInv, TypeOK, Owing, OwesAt, Words, CountExact, Num, InWord
<1>5. \A u \in Threads \ {t} : pc[u] \in Writers =>
        held[u] \notin {held'[t], owed'[t].obj, word'.obj}
  BY DEF IInv, TypeOK, Owing, OwesAt, CountExact, WriteExclusive, Writers
<1>6. pc'[t] \in Writers =>
        /\ held'[t] \notin {word'.obj, owed'[t].obj}
        /\ \A u \in Threads \ {t} : held'[t] \notin {held[u], owed[u].obj}
  BY DEF IInv, TypeOK, Owing, OwesAt, CountExact, WriteExclusive, Writers
<1> QED
  BY ONLY IInv, t \in Threads, <1>1, <1>2, <1>3, <1>4, <1>5, <1>6, Step

\* write() of a Ref whose counter is 1: there is no other reference to see it.
LEMMA WriteUniqueStep ==
  ASSUME IInv, NEW t \in Threads, WriteUnique(t)
  PROVE  IInv'
<1> USE AtomicRefAssumption, Halves DEF WriteUnique, Goto, Empty, Nothing
<1>1. TypeOK'
  BY DEF IInv, TypeOK, Owing, OwesAt, Words, Locations, CountExact
<1>2. OwesAt(t)'
  BY DEF IInv, TypeOK, Owing, OwesAt, Words
<1>3. \A u \in Threads \ {t} : held'[u] = held[u] /\ owed'[u] = owed[u] /\ pc'[u] = pc[u]
  BY DEF IInv, TypeOK
<1>4. ASSUME NEW o \in Objects
      PROVE  /\ cnt'[o] = cnt[o] - Num(held, owed, t, o) + Num(held', owed', t, o)
                                 - InWord(o) + InWord(o)'
             /\ o \in live' <=> cnt'[o] > 0
  BY DEF IInv, TypeOK, Owing, OwesAt, Words, CountExact, Num, InWord
<1>5. \A u \in Threads \ {t} : pc[u] \in Writers =>
        held[u] \notin {held'[t], owed'[t].obj, word'.obj}
  BY DEF IInv, TypeOK, Owing, OwesAt, CountExact, WriteExclusive, Writers
<1>6. pc'[t] \in Writers =>
        /\ held'[t] \notin {word'.obj, owed'[t].obj}
        /\ \A u \in Threads \ {t} : held'[t] \notin {held[u], owed[u].obj}
  BY Alone DEF IInv, TypeOK, Owing, OwesAt
<1> QED
  BY ONLY IInv, t \in Threads, <1>1, <1>2, <1>3, <1>4, <1>5, <1>6, Step

\* write() of another Ref: the copy is in memory that nobody refers to.
LEMMA WriteCopyStep ==
  ASSUME IInv, NEW t \in Threads, WriteCopy(t)
  PROVE  IInv'
<1> USE AtomicRefAssumption, Halves DEF WriteCopy, Create, Hold, Owe, Goto, Empty, Nothing
<1>1. TypeOK'
  BY DEF IInv, TypeOK, Owing, OwesAt, Words, Locations, CountExact
<1>2. OwesAt(t)'
  BY DEF IInv, TypeOK, Owing, OwesAt, Words
<1>3. \A u \in Threads \ {t} : held'[u] = held[u] /\ owed'[u] = owed[u] /\ pc'[u] = pc[u]
  BY DEF IInv, TypeOK
<1>4. ASSUME NEW o \in Objects
      PROVE  /\ cnt'[o] = cnt[o] - Num(held, owed, t, o) + Num(held', owed', t, o)
                                 - InWord(o) + InWord(o)'
             /\ o \in live' <=> cnt'[o] > 0
  BY DEF IInv, TypeOK, Owing, OwesAt, Words, CountExact, Num, InWord
<1>5. \A u \in Threads \ {t} : pc[u] \in Writers =>
        held[u] \notin {held'[t], owed'[t].obj, word'.obj}
  <2>1. held'[t] \in Objects \ live /\ owed'[t].obj = held[t] /\ word' = word
    BY DEF IInv, TypeOK
  <2>2. \A u \in Threads : held'[t] # held[u]
    BY <2>1, Fresh
  <2>3. \A u \in Threads \ {t} : pc[u] \in Writers => held[u] \notin {held[t], word.obj}
    BY DEF IInv, WriteExclusive, Writers
  <2> QED
    BY <2>1, <2>2, <2>3
<1>6. pc'[t] \in Writers =>
        /\ held'[t] \notin {word'.obj, owed'[t].obj}
        /\ \A u \in Threads \ {t} : held'[t] \notin {held[u], owed[u].obj}
  <2>1. held'[t] \in Objects \ live /\ owed'[t].obj = held[t] /\ word' = word
    BY DEF IInv, TypeOK
  <2>2. \A u \in Threads : held'[t] \notin {held[u], owed[u].obj, word.obj}
    BY <2>1, Fresh
  <2> QED
    BY <2>1, <2>2
<1> QED
  BY ONLY IInv, t \in Threads, <1>1, <1>2, <1>3, <1>4, <1>5, <1>6, Step

\* Owed references are given back.
LEMMA GiveBackStep ==
  ASSUME IInv, NEW t \in Threads, GiveBack(t)
  PROVE  IInv'
<1> USE AtomicRefAssumption, Halves DEF GiveBack, ReleaseShared, Owe, Goto, Empty, Nothing
<1>0. /\ owed[t].obj \in Objects /\ owed[t].n \in Nat /\ owed[t].n > 0
      /\ cnt[owed[t].obj] \in Nat /\ cnt[owed[t].obj] >= owed[t].n
  <2>1. owed[t].obj \in Objects /\ owed[t].n \in Nat /\ owed[t].n > 0
    BY DEF IInv, TypeOK, Owing, OwesAt
  <2>2. cnt[owed[t].obj] >= Num(held, owed, t, owed[t].obj) + InWord(owed[t].obj)
    BY <2>1, InUse
  <2>3. /\ cnt[owed[t].obj] \in Nat /\ InWord(owed[t].obj) \in Nat
        /\ Num(held, owed, t, owed[t].obj) \in Nat
    BY <2>1, Counted DEF IInv
  <2>4. Num(held, owed, t, owed[t].obj) >= owed[t].n
    BY <2>1 DEF Num
  <2> QED
    BY ONLY <2>1, <2>2, <2>3, <2>4
<1>1. TypeOK'
  <2>1. cnt' \in [Objects -> Nat] /\ live' \in SUBSET Objects
    BY <1>0 DEF IInv, TypeOK
  <2> QED
    BY <2>1 DEF IInv, TypeOK, Locations
<1>2. OwesAt(t)'
  BY DEF IInv, TypeOK, Owing, OwesAt, Words
<1>3. \A u \in Threads \ {t} : held'[u] = held[u] /\ owed'[u] = owed[u] /\ pc'[u] = pc[u]
  BY DEF IInv, TypeOK
<1>4. ASSUME NEW o \in Objects
      PROVE  /\ cnt'[o] = cnt[o] - Num(held, owed, t, o) + Num(held', owed', t, o)
                                 - InWord(o) + InWord(o)'
             /\ o \in live' <=> cnt'[o] > 0
  <2>1. cnt[o] \in Nat /\ InWord(o) \in Nat /\ (o \in live <=> cnt[o] > 0)
    BY Counted DEF IInv, CountExact
  <2>2. held' = held /\ owed'[t] = Nothing /\ InWord(o)' = InWord(o)
    BY DEF IInv, TypeOK, InWord
  <2>3. CASE o = owed[t].obj
    BY <1>0, <2>1, <2>2, <2>3 DEF IInv, TypeOK, Num
  <2>4. CASE o # owed[t].obj
    BY <1>0, <2>1, <2>2, <2>4 DEF IInv, TypeOK, Num
  <2> QED
    BY <2>3, <2>4
<1>5. \A u \in Threads \ {t} : pc[u] \in Writers =>
        held[u] \notin {held'[t], owed'[t].obj, word'.obj}
  BY DEF IInv, TypeOK, Owing, OwesAt, CountExact, WriteExclusive, Writers
<1>6. pc'[t] \in Writers =>
        /\ held'[t] \notin {word'.obj, owed'[t].obj}
        /\ \A u \in Threads \ {t} : held'[t] \notin {held[u], owed[u].obj}
  BY DEF IInv, TypeOK, Owing, OwesAt, CountExact, WriteExclusive, Writers
<1> QED
  BY ONLY IInv, t \in Threads, <1>1, <1>2, <1>3, <1>4, <1>5, <1>6, Step

\* A reference moves from the word to the thread's hand.
LEMMA LoadTakeStep ==
  ASSUME IInv, NEW t \in Threads, LoadTake(t)
  PROVE  IInv'
<1> USE AtomicRefAssumption, Halves DEF LoadTake, Hold, Goto, Empty, Nothing
<1>1. TypeOK'
  BY DEF IInv, TypeOK, Owing, OwesAt, Words, Locations, CountExact
<1>2. OwesAt(t)'
  BY DEF IInv, TypeOK, Owing, OwesAt, Words
<1>3. \A u \in Threads \ {t} : held'[u] = held[u] /\ owed'[u] = owed[u] /\ pc'[u] = pc[u]
  BY DEF IInv, TypeOK
<1>4. ASSUME NEW o \in Objects
      PROVE  /\ cnt'[o] = cnt[o] - Num(held, owed, t, o) + Num(held', owed', t, o)
                                 - InWord(o) + InWord(o)'
             /\ o \in live' <=> cnt'[o] > 0
  BY DEF IInv, TypeOK, Owing, OwesAt, Words, CountExact, Num, InWord
<1>5. \A u \in Threads \ {t} : pc[u] \in Writers =>
        held[u] \notin {held'[t], owed'[t].obj, word'.obj}
  BY DEF IInv, TypeOK, Owing, OwesAt, CountExact, WriteExclusive, Writers
<1>6. pc'[t] \in Writers =>
        /\ held'[t] \notin {word'.obj, owed'[t].obj}
        /\ \A u \in Threads \ {t} : held'[t] \notin {held[u], owed[u].obj}
  BY DEF IInv, TypeOK, Owing, OwesAt, CountExact, WriteExclusive, Writers
<1> QED
  BY ONLY IInv, t \in Threads, <1>1, <1>2, <1>3, <1>4, <1>5, <1>6, Step

\* References are made for the word,
LEMMA ReserveStartStep ==
  ASSUME IInv, NEW t \in Threads, ReserveStart(t)
  PROVE  IInv'
<1> USE AtomicRefAssumption, Halves DEF ReserveStart, AcquireShared, Owe, Goto, Empty, Nothing
<1>1. TypeOK'
  BY DEF IInv, TypeOK, Owing, OwesAt, Words, Locations, CountExact
<1>2. OwesAt(t)'
  BY DEF IInv, TypeOK, Owing, OwesAt, Words
<1>3. \A u \in Threads \ {t} : held'[u] = held[u] /\ owed'[u] = owed[u] /\ pc'[u] = pc[u]
  BY DEF IInv, TypeOK
<1>4. ASSUME NEW o \in Objects
      PROVE  /\ cnt'[o] = cnt[o] - Num(held, owed, t, o) + Num(held', owed', t, o)
                                 - InWord(o) + InWord(o)'
             /\ o \in live' <=> cnt'[o] > 0
  <2>1. held[t] \in Objects => held[t] \in live /\ cnt[held[t]] > 0
    BY InUse DEF IInv, TypeOK, CountExact
  <2>2. /\ cnt[o] \in Nat /\ word.cnt \in Nat /\ owed[t].n \in Nat
        /\ o \in live <=> cnt[o] > 0
    BY DEF IInv, TypeOK, Words, CountExact
  <2>3. CASE o = held[t]
    <3>1. cnt'[o] = cnt[o] + Batch /\ cnt[o] > 0 /\ o \in live /\ live' = live
      BY <2>1, <2>3 DEF IInv, TypeOK
    <3>2. Num(held', owed', t, o) + InWord(o)' = Num(held, owed, t, o) + InWord(o) + Batch
      <4>1. owed[t] = Nothing /\ o # NoObj /\ held[t] = o
        BY <2>3 DEF IInv, Owing, OwesAt
      <4>2. word' = word /\ held'[t] = o /\ owed'[t] = [obj |-> o, n |-> Batch]
        BY <2>3, <4>1 DEF IInv, TypeOK
      <4>3. Num(held, owed, t, o) = 1
        BY ONLY <4>1 DEF Num, Nothing
      <4>4. Num(held', owed', t, o) + InWord(o)' = 1 + Batch + InWord(o)
        BY <2>2, <4>1, <4>2 DEF Num, InWord, IInv, TypeOK, Words
      <4> QED
        BY <2>2, <4>3, <4>4 DEF InWord
    <3>3. /\ Num(held, owed, t, o) \in Nat /\ Num(held', owed', t, o) \in Nat
          /\ InWord(o) \in Nat /\ InWord(o)' \in Nat
      BY <1>1, <2>2 DEF IInv, TypeOK, Num, InWord, Words
    <3> QED
      BY <2>2, <3>1, <3>2, <3>3
  <2>4. CASE o # held[t]
    BY <2>2, <2>4 DEF IInv, TypeOK, Owing, OwesAt, Num, InWord
  <2> QED
    BY <2>3, <2>4
<1>5. \A u \in Threads \ {t} : pc[u] \in Writers =>
        held[u] \notin {held'[t], owed'[t].obj, word'.obj}
  BY DEF IInv, TypeOK, Owing, OwesAt, CountExact, WriteExclusive, Writers
<1>6. pc'[t] \in Writers =>
        /\ held'[t] \notin {word'.obj, owed'[t].obj}
        /\ \A u \in Threads \ {t} : held'[t] \notin {held[u], owed[u].obj}
  BY DEF IInv, TypeOK, Owing, OwesAt, CountExact, WriteExclusive, Writers
<1> QED
  BY ONLY IInv, t \in Threads, <1>1, <1>2, <1>3, <1>4, <1>5, <1>6, Step

\* and move into it if the reserve is still low.
LEMMA RefillStep ==
  ASSUME IInv, NEW t \in Threads, Refill(t)
  PROVE  IInv'
<1> USE AtomicRefAssumption, Halves DEF Refill, Low, Owe, Goto, Empty, Nothing
<1>1. TypeOK'
  BY DEF IInv, TypeOK, Owing, OwesAt, Words, Locations, CountExact
<1>2. OwesAt(t)'
  BY DEF IInv, TypeOK, Owing, OwesAt, Words
<1>3. \A u \in Threads \ {t} : held'[u] = held[u] /\ owed'[u] = owed[u] /\ pc'[u] = pc[u]
  BY DEF IInv, TypeOK
<1>4. ASSUME NEW o \in Objects
      PROVE  /\ cnt'[o] = cnt[o] - Num(held, owed, t, o) + Num(held', owed', t, o)
                                 - InWord(o) + InWord(o)'
             /\ o \in live' <=> cnt'[o] > 0
  BY DEF IInv, TypeOK, Owing, OwesAt, Words, CountExact, Num, InWord
<1>5. \A u \in Threads \ {t} : pc[u] \in Writers =>
        held[u] \notin {held'[t], owed'[t].obj, word'.obj}
  BY DEF IInv, TypeOK, Owing, OwesAt, CountExact, WriteExclusive, Writers
<1>6. pc'[t] \in Writers =>
        /\ held'[t] \notin {word'.obj, owed'[t].obj}
        /\ \A u \in Threads \ {t} : held'[t] \notin {held[u], owed[u].obj}
  BY DEF IInv, TypeOK, Owing, OwesAt, CountExact, WriteExclusive, Writers
<1> QED
  BY ONLY IInv, t \in Threads, <1>1, <1>2, <1>3, <1>4, <1>5, <1>6, Step

\* store() takes the Ref, and a batch,
LEMMA StoreStartStep ==
  ASSUME IInv, NEW t \in Threads, StoreStart(t)
  PROVE  IInv'
<1> USE AtomicRefAssumption, Halves DEF StoreStart, AcquireShared, Hold, Owe, Goto, Empty, Nothing
<1>1. TypeOK'
  BY DEF IInv, TypeOK, Owing, OwesAt, Words, Locations, CountExact
<1>2. OwesAt(t)'
  BY DEF IInv, TypeOK, Owing, OwesAt, Words
<1>3. \A u \in Threads \ {t} : held'[u] = held[u] /\ owed'[u] = owed[u] /\ pc'[u] = pc[u]
  BY DEF IInv, TypeOK
<1>4. ASSUME NEW o \in Objects
      PROVE  /\ cnt'[o] = cnt[o] - Num(held, owed, t, o) + Num(held', owed', t, o)
                                 - InWord(o) + InWord(o)'
             /\ o \in live' <=> cnt'[o] > 0
  <2>1. held[t] \in Objects => held[t] \in live /\ cnt[held[t]] > 0
    BY InUse DEF IInv, TypeOK, CountExact
  <2>2. /\ cnt[o] \in Nat /\ word.cnt \in Nat /\ owed[t].n \in Nat
        /\ o \in live <=> cnt[o] > 0
    BY DEF IInv, TypeOK, Words, CountExact
  <2>3. CASE o = held[t]
    <3>1. cnt'[o] = cnt[o] + Batch /\ cnt[o] > 0 /\ o \in live /\ live' = live
      BY <2>1, <2>3 DEF IInv, TypeOK
    <3>2. Num(held', owed', t, o) + InWord(o)' = Num(held, owed, t, o) + InWord(o) + Batch
      <4>1. owed[t] = Nothing /\ o # NoObj /\ held[t] = o
        BY <2>3 DEF IInv, Owing, OwesAt
      <4>2. word' = word /\ held'[t] = NoObj /\ owed'[t] = [obj |-> o, n |-> Batch + 1]
        BY <2>3, <4>1 DEF IInv, TypeOK
      <4>3. Num(held, owed, t, o) = 1
        BY ONLY <4>1 DEF Num, Nothing
      <4>4. Num(held', owed', t, o) + InWord(o)' = 1 + Batch + InWord(o)
        BY <2>2, <4>1, <4>2 DEF Num, InWord, IInv, TypeOK, Words
      <4> QED
        BY <2>2, <4>3, <4>4 DEF InWord
    <3>3. /\ Num(held, owed, t, o) \in Nat /\ Num(held', owed', t, o) \in Nat
          /\ InWord(o) \in Nat /\ InWord(o)' \in Nat
      BY <1>1, <2>2 DEF IInv, TypeOK, Num, InWord, Words
    <3> QED
      BY <2>2, <3>1, <3>2, <3>3
  <2>4. CASE o # held[t]
    BY <2>2, <2>4 DEF IInv, TypeOK, Owing, OwesAt, Num, InWord
  <2> QED
    BY <2>3, <2>4
<1>5. \A u \in Threads \ {t} : pc[u] \in Writers =>
        held[u] \notin {held'[t], owed'[t].obj, word'.obj}
  BY DEF IInv, TypeOK, Owing, OwesAt, CountExact, WriteExclusive, Writers
<1>6. pc'[t] \in Writers =>
        /\ held'[t] \notin {word'.obj, owed'[t].obj}
        /\ \A u \in Threads \ {t} : held'[t] \notin {held[u], owed[u].obj}
  BY DEF IInv, TypeOK, Owing, OwesAt, CountExact, WriteExclusive, Writers
<1> QED
  BY ONLY IInv, t \in Threads, <1>1, <1>2, <1>3, <1>4, <1>5, <1>6, Step

\* and changes them for what was in the word.
LEMMA StoreSwapStep ==
  ASSUME IInv, NEW t \in Threads, StoreSwap(t)
  PROVE  IInv'
<1> USE AtomicRefAssumption, Halves DEF StoreSwap, Owe, Goto, Empty, Nothing
<1>1. TypeOK'
  BY DEF IInv, TypeOK, Owing, OwesAt, Words, Locations, CountExact
<1>2. OwesAt(t)'
  BY DEF IInv, TypeOK, Owing, OwesAt, Words
<1>3. \A u \in Threads \ {t} : held'[u] = held[u] /\ owed'[u] = owed[u] /\ pc'[u] = pc[u]
  BY DEF IInv, TypeOK
<1>4. ASSUME NEW o \in Objects
      PROVE  /\ cnt'[o] = cnt[o] - Num(held, owed, t, o) + Num(held', owed', t, o)
                                 - InWord(o) + InWord(o)'
             /\ o \in live' <=> cnt'[o] > 0
  BY DEF IInv, TypeOK, Owing, OwesAt, Words, CountExact, Num, InWord
<1>5. \A u \in Threads \ {t} : pc[u] \in Writers =>
        held[u] \notin {held'[t], owed'[t].obj, word'.obj}
  BY DEF IInv, TypeOK, Owing, OwesAt, CountExact, WriteExclusive, Writers
<1>6. pc'[t] \in Writers =>
        /\ held'[t] \notin {word'.obj, owed'[t].obj}
        /\ \A u \in Threads \ {t} : held'[t] \notin {held[u], owed[u].obj}
  BY DEF IInv, TypeOK, Owing, OwesAt, CountExact, WriteExclusive, Writers
<1> QED
  BY ONLY IInv, t \in Threads, <1>1, <1>2, <1>3, <1>4, <1>5, <1>6, Step

\* store_if_empty() counts a batch and one for the word itself,
LEMMA FillStartStep ==
  ASSUME IInv, NEW t \in Threads, FillStart(t)
  PROVE  IInv'
<1> USE AtomicRefAssumption, Halves DEF FillStart, AcquireShared, Owe, Goto, Empty, Nothing
<1>1. TypeOK'
  BY DEF IInv, TypeOK, Owing, OwesAt, Words, Locations, CountExact
<1>2. OwesAt(t)'
  BY DEF IInv, TypeOK, Owing, OwesAt, Words
<1>3. \A u \in Threads \ {t} : held'[u] = held[u] /\ owed'[u] = owed[u] /\ pc'[u] = pc[u]
  BY DEF IInv, TypeOK
<1>4. ASSUME NEW o \in Objects
      PROVE  /\ cnt'[o] = cnt[o] - Num(held, owed, t, o) + Num(held', owed', t, o)
                                 - InWord(o) + InWord(o)'
             /\ o \in live' <=> cnt'[o] > 0
  <2>1. held[t] \in Objects => held[t] \in live /\ cnt[held[t]] > 0
    BY InUse DEF IInv, TypeOK, CountExact
  <2>2. /\ cnt[o] \in Nat /\ word.cnt \in Nat /\ owed[t].n \in Nat
        /\ o \in live <=> cnt[o] > 0
    BY DEF IInv, TypeOK, Words, CountExact
  <2>3. CASE o = held[t]
    <3>1. cnt'[o] = cnt[o] + (Batch + 1) /\ cnt[o] > 0 /\ o \in live /\ live' = live
      BY <2>1, <2>3 DEF IInv, TypeOK
    <3>2. Num(held', owed', t, o) + InWord(o)' = Num(held, owed, t, o) + InWord(o) + (Batch + 1)
      <4>1. owed[t] = Nothing /\ o # NoObj /\ held[t] = o
        BY <2>3 DEF IInv, Owing, OwesAt
      <4>2. word' = word /\ held'[t] = o /\ owed'[t] = [obj |-> o, n |-> Batch + 1]
        BY <2>3, <4>1 DEF IInv, TypeOK
      <4>3. Num(held, owed, t, o) = 1
        BY ONLY <4>1 DEF Num, Nothing
      <4>4. Num(held', owed', t, o) + InWord(o)' = 1 + (Batch + 1) + InWord(o)
        BY <2>2, <4>1, <4>2 DEF Num, InWord, IInv, TypeOK, Words
      <4> QED
        BY <2>2, <4>3, <4>4 DEF InWord
    <3>3. /\ Num(held, owed, t, o) \in Nat /\ Num(held', owed', t, o) \in Nat
          /\ InWord(o) \in Nat /\ InWord(o)' \in Nat
      BY <1>1, <2>2 DEF IInv, TypeOK, Num, InWord, Words
    <3> QED
      BY <2>2, <3>1, <3>2, <3>3
  <2>4. CASE o # held[t]
    BY <2>2, <2>4 DEF IInv, TypeOK, Owing, OwesAt, Num, InWord
  <2> QED
    BY <2>3, <2>4
<1>5. \A u \in Threads \ {t} : pc[u] \in Writers =>
        held[u] \notin {held'[t], owed'[t].obj, word'.obj}
  BY DEF IInv, TypeOK, Owing, OwesAt, CountExact, WriteExclusive, Writers
<1>6. pc'[t] \in Writers =>
        /\ held'[t] \notin {word'.obj, owed'[t].obj}
        /\ \A u \in Threads \ {t} : held'[t] \notin {held[u], owed[u].obj}
  BY DEF IInv, TypeOK, Owing, OwesAt, CountExact, WriteExclusive, Writers
<1> QED
  BY ONLY IInv, t \in Threads, <1>1, <1>2, <1>3, <1>4, <1>5, <1>6, Step

\* and moves them into an empty word.
LEMMA FillStep ==
  ASSUME IInv, NEW t \in Threads, Fill(t)
  PROVE  IInv'
<1> USE AtomicRefAssumption, Halves DEF Fill, Owe, Goto, Empty, Nothing
<1>1. TypeOK'
  BY DEF IInv, TypeOK, Owing, OwesAt, Words, Locations, CountExact
<1>2. OwesAt(t)'
  BY DEF IInv, TypeOK, Owing, OwesAt, Words
<1>3. \A u \in Threads \ {t} : held'[u] = held[u] /\ owed'[u] = owed[u] /\ pc'[u] = pc[u]
  BY DEF IInv, TypeOK
<1>4. ASSUME NEW o \in Objects
      PROVE  /\ cnt'[o] = cnt[o] - Num(held, owed, t, o) + Num(held', owed', t, o)
                                 - InWord(o) + InWord(o)'
             /\ o \in live' <=> cnt'[o] > 0
  BY DEF IInv, TypeOK, Owing, OwesAt, Words, CountExact, Num, InWord
<1>5. \A u \in Threads \ {t} : pc[u] \in Writers =>
        held[u] \notin {held'[t], owed'[t].obj, word'.obj}
  BY DEF IInv, TypeOK, Owing, OwesAt, CountExact, WriteExclusive, Writers
<1>6. pc'[t] \in Writers =>
        /\ held'[t] \notin {word'.obj, owed'[t].obj}
        /\ \A u \in Threads \ {t} : held'[t] \notin {held[u], owed[u].obj}
  BY DEF IInv, TypeOK, Owing, OwesAt, CountExact, WriteExclusive, Writers
<1> QED
  BY ONLY IInv, t \in Threads, <1>1, <1>2, <1>3, <1>4, <1>5, <1>6, Step

\* extract() takes all references of the word, one of them for its Ref.
LEMMA ExtractStep ==
  ASSUME IInv, NEW t \in Threads, Extract(t)
  PROVE  IInv'
<1> USE AtomicRefAssumption, Halves DEF Extract, Hold, Owe, Goto, Empty, Nothing
<1>1. TypeOK'
  <2>1. word.cnt \in Nat /\ word.cnt <= 2 * Batch
    BY DEF IInv, TypeOK, Words
  <2>2. owed' \in [Threads -> [obj : Objects \cup {NoObj}, n : 0 .. 2 * Batch]]
    BY <2>1 DEF IInv, TypeOK, Words
  <2>3. word' \in Words /\ (word'.obj = NoObj => word'.cnt = 0)
    BY DEF Words
  <2>4. held' \in [Threads -> Objects \cup {NoObj}] /\ pc' \in [Threads -> Locations]
    BY DEF IInv, TypeOK, Words, Locations
  <2> QED
    BY <2>2, <2>3, <2>4 DEF IInv, TypeOK
<1>2. OwesAt(t)'
  BY DEF IInv, TypeOK, Owing, OwesAt, Words
<1>3. \A u \in Threads \ {t} : held'[u] = held[u] /\ owed'[u] = owed[u] /\ pc'[u] = pc[u]
  BY DEF IInv, TypeOK
<1>4. ASSUME NEW o \in Objects
      PROVE  /\ cnt'[o] = cnt[o] - Num(held, owed, t, o) + Num(held', owed', t, o)
                                 - InWord(o) + InWord(o)'
             /\ o \in live' <=> cnt'[o] > 0
  BY DEF IInv, TypeOK, Owing, OwesAt, Words, CountExact, Num, InWord
<1>5. \A u \in Threads \ {t} : pc[u] \in Writers =>
        held[u] \notin {held'[t], owed'[t].obj, word'.obj}
  BY DEF IInv, TypeOK, Owing, OwesAt, CountExact, WriteExclusive, Writers
<1>6. pc'[t] \in Writers =>
        /\ held'[t] \notin {word'.obj, owed'[t].obj}
        /\ \A u \in Threads \ {t} : held'[t] \notin {held[u], owed[u].obj}
  BY DEF IInv, TypeOK, Owing, OwesAt, CountExact, WriteExclusive, Writers
<1> QED
  BY ONLY IInv, t \in Threads, <1>1, <1>2, <1>3, <1>4, <1>5, <1>6, Step

\* A new AtomicRef takes the Ref that it is made of, and a batch.
LEMMA ConstructStep ==
  ASSUME IInv, NEW t \in Threads, Construct(t)
  PROVE  IInv'
<1> USE AtomicRefAssumption, Halves DEF Construct, Quiet, AcquireShared, Hold, Empty, Nothing
<1>1. TypeOK'
  BY DEF IInv, TypeOK, Owing, OwesAt, Words, Locations, CountExact
<1>2. OwesAt(t)'
  BY DEF IInv, TypeOK, Owing, OwesAt, Words
<1>3. \A u \in Threads \ {t} : held'[u] = held[u] /\ owed'[u] = owed[u] /\ pc'[u] = pc[u]
  BY DEF IInv, TypeOK
<1>4. ASSUME NEW o \in Objects
      PROVE  /\ cnt'[o] = cnt[o] - Num(held, owed, t, o) + Num(held', owed', t, o)
                                 - InWord(o) + InWord(o)'
             /\ o \in live' <=> cnt'[o] > 0
  <2>1. held[t] \in Objects => held[t] \in live /\ cnt[held[t]] > 0
    BY InUse DEF IInv, TypeOK, CountExact
  <2>2. /\ cnt[o] \in Nat /\ word.cnt \in Nat /\ owed[t].n \in Nat
        /\ o \in live <=> cnt[o] > 0
    BY DEF IInv, TypeOK, Words, CountExact
  <2>3. CASE o = held[t]
    <3>1. cnt'[o] = cnt[o] + Batch /\ cnt[o] > 0 /\ o \in live /\ live' = live
      BY <2>1, <2>3 DEF IInv, TypeOK
    <3>2. Num(held', owed', t, o) + InWord(o)' = Num(held, owed, t, o) + InWord(o) + Batch
      <4>1. owed[t] = Nothing /\ o # NoObj /\ held[t] = o
        BY <2>3 DEF IInv, Owing, OwesAt
      <4>2. word' = [obj |-> o, cnt |-> Batch] /\ word = Empty /\ held'[t] = NoObj /\ owed'[t] = Nothing
        BY <2>3, <4>1 DEF IInv, TypeOK
      <4>3. Num(held, owed, t, o) = 1
        BY ONLY <4>1 DEF Num, Nothing
      <4>4. Num(held', owed', t, o) + InWord(o)' = 1 + Batch + InWord(o)
        BY <2>2, <4>1, <4>2 DEF Num, InWord, IInv, TypeOK, Words
      <4> QED
        BY <2>2, <4>3, <4>4 DEF InWord
    <3>3. /\ Num(held, owed, t, o) \in Nat /\ Num(held', owed', t, o) \in Nat
          /\ InWord(o) \in Nat /\ InWord(o)' \in Nat
      BY <1>1, <2>2 DEF IInv, TypeOK, Num, InWord, Words
    <3> QED
      BY <2>2, <3>1, <3>2, <3>3
  <2>4. CASE o # held[t]
    BY <2>2, <2>4 DEF IInv, TypeOK, Owing, OwesAt, Num, InWord
  <2> QED
    BY <2>3, <2>4
<1>5. \A u \in Threads \ {t} : pc[u] \in Writers =>
        held[u] \notin {held'[t], owed'[t].obj, word'.obj}
  BY DEF IInv, TypeOK, Owing, OwesAt, CountExact, WriteExclusive, Writers
<1>6. pc'[t] \in Writers =>
        /\ held'[t] \notin {word'.obj, owed'[t].obj}
        /\ \A u \in Threads \ {t} : held'[t] \notin {held[u], owed[u].obj}
  BY DEF IInv, TypeOK, Owing, OwesAt, CountExact, WriteExclusive, Writers
<1> QED
  BY ONLY IInv, t \in Threads, <1>1, <1>2, <1>3, <1>4, <1>5, <1>6, Step

\* A copy of t's Ref is handed to u.
LEMMA CopyStep ==
  ASSUME IInv, NEW t \in Threads, NEW u \in Threads, Copy(t, u)
  PROVE  IInv'
<1> USE AtomicRefAssumption, Halves DEF Copy, AcquireShared, Hold, Empty, Nothing
<1>0. t # u /\ held[t] \in Objects /\ cnt[held[t]] \in Nat /\ held[t] \in live /\ pc[t] = "idle"
  BY InUse DEF IInv, TypeOK
<1>1. TypeOK'
  BY <1>0 DEF IInv, TypeOK
<1>2. OwesAt(u)'
  BY DEF IInv, TypeOK, Owing, OwesAt, Words
<1>3. \A v \in Threads \ {u} : held'[v] = held[v] /\ owed'[v] = owed[v] /\ pc'[v] = pc[v]
  BY DEF IInv, TypeOK
<1>4. ASSUME NEW o \in Objects
      PROVE  /\ cnt'[o] = cnt[o] - Num(held, owed, u, o) + Num(held', owed', u, o)
                                 - InWord(o) + InWord(o)'
             /\ o \in live' <=> cnt'[o] > 0
  <2>1. InWord(o)' = InWord(o) /\ InWord(o) \in Nat /\ cnt[o] \in Nat /\ (o \in live <=> cnt[o] > 0)
    BY DEF IInv, TypeOK, InWord, Words, CountExact
  <2>2. held[u] = NoObj /\ held'[u] = held[t] /\ owed[u] = Nothing /\ owed'[u] = Nothing
    BY DEF IInv, TypeOK, Owing, OwesAt
  <2>3. CASE o = held[t]
    BY <1>0, <2>1, <2>2, <2>3 DEF IInv, TypeOK, Num
  <2>4. CASE o # held[t]
    <3>1. Num(held, owed, u, o) = 0 /\ Num(held', owed', u, o) = 0
      BY <2>2, <2>4 DEF Num
    <3>2. cnt'[o] = cnt[o] /\ live' = live
      BY <1>0, <2>4 DEF IInv, TypeOK
    <3> QED
      BY <2>1, <3>1, <3>2
  <2> QED
    BY <2>3, <2>4
<1>5. \A v \in Threads \ {u} : pc[v] \in Writers =>
        held[v] \notin {held'[u], owed'[u].obj, word'.obj}
  BY <1>0 DEF IInv, TypeOK, Owing, OwesAt, CountExact, WriteExclusive, Writers
<1>6. pc'[u] \in Writers =>
        /\ held'[u] \notin {word'.obj, owed'[u].obj}
        /\ \A v \in Threads \ {u} : held'[u] \notin {held[v], owed[v].obj}
  BY DEF IInv, TypeOK, Owing, OwesAt, CountExact, WriteExclusive, Writers
<1> QED
  BY ONLY IInv, u \in Threads, <1>1, <1>2, <1>3, <1>4, <1>5, <1>6, Step

\* The destructor gives back all references of the word.
LEMMA DestroyStep ==
  ASSUME IInv, NEW t \in Threads, Destroy
  PROVE  IInv'
<1> USE AtomicRefAssumption, Halves DEF Destroy, ReleaseShared, Empty, Nothing
<1>0. /\ word.obj \in Objects /\ word.cnt \in Nat
      /\ cnt[word.obj] \in Nat /\ cnt[word.obj] >= word.cnt + 1
  <2>1. word.obj \in Objects /\ word.cnt \in Nat
    BY DEF IInv, TypeOK, Words
  <2>2. cnt[word.obj] >= Num(held, owed, t, word.obj) + InWord(word.obj)
    BY <2>1, InUse
  <2>3. cnt[word.obj] \in Nat /\ Num(held, owed, t, word.obj) \in Nat
    BY <2>1, Counted DEF IInv
  <2>4. InWord(word.obj) = word.cnt + 1
    BY DEF InWord
  <2> QED
    BY ONLY <2>1, <2>2, <2>3, <2>4
<1>1. TypeOK'
  <2>1. cnt' \in [Objects -> Nat] /\ live' \in SUBSET Objects
    BY <1>0 DEF IInv, TypeOK
  <2> QED
    BY <2>1 DEF IInv, TypeOK, Words
<1>2. OwesAt(t)'
  BY DEF IInv, TypeOK, Owing, OwesAt, Words
<1>3. \A u \in Threads \ {t} : held'[u] = held[u] /\ owed'[u] = owed[u] /\ pc'[u] = pc[u]
  BY DEF IInv, TypeOK
<1>4. ASSUME NEW o \in Objects
      PROVE  /\ cnt'[o] = cnt[o] - Num(held, owed, t, o) + Num(held', owed', t, o)
                                 - InWord(o) + InWord(o)'
             /\ o \in live' <=> cnt'[o] > 0
  <2>1. Num(held', owed', t, o) = Num(held, owed, t, o) /\ Num(held, owed, t, o) \in Nat
    BY Counted DEF IInv, Num
  <2>2. cnt[o] \in Nat /\ (o \in live <=> cnt[o] > 0) /\ InWord(o)' = 0
    BY DEF IInv, TypeOK, CountExact, InWord
  <2>3. CASE o = word.obj
    BY <1>0, <2>1, <2>2, <2>3 DEF IInv, TypeOK, InWord
  <2>4. CASE o # word.obj
    BY <1>0, <2>1, <2>2, <2>4 DEF IInv, TypeOK, InWord
  <2> QED
    BY <2>3, <2>4
<1>5. \A u \in Threads \ {t} : pc[u] \in Writers =>
        held[u] \notin {held'[t], owed'[t].obj, word'.obj}
  BY DEF IInv, TypeOK, Owing, OwesAt, CountExact, WriteExclusive, Writers
<1>6. pc'[t] \in Writers =>
        /\ held'[t] \notin {word'.obj, owed'[t].obj}
        /\ \A u \in Threads \ {t} : held'[t] \notin {held[u], owed[u].obj}
  BY DEF IInv, TypeOK, Owing, OwesAt, CountExact, WriteExclusive, Writers
<1> QED
  BY ONLY IInv, t \in Threads, <1>1, <1>2, <1>3, <1>4, <1>5, <1>6, Step

LEMMA InitInv == Init => IInv
<1> SUFFICES ASSUME Init PROVE IInv
  OBVIOUS
<1> USE AtomicRefAssumption, Halves DEF Init, Empty, Nothing
<1>1. TypeOK
  BY DEF TypeOK, Words, Locations
<1>2. Owing
  BY DEF Owing, OwesAt
<1>3. CountExact
  <2> SUFFICES ASSUME NEW o \in Objects PROVE cnt[o] = Cardinality(InHand(o)) + InWord(o)
    BY DEF CountExact
  <2>1. InHand(o) = {}
    BY DEF InHand
  <2> QED
    BY <2>1, FS_EmptySet DEF InWord
<1>4. WriteExclusive
  BY DEF WriteExclusive
<1> QED
  BY <1>1, <1>2, <1>3, <1>4 DEF IInv

LEMMA StutterStep == IInv /\ UNCHANGED vars => IInv'
BY DEF vars, IInv, TypeOK, Owing, OwesAt, CountExact, InHand, InWord, WriteExclusive

LEMMA NextInv == IInv /\ [Next]_vars => IInv'
<1> SUFFICES ASSUME IInv, [Next]_vars PROVE IInv'
  OBVIOUS
<1>1. CASE Destroy
  <2>1. PICK t \in Threads : TRUE
    BY AtomicRefAssumption
  <2> QED
    BY <1>1, <2>1, DestroyStep
<1>2. ASSUME NEW t \in Threads, Call(t) PROVE IInv'
  <2>1. CASE LoadStart(t)
    BY <2>1, IdleStep
  <2>2. CASE New(t) \/ Clear(t) \/ WriteUnique(t) \/ WriteCopy(t)
    BY <2>2, NewStep, ClearStep, WriteUniqueStep, WriteCopyStep
  <2>3. CASE StoreStart(t) \/ FillStart(t) \/ Extract(t) \/ Construct(t)
    BY <2>3, StoreStartStep, FillStartStep, ExtractStep, ConstructStep
  <2>4. ASSUME NEW u \in Threads, Copy(t, u) PROVE IInv'
    BY <2>4, CopyStep
  <2> QED
    BY <1>2, <2>1, <2>2, <2>3, <2>4 DEF Call
<1>3. ASSUME NEW t \in Threads, InCall(t) PROVE IInv'
  <2>1. CASE LoadEmpty(t) \/ ReserveGiveUp(t) \/ FillFails(t) \/ WriteEnd(t)
    BY <2>1, IdleStep
  <2>2. CASE GiveBack(t) \/ LoadTake(t) \/ ReserveStart(t) \/ Refill(t)
    BY <2>2, GiveBackStep, LoadTakeStep, ReserveStartStep, RefillStep
  <2>3. CASE StoreSwap(t) \/ Fill(t)
    BY <2>3, StoreSwapStep, FillStep
  <2> QED
    BY <1>3, <2>1, <2>2, <2>3 DEF InCall
<1>4. CASE UNCHANGED vars
  BY <1>4, StutterStep
<1> QED
  BY <1>1, <1>2, <1>3, <1>4 DEF Next

LEMMA Invariance == Spec => []IInv
BY InitInv, NextInv, PTL DEF Spec

-----------------------------------------------------------------------------
(* Theorems.                                                               *)

\* Type correctness; above all, that the reserve never grows out of its 16 bits
\* of the word, whatever number of threads finds it low at once.
THEOREM TypeCorrect == Spec => []TypeOK
<1>1. IInv => TypeOK
  BY DEF IInv
<1> QED
  BY <1>1, Invariance, PTL

\* Every counter is the number of references in all Refs, words and operations,
\* and an object is there if and only if it has one: never used after it was
\* deleted, never leaked.
THEOREM CountsExact == Spec => []CountExact
<1>1. IInv => CountExact
  BY DEF IInv
<1> QED
  BY <1>1, Invariance, PTL

\* Ref::write changes an object that nobody else can see.
THEOREM CopyOnWrite == Spec => []WriteExclusive
<1>1. IInv => WriteExclusive
  BY DEF IInv
<1> QED
  BY <1>1, Invariance, PTL

-----------------------------------------------------------------------------
(* The reserve is never low behind everybody's back.                       *)

\* While the reserve is low, some thread is on its way to refill it.
Noticed ==
  word.obj # NoObj /\ word.cnt < Half =>
    \E t \in Threads : pc[t] \in {"reserve", "refill"} /\ held[t] = word.obj

\* Whoever is on the way to refill the reserve of o goes on.
Coming(o) == {t \in Threads : pc[t] \in {"reserve", "refill"} /\ held[t] = o}

\* The word is as it was, and whoever noticed goes on.
LEMMA StillNoticed ==
  ASSUME Noticed, word' = word, Coming(word.obj) \subseteq Coming(word.obj)'
  PROVE  Noticed'
BY DEF Noticed, Coming

\* One thread moves, which was not on its way.
LEMMA OthersComing ==
  ASSUME TypeOK, Noticed, word' = word, NEW t \in Threads,
         \A u \in Threads \ {t} : pc'[u] = pc[u] /\ held'[u] = held[u],
         pc[t] \notin {"reserve", "refill"}
  PROVE  Noticed'
<1>1. Coming(word.obj) \subseteq Coming(word.obj)'
  BY DEF Coming
<1> QED
  BY <1>1, StillNoticed

\* The word is full or empty after the step.
LEMMA NoNeed ==
  ASSUME word'.obj = NoObj \/ (word'.cnt \in Nat /\ word'.cnt >= Batch)
  PROVE  Noticed'
<1>1. word'.cnt \in Nat /\ word'.cnt >= Batch => ~(word'.cnt < Half)
  BY Halves, AtomicRefAssumption
<1> QED
  BY <1>1 DEF Noticed

LEMMA InitNoticed == Init => Noticed
BY DEF Init, Empty, Noticed

\* The calls: of threads that do nothing else.
LEMMA CallNoticed ==
  ASSUME IInv, Noticed, NEW t \in Threads, Call(t)
  PROVE  Noticed'
<1> USE DEF Hold, Goto, IInv
<1>1. CASE \/ New(t) \/ Clear(t) \/ WriteUnique(t) \/ WriteCopy(t)
           \/ LoadStart(t) \/ StoreStart(t) \/ FillStart(t)
  <2>1. /\ pc[t] = "idle" /\ word' = word
        /\ \A u \in Threads \ {t} : pc'[u] = pc[u] /\ held'[u] = held[u]
    BY <1>1 DEF New, Clear, WriteUnique, WriteCopy, LoadStart, StoreStart, FillStart, TypeOK
  <2> QED
    BY <2>1, OthersComing
<1>2. CASE Extract(t)
  <2>1. word'.obj = NoObj
    BY <1>2 DEF Extract, Empty
  <2> QED
    BY <2>1, NoNeed
<1>3. CASE Construct(t)
  <2>1. word'.cnt = Batch
    BY <1>3 DEF Construct
  <2> QED
    BY <2>1, NoNeed, AtomicRefAssumption
<1>4. ASSUME NEW u \in Threads, Copy(t, u)
      PROVE  Noticed'
  <2>1. /\ pc[u] = "idle" /\ word' = word
        /\ \A x \in Threads \ {u} : pc'[x] = pc[x] /\ held'[x] = held[x]
    BY <1>4 DEF Copy, TypeOK
  <2> QED
    BY <2>1, OthersComing
<1> QED
  BY <1>1, <1>2, <1>3, <1>4 DEF Call

\* The steps of operations that have begun.
LEMMA InCallNoticed ==
  ASSUME IInv, Noticed, NEW t \in Threads, InCall(t)
  PROVE  Noticed'
<1> USE DEF Hold, Goto, IInv
<1>1. CASE GiveBack(t) \/ WriteEnd(t) \/ LoadEmpty(t) \/ FillFails(t)
  <2>1. /\ pc[t] \notin {"reserve", "refill"} /\ word' = word
        /\ \A u \in Threads \ {t} : pc'[u] = pc[u] /\ held'[u] = held[u]
    BY <1>1 DEF GiveBack, WriteEnd, LoadEmpty, FillFails, TypeOK
  <2> QED
    BY <2>1, OthersComing
<1>2. CASE LoadTake(t)
  <2>1. /\ word.cnt \in Nat /\ word'.obj = word.obj /\ word'.cnt = word.cnt - 1
        /\ held'[t] = word.obj /\ pc'[t] = IF word.cnt - 1 < Half THEN "reserve" ELSE "idle"
    BY <1>2 DEF LoadTake, TypeOK, Words
  <2>2. word'.cnt < Half => pc'[t] = "reserve" /\ held'[t] = word'.obj
    BY <2>1
  <2> QED
    BY <2>2 DEF Noticed
<1>3. CASE ReserveStart(t)
  <2>1. CASE Low(held[t])
    <3>1. word' = word /\ held' = held /\ pc[t] = "reserve" /\ pc' = [pc EXCEPT ![t] = "refill"]
      BY <1>3, <2>1 DEF ReserveStart
    <3>2. Coming(word.obj) \subseteq Coming(word.obj)'
      BY <3>1 DEF Coming, TypeOK
    <3> QED
      BY <3>1, <3>2, StillNoticed
  <2>2. CASE ~Low(held[t])
    <3>1. word' = word /\ held' = held /\ pc[t] = "reserve" /\ pc' = [pc EXCEPT ![t] = "release"]
      BY <1>3, <2>2 DEF ReserveStart
    <3>2. word.obj = held[t] => ~(word.cnt < Half)
      BY <2>2 DEF Low
    <3>3. ASSUME NEW u \in Threads, u # t, pc[u] \in {"reserve", "refill"}, held[u] = word.obj
          PROVE  pc'[u] \in {"reserve", "refill"} /\ held'[u] = word'.obj
      BY <3>1, <3>3 DEF TypeOK
    <3> QED
      BY <3>1, <3>2, <3>3 DEF Noticed
  <2> QED
    BY <2>1, <2>2
<1>4. CASE Refill(t)
  <2>1. word.cnt \in Nat /\ word'.cnt = word.cnt + Batch
    BY <1>4 DEF Refill, TypeOK, Words
  <2>2. word'.cnt \in Nat /\ word'.cnt >= Batch
    BY <2>1, AtomicRefAssumption
  <2> QED
    BY <2>2, NoNeed
<1>5. CASE ReserveGiveUp(t)
  <2>1. word' = word /\ held' = held /\ pc' = [pc EXCEPT ![t] = "release"]
    BY <1>5 DEF ReserveGiveUp
  <2>2. word.obj = held[t] => ~(word.cnt < Half)
    BY <1>5 DEF ReserveGiveUp, Low
  <2>3. ASSUME NEW u \in Threads, u # t, pc[u] \in {"reserve", "refill"}, held[u] = word.obj
        PROVE  pc'[u] \in {"reserve", "refill"} /\ held'[u] = word'.obj
    BY <2>1, <2>3 DEF TypeOK
  <2> QED
    BY <2>1, <2>2, <2>3 DEF Noticed
<1>6. CASE StoreSwap(t) \/ Fill(t)
  <2>1. word'.obj = NoObj \/ word'.cnt = Batch
    BY <1>6 DEF StoreSwap, Fill
  <2> QED
    BY <2>1, NoNeed, AtomicRefAssumption
<1> QED
  BY <1>1, <1>2, <1>3, <1>4, <1>5, <1>6 DEF InCall

\* A low reserve is always somebody's business: a load that waits for a reference
\* waits for a thread that is on its way with a batch of them.  That is Refilled,
\* but for the fairness with which that thread is scheduled.
THEOREM LowReserveNoticed == Spec => []Noticed
<1>1. IInv /\ Noticed /\ [Next]_vars => Noticed'
  <2> SUFFICES ASSUME IInv, Noticed, [Next]_vars PROVE Noticed'
    OBVIOUS
  <2>1. CASE Destroy
    <3>1. word'.obj = NoObj
      BY <2>1 DEF Destroy, Empty
    <3> QED
      BY <3>1, NoNeed
  <2>2. CASE UNCHANGED vars
    BY <2>2 DEF vars, Noticed
  <2> QED
    BY <2>1, <2>2, CallNoticed, InCallNoticed DEF Next
<1> QED
  BY <1>1, InitNoticed, Invariance, PTL DEF Spec

-----------------------------------------------------------------------------
(* The lock-free class implements the one with the lock.                   *)

MRef == [t \in Threads |-> IF pc[t] = "store" THEN owed[t].obj ELSE held[t]]
MWriting == {t \in Threads : pc[t] \in {"copied", "write"}}

\* What a step of thread t is to the class with the lock.
LEMMA Mapped ==
  ASSUME NEW t \in Threads, NEW m,
         \A u \in Threads \ {t} :
           held'[u] = held[u] /\ owed'[u] = owed[u] /\ pc'[u] = pc[u],
         m = IF pc'[t] = "store" THEN owed'[t].obj ELSE held'[t]
  PROVE  /\ MRef' = [MRef EXCEPT ![t] = m]
         /\ MRef[t] = m => MRef' = MRef
         /\ (pc[t] \in Writers <=> pc'[t] \in Writers) => MWriting' = MWriting
         /\ pc'[t] \in Writers => MWriting' = MWriting \cup {t}
         /\ pc'[t] \notin Writers => MWriting' = MWriting \ {t}
         /\ MRef[t] = IF pc[t] = "store" THEN owed[t].obj ELSE held[t]
         /\ t \in MWriting <=> pc[t] \in Writers
BY DEF MRef, MWriting, Writers

\* The steps that the class with the lock does not see.
LEMMA Unseen ==
  ASSUME IInv, NEW t \in Threads,
         \/ LoadStart(t) \/ LoadEmpty(t) \/ ReserveStart(t) \/ Refill(t) \/ ReserveGiveUp(t)
         \/ StoreStart(t) \/ FillStart(t) \/ FillFails(t) \/ GiveBack(t)
  PROVE  UNCHANGED <<word.obj, MRef, MWriting>>
<1> USE DEF LoadStart, LoadEmpty, ReserveStart, Refill, ReserveGiveUp, StoreStart, FillStart,
      FillFails, GiveBack, Owe, Goto, Hold, Nothing
<1>1. \A u \in Threads \ {t} : held'[u] = held[u] /\ owed'[u] = owed[u] /\ pc'[u] = pc[u]
  BY DEF IInv, TypeOK
<1>2. /\ word'.obj = word.obj
      /\ (IF pc'[t] = "store" THEN owed'[t].obj ELSE held'[t]) =
           IF pc[t] = "store" THEN owed[t].obj ELSE held[t]
      /\ pc'[t] \in Writers <=> pc[t] \in Writers
  BY DEF IInv, TypeOK, Words, Owing, OwesAt, Writers
<1>3. MRef' = MRef /\ MWriting' = MWriting
  BY <1>1, <1>2 DEF MRef, MWriting, Writers
<1> QED
  BY <1>2, <1>3

LEMMA NewObject ==
  ASSUME IInv, NEW o \in Objects \ live
  PROVE  o \in Objects \ Locked!Referenced
<1>1. \A u \in Threads : o \notin {held[u], owed[u].obj, word.obj}
  BY Fresh
<1>2. o # word.obj
  BY <1>1, AtomicRefAssumption
<1> QED
  BY <1>1, <1>2 DEF Locked!Referenced

\* The steps that it takes.
LEMMA Seen ==
  ASSUME IInv, NEW t \in Threads, Call(t) \/ InCall(t)
  PROVE  Locked!Next \/ UNCHANGED <<word.obj, MRef, MWriting>>
<1> DEFINE Others == \A u \in Threads \ {t} :
                       held'[u] = held[u] /\ owed'[u] = owed[u] /\ pc'[u] = pc[u]
<1> USE DEF Hold, Owe, Goto, Create, Nothing, Empty
<1>1. CASE New(t)
  <2>1. Others
    BY <1>1 DEF New, IInv, TypeOK
  <2>2. PICK o \in Objects \ live : held'[t] = o
    BY <1>1 DEF New, IInv, TypeOK
  <2>3. MRef' = [MRef EXCEPT ![t] = o] /\ MWriting' = MWriting /\ MRef[t] = NoObj
    <3>1. o = IF pc'[t] = "store" THEN owed'[t].obj ELSE held'[t]
      BY <1>1, <2>2 DEF New
    <3> QED
      BY <1>1, <2>1, <3>1, Mapped DEF New, Writers
  <2>4. Locked!New(t)
    BY <1>1, <2>2, <2>3, NewObject DEF New, Locked!New, Locked!Get, MRef, MWriting
  <2> QED
    BY <2>4 DEF Locked!Next
<1>2. CASE Clear(t)
  <2>1. Others
    BY <1>2 DEF Clear, IInv, TypeOK
  <2>2. /\ NoObj = IF pc'[t] = "store" THEN owed'[t].obj ELSE held'[t]
        /\ held[t] = IF pc[t] = "store" THEN owed[t].obj ELSE held[t]
        /\ pc[t] \notin Writers /\ pc'[t] \notin Writers
    BY <1>2 DEF Clear, IInv, TypeOK, Words, Owing, OwesAt, Writers
  <2>3. /\ MRef' = [MRef EXCEPT ![t] = NoObj] /\ MWriting' = MWriting
        /\ MRef[t] = held[t] /\ t \notin MWriting
    BY <2>1, <2>2, Mapped
  <2>4. Locked!Clear(t)
    BY <1>2, <2>3 DEF Clear, Locked!Clear, Locked!Get, MRef, MWriting, IInv, TypeOK, Words
  <2> QED
    BY <2>4 DEF Locked!Next
<1>3. CASE WriteEnd(t)
  <2>1. Others
    BY <1>3 DEF WriteEnd, IInv, TypeOK
  <2>2. /\ held[t] = IF pc'[t] = "store" THEN owed'[t].obj ELSE held'[t]
        /\ held[t] = IF pc[t] = "store" THEN owed[t].obj ELSE held[t]
        /\ pc[t] \in Writers /\ pc'[t] \notin Writers
    BY <1>3 DEF WriteEnd, IInv, TypeOK, Words, Owing, OwesAt, Writers
  <2>3. /\ MRef' = MRef /\ MWriting' = MWriting \ {t}
        /\ MRef[t] = held[t] /\ t \in MWriting
    BY <2>1, <2>2, Mapped
  <2>4. Locked!WriteEnd(t)
    BY <1>3, <2>3 DEF WriteEnd, Locked!WriteEnd, Locked!Get, MRef, MWriting, IInv, TypeOK, Words
  <2> QED
    BY <2>4 DEF Locked!Next
<1>4. CASE LoadTake(t)
  <2>1. Others
    BY <1>4 DEF LoadTake, IInv, TypeOK
  <2>2. /\ word.obj = IF pc'[t] = "store" THEN owed'[t].obj ELSE held'[t]
        /\ NoObj = IF pc[t] = "store" THEN owed[t].obj ELSE held[t]
        /\ pc[t] \notin Writers /\ pc'[t] \notin Writers
    BY <1>4 DEF LoadTake, IInv, TypeOK, Words, Owing, OwesAt, Writers
  <2>3. /\ MRef' = [MRef EXCEPT ![t] = word.obj] /\ MWriting' = MWriting
        /\ MRef[t] = NoObj /\ t \notin MWriting
    BY <2>1, <2>2, Mapped
  <2>4. Locked!Load(t)
    BY <1>4, <2>3 DEF LoadTake, Locked!Load, Locked!Get, MRef, MWriting, IInv, TypeOK, Words
  <2> QED
    BY <2>4 DEF Locked!Next
<1>5. CASE StoreSwap(t)
  <2>1. Others
    BY <1>5 DEF StoreSwap, IInv, TypeOK
  <2>2. /\ NoObj = IF pc'[t] = "store" THEN owed'[t].obj ELSE held'[t]
        /\ owed[t].obj = IF pc[t] = "store" THEN owed[t].obj ELSE held[t]
        /\ pc[t] \notin Writers /\ pc'[t] \notin Writers
    BY <1>5 DEF StoreSwap, IInv, TypeOK, Words, Owing, OwesAt, Writers
  <2>3. /\ MRef' = [MRef EXCEPT ![t] = NoObj] /\ MWriting' = MWriting
        /\ MRef[t] = owed[t].obj /\ t \notin MWriting
    BY <2>1, <2>2, Mapped
  <2>4. Locked!Store(t)
    BY <1>5, <2>3 DEF StoreSwap, Locked!Store, Locked!Get, MRef, MWriting, IInv, TypeOK, Words
  <2> QED
    BY <2>4 DEF Locked!Next
<1>6. CASE Fill(t)
  <2>1. Others
    BY <1>6 DEF Fill, IInv, TypeOK
  <2>2. /\ held[t] = IF pc'[t] = "store" THEN owed'[t].obj ELSE held'[t]
        /\ held[t] = IF pc[t] = "store" THEN owed[t].obj ELSE held[t]
        /\ pc[t] \notin Writers /\ pc'[t] \notin Writers
    BY <1>6 DEF Fill, IInv, TypeOK, Words, Owing, OwesAt, Writers
  <2>3. /\ MRef' = MRef /\ MWriting' = MWriting
        /\ MRef[t] = held[t] /\ t \notin MWriting
    BY <2>1, <2>2, Mapped
  <2>4. Locked!StoreIfEmpty(t)
    <3>1. word.obj = NoObj /\ word'.obj = MRef[t] /\ MRef[t] # NoObj
      BY <1>6, <2>3, AtomicRefAssumption DEF Fill, IInv, TypeOK, Owing, OwesAt
    <3> QED
      BY <2>3, <3>1 DEF Locked!StoreIfEmpty, MRef, MWriting
  <2> QED
    BY <2>4 DEF Locked!Next
<1>7. CASE Extract(t)
  <2>1. Others
    BY <1>7 DEF Extract, IInv, TypeOK
  <2>2. /\ word.obj = IF pc'[t] = "store" THEN owed'[t].obj ELSE held'[t]
        /\ NoObj = IF pc[t] = "store" THEN owed[t].obj ELSE held[t]
        /\ pc[t] \notin Writers /\ pc'[t] \notin Writers
    BY <1>7 DEF Extract, IInv, TypeOK, Words, Owing, OwesAt, Writers
  <2>3. /\ MRef' = [MRef EXCEPT ![t] = word.obj] /\ MWriting' = MWriting
        /\ MRef[t] = NoObj /\ t \notin MWriting
    BY <2>1, <2>2, Mapped
  <2>4. Locked!Extract(t)
    BY <1>7, <2>3 DEF Extract, Locked!Extract, Locked!Get, MRef, MWriting, IInv, TypeOK, Words
  <2> QED
    BY <2>4 DEF Locked!Next
<1>8. CASE Construct(t)
  <2>1. Others
    BY <1>8 DEF Construct, IInv, TypeOK
  <2>2. /\ NoObj = IF pc'[t] = "store" THEN owed'[t].obj ELSE held'[t]
        /\ held[t] = IF pc[t] = "store" THEN owed[t].obj ELSE held[t]
        /\ pc[t] \notin Writers /\ pc'[t] \notin Writers
    BY <1>8 DEF Construct, IInv, TypeOK, Words, Owing, OwesAt, Writers, Quiet
  <2>3. /\ MRef' = [MRef EXCEPT ![t] = NoObj] /\ MWriting' = MWriting
        /\ MRef[t] = held[t] /\ t \notin MWriting
    BY <2>1, <2>2, Mapped
  <2>4. Locked!Store(t)
    BY <1>8, <2>3 DEF Construct, Locked!Store, Locked!Get, MRef, MWriting, IInv, TypeOK, Words
  <2> QED
    BY <2>4 DEF Locked!Next
<1>9. CASE WriteUnique(t)
  <2>1. Others
    BY <1>9 DEF WriteUnique, IInv, TypeOK
  <2>2. /\ held[t] = IF pc'[t] = "store" THEN owed'[t].obj ELSE held'[t]
        /\ held[t] = IF pc[t] = "store" THEN owed[t].obj ELSE held[t]
        /\ pc[t] \notin Writers /\ pc'[t] \in Writers
    BY <1>9 DEF WriteUnique, IInv, TypeOK, Words, Owing, OwesAt, Writers
  <2>3. /\ MRef' = MRef /\ MWriting' = MWriting \cup {t}
        /\ MRef[t] = held[t] /\ t \notin MWriting
    BY <2>1, <2>2, Mapped
  <2>4. Locked!Write(t)
    BY <1>9, <2>3, Alone DEF WriteUnique, Locked!Write, Locked!Get, Locked!Exclusive, MRef, MWriting, IInv, TypeOK, Words
  <2> QED
    BY <2>4 DEF Locked!Next
<1>10. CASE WriteCopy(t)
  <2>1. Others
    BY <1>10 DEF WriteCopy, IInv, TypeOK
  <2>2. PICK o \in Objects \ live : held'[t] = o
    BY <1>10 DEF WriteCopy, IInv, TypeOK
  <2>3. /\ o = IF pc'[t] = "store" THEN owed'[t].obj ELSE held'[t]
        /\ pc[t] = "idle" /\ pc'[t] = "copied" /\ UNCHANGED word
    BY <1>10, <2>2 DEF WriteCopy, IInv, TypeOK
  <2>4. /\ MRef' = [MRef EXCEPT ![t] = o] /\ MWriting' = MWriting \cup {t}
        /\ MRef[t] = held[t] /\ t \notin MWriting
    BY <2>1, <2>3, Mapped DEF Writers
  <2>5. Locked!Write(t)
    BY <1>10, <2>2, <2>3, <2>4, NewObject DEF WriteCopy, Locked!Write, Locked!Get, MRef, MWriting
  <2> QED
    BY <2>5 DEF Locked!Next
<1>11. ASSUME NEW u \in Threads, Copy(t, u)
       PROVE  Locked!Next
  <2>1. \A v \in Threads \ {u} : held'[v] = held[v] /\ owed'[v] = owed[v] /\ pc'[v] = pc[v]
    BY <1>11 DEF Copy, IInv, TypeOK
  <2>2. /\ held[t] = IF pc'[u] = "store" THEN owed'[u].obj ELSE held'[u]
        /\ pc[t] = "idle" /\ pc[u] = "idle" /\ pc'[u] = "idle"
        /\ held[t] # NoObj /\ held[u] = NoObj /\ UNCHANGED word
    BY <1>11 DEF Copy, IInv, TypeOK
  <2>3. /\ MRef' = [MRef EXCEPT ![u] = held[t]] /\ MWriting' = MWriting
        /\ MRef[u] = NoObj /\ MRef[t] = held[t] /\ t \notin MWriting
    BY <2>1, <2>2, Mapped DEF Writers, MRef, MWriting
  <2>4. Locked!Copy(t, u)
    BY <2>2, <2>3 DEF Locked!Copy, Locked!Get, MRef, MWriting
  <2> QED
    BY <2>4 DEF Locked!Next
<1> QED
  BY <1>1, <1>2, <1>3, <1>4, <1>5, <1>6, <1>7, <1>8, <1>9, <1>10, <1>11, Unseen DEF Call, InCall

\* The lock-free AtomicRef implements the one with the lock: for every number of
\* threads and objects and every batch, each operation takes effect at once, at
\* its exchange of the word, and what the others do in between is not seen.
THEOREM Implements == Spec => ImplementsRefCell
<1>1. Init => Locked!Init
  BY DEF Init, Locked!Init, Empty
<1>2. IInv /\ [Next]_vars => [Locked!Next]_(Locked!vars)
  <2> SUFFICES ASSUME IInv, [Next]_vars
               PROVE  Locked!Next \/ UNCHANGED <<word.obj, MRef, MWriting>>
    BY DEF Locked!vars, MRef, MWriting
  <2>1. CASE Destroy
    <3>1. word'.obj = NoObj /\ UNCHANGED <<MRef, MWriting>>
      BY <2>1 DEF Destroy, Empty, MRef, MWriting
    <3> QED
      BY <3>1 DEF Locked!Next, Locked!Destroy, MRef, MWriting
  <2>2. CASE UNCHANGED vars
    BY <2>2 DEF vars, MRef, MWriting
  <2> QED
    BY <2>1, <2>2, Seen DEF Next
<1>3. Spec => []IInv
  BY Invariance
<1> QED
  BY <1>1, <1>2, <1>3, PTL DEF Spec, ImplementsRefCell, Locked!Spec
=============================================================================
