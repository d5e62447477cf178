-------------------------- MODULE MpmcQueue_proofs --------------------------
(***************************************************************************)
(* The queue between threads, for any numbers of threads, nodes, slots and *)
(* calls.                                                                  *)
(***************************************************************************)
EXTENDS MpmcQueue, SequenceTheorems, FiniteSetTheorems, TLAPS

Slots == 0 .. Size - 1

NodeType ==
  [next : Nodes \cup {Null}, wpos : Nat, rpos : Nat,
   data : [Slots -> Values \cup {Empty, Taken}]]

LocalType == [node : Nodes \cup {Null}, pos : Nat, target : Nodes \cup {Null}]

\* Where a thread may be, and while it is in a node that it has protected.
Entering == {"protect", "announce", "recheck"}
HeldW == {"claim", "set", "next", "link", "swing", "finish"}
HeldR == {"look", "compare", "last", "take", "get", "after", "advance"}
WriterSteps == {"idle", "done"} \cup Entering \cup HeldW
ReaderSteps == {"idle", "done", "empty", "release", "retire", "gc"} \cup Entering \cup HeldR

TypeInv ==
  /\ write_pos \in Nodes /\ read_pos \in Nodes /\ live \in SUBSET Nodes
  /\ mem \in [Nodes -> NodeType]
  /\ hazard \in [Threads -> Nodes \cup {Null}] /\ retired \in [Threads -> Seq(Nodes)]
  /\ pc \in [Threads -> WriterSteps \cup ReaderSteps]
  /\ local \in [Threads -> LocalType] /\ at \in [Threads -> Nat \X Nat]
  /\ calls \in [Threads -> 0 .. Calls]
  /\ pushed \in SUBSET Values /\ popped \in SUBSET Values
  /\ before \in [Readers -> SUBSET Values] /\ older \in [Values -> SUBSET Values]

\* What a thread knows at each step.
WriterKnows(w) ==
  /\ pc[w] \in WriterSteps /\ retired[w] = <<>>
  /\ pc[w] # "idle" => calls[w] >= 1
  /\ pc[w] \in {"announce", "recheck"} \cup HeldW => Node(w) \in Nodes
  /\ pc[w] \in {"recheck"} \cup HeldW => hazard[w] = Node(w)
  /\ pc[w] = "set" => local[w].pos < Size
  /\ pc[w] \in {"link", "swing", "finish"} => local[w].target \in Nodes

ReaderKnows(r) ==
  /\ pc[r] \in ReaderSteps
  /\ pc[r] \in {"announce", "recheck", "release"} \cup HeldR => Node(r) \in Nodes
  /\ pc[r] \in {"recheck"} \cup HeldR => hazard[r] = Node(r)
  /\ pc[r] = "get" => local[r].pos < Size
  /\ pc[r] \in {"retire", "gc"} => at[r][1] \in DOMAIN retired[r] /\ at[r][2] \in Threads
  /\ pc[r] \notin {"retire", "gc"} => at[r] = <<1, 0>>

KnowInv == (\A w \in Writers : WriterKnows(w)) /\ \A r \in Readers : ReaderKnows(r)

\* The nodes that were unlinked, and those that are linked.
Retired == {n \in Nodes : \E t \in Readers : \E i \in DOMAIN retired[t] : retired[t][i] = n}
Gone == Retired \cup Unlinked
Linked == live \ (Gone \cup Private)

\* A node that is not linked belongs to one thread, once.
OwnInv ==
  /\ \A t \in Readers : \A i \in DOMAIN retired[t] :
       retired[t][i] \in live \ (Unlinked \cup Private)
  /\ \A t, u \in Readers : \A i \in DOMAIN retired[t], j \in DOMAIN retired[u] :
       retired[t][i] = retired[u][j] => t = u /\ i = j
  /\ \A r \in Readers : pc[r] = "release" => Node(r) \in live \ Private
  /\ \A r, s \in Readers : pc[r] = "release" /\ pc[s] = "release" /\ Node(r) = Node(s) => r = s
  /\ \A w \in Writers : pc[w] = "link" => local[w].target \in live
  /\ \A w, x \in Writers :
       pc[w] = "link" /\ pc[x] = "link" /\ local[w].target = local[x].target => w = x

\* Nobody comes back to a node that was unlinked: links are to linked nodes, no two
\* to the same, and none to the one that the readers are at.
LinkInv ==
  /\ read_pos \in Linked
  /\ \A n \in Nodes \ Gone : mem[n].next # Null => mem[n].next \in Linked \ {read_pos}
  /\ \A m, n \in Nodes \ Gone :
       mem[m].next # Null /\ mem[m].next = mem[n].next => m = n
  /\ \A n \in Gone : mem[n].next # Null

\* A reader's node is one that it has protected.
Protected(r) ==
  pc[r] \in HeldR =>
    /\ Node(r) \in live \ Private
    /\ Node(r) \in Linked => Node(r) = read_pos
    /\ pc[r] = "advance" => local[r].target # Null /\ local[r].target = mem[Node(r)].next

ReadInv == \A r \in Readers : Protected(r)

\* A reader that is in a node which another one looks for is yet to be looked at.
Overlooked(t, r) ==
  /\ pc[t] \in {"retire", "gc"} /\ pc[r] \in HeldR
  /\ Node(r) = retired[t][at[t][1]] /\ r < at[t][2]

ScanInv == \A t, r \in Readers : ~Overlooked(t, r)

\* A value in a slot was pushed, or is in a node that its writer is about to link.
DataInv ==
  /\ popped \subseteq pushed
  /\ \A n \in Nodes : \A i \in Slots : mem[n].data[i] \in Values =>
       \/ mem[n].data[i] \in pushed
       \/ \E w \in Writers : pc[w] = "link" /\ local[w].target = n /\ mem[n].data[i] = Arg(w)

SafeInv == TypeInv /\ KnowInv /\ OwnInv /\ LinkInv /\ ReadInv /\ ScanInv /\ DataInv

-----------------------------------------------------------------------------
(* Threads, slots and nodes.                                               *)

\* Threads are numbers, and write or read.
LEMMA ThreadIds ==
  /\ LastThread \in Nat /\ Threads = 0 .. LastThread
  /\ Writers \subseteq Threads /\ Readers \subseteq Threads
  /\ \A t \in Threads : t \in Writers <=> t \notin Readers
BY MpmcQueueAssumption DEF Threads

\* What a slot holds without a value is no value.
LEMMA Marks == Empty # Taken /\ Empty \notin Values /\ Taken \notin Values
<1>1. Len(Empty) = 0 /\ Len(Taken) = 1
  BY DEF Empty, Taken
<1>2. \A v \in Values : Len(v) = 2
  BY DEF Values
<1> QED
  BY <1>1, <1>2

\* The next push's argument is a value once it has begun.
LEMMA ArgValue ==
  ASSUME TypeInv, NEW w \in Writers, calls[w] >= 1
  PROVE  Arg(w) \in Values
<1>1. calls[w] \in 0 .. Calls
  BY ThreadIds DEF TypeInv
<1> QED
  BY <1>1, MpmcQueueAssumption DEF Arg, Values

\* A node that was just made, or deleted.
LEMMA BlankNode ==
  /\ Blank \in NodeType /\ Blank.next = Null /\ Blank.wpos = 0 /\ Blank.rpos = 0
  /\ \A i \in Slots : Blank.data[i] = Empty
BY DEF Blank, NodeType, Slots

\* A node with one field changed.
LEMMA NodeChanged ==
  ASSUME NEW x \in NodeType
  PROVE  /\ LET y == [x EXCEPT !.wpos = @ + 1]
            IN  /\ y \in NodeType /\ y.next = x.next /\ y.rpos = x.rpos /\ y.data = x.data
                /\ y.wpos = x.wpos + 1
         /\ LET y == [x EXCEPT !.rpos = @ + 1]
            IN  /\ y \in NodeType /\ y.next = x.next /\ y.wpos = x.wpos /\ y.data = x.data
                /\ y.rpos = x.rpos + 1
         /\ \A n \in Nodes \cup {Null} :
              LET y == [x EXCEPT !.next = n]
              IN  /\ y \in NodeType /\ y.wpos = x.wpos /\ y.rpos = x.rpos /\ y.data = x.data
                  /\ y.next = n
         /\ \A i \in Slots, v \in Values \cup {Empty, Taken} :
              LET y == [x EXCEPT !.data[i] = v]
              IN  /\ y \in NodeType /\ y.next = x.next /\ y.wpos = x.wpos /\ y.rpos = x.rpos
                  /\ y.data[i] = v /\ \A j \in Slots \ {i} : y.data[j] = x.data[j]
         /\ \A v \in Values :
              LET y == [x EXCEPT !.wpos = 1, !.data[0] = v]
              IN  /\ y \in NodeType /\ y.next = x.next /\ y.wpos = 1 /\ y.rpos = x.rpos
                  /\ y.data[0] = v /\ \A j \in Slots \ {0} : y.data[j] = x.data[j]
<1>1. 0 \in Slots
  BY MpmcQueueAssumption DEF Slots
<1>2. ASSUME NEW v \in Values
      PROVE  LET y == [x EXCEPT !.wpos = 1, !.data[0] = v]
             IN  /\ y \in NodeType /\ y.next = x.next /\ y.wpos = 1 /\ y.rpos = x.rpos
                 /\ y.data[0] = v /\ \A j \in Slots \ {0} : y.data[j] = x.data[j]
  BY <1>1 DEF NodeType
<1>3. LET y == [x EXCEPT !.wpos = @ + 1]
      IN  /\ y \in NodeType /\ y.next = x.next /\ y.rpos = x.rpos /\ y.data = x.data
          /\ y.wpos = x.wpos + 1
  BY DEF NodeType
<1>4. LET y == [x EXCEPT !.rpos = @ + 1]
      IN  /\ y \in NodeType /\ y.next = x.next /\ y.wpos = x.wpos /\ y.data = x.data
          /\ y.rpos = x.rpos + 1
  BY DEF NodeType
<1>5. ASSUME NEW n \in Nodes \cup {Null}
      PROVE  LET y == [x EXCEPT !.next = n]
             IN  /\ y \in NodeType /\ y.wpos = x.wpos /\ y.rpos = x.rpos /\ y.data = x.data
                 /\ y.next = n
  BY DEF NodeType
<1>6. ASSUME NEW i \in Slots, NEW v \in Values \cup {Empty, Taken}
      PROVE  LET y == [x EXCEPT !.data[i] = v]
             IN  /\ y \in NodeType /\ y.next = x.next /\ y.wpos = x.wpos /\ y.rpos = x.rpos
                 /\ y.data[i] = v /\ \A j \in Slots \ {i} : y.data[j] = x.data[j]
  BY DEF NodeType
<1> QED
  BY ONLY <1>2, <1>3, <1>4, <1>5, <1>6

\* Node n, and no other, becomes x.
Changed(n, x) == mem'[n] = x /\ \A m \in Nodes \ {n} : mem'[m] = mem[m]

\* mem with one node set.
LEMMA NodeSet ==
  ASSUME TypeInv, NEW n \in Nodes, NEW x \in NodeType, mem' = [mem EXCEPT ![n] = x]
  PROVE  Changed(n, x) /\ mem' \in [Nodes -> NodeType]
BY DEF TypeInv, Changed

\* The locals of a thread with no more than its node.
LEMMA AtNode ==
  ASSUME NEW n \in Nodes \cup {Null}
  PROVE  At(n) \in LocalType /\ At(n).node = n /\ At(n).pos = 0 /\ At(n).target = Null
BY DEF At, LocalType

\* Thread t, and no other, goes to a place l, where its locals are x.
Moved(t, l, x) ==
  /\ pc'[t] = l /\ local'[t] = x
  /\ \A s \in Threads \ {t} : pc'[s] = pc[s] /\ local'[s] = local[s]

\* Goto moves the thread and no other.
LEMMA GotoMoves ==
  ASSUME TypeInv, NEW t \in Threads, NEW l \in WriterSteps \cup ReaderSteps, NEW x \in LocalType,
         Goto(t, l, x)
  PROVE  /\ Moved(t, l, x)
         /\ pc' \in [Threads -> WriterSteps \cup ReaderSteps] /\ local' \in [Threads -> LocalType]
BY DEF TypeInv, Goto, Moved

\* One field of one node is changed: a slot is claimed, set, or the next node is linked;
\* or a node is made, with its writer's value in the first slot.
WposGrown(n) ==
  /\ \A m \in Nodes \ {n} : mem'[m] = mem[m]
  /\ \A m \in Nodes : /\ mem'[m].next = mem[m].next /\ mem'[m].rpos = mem[m].rpos
                      /\ mem'[m].data = mem[m].data
                      /\ m # n => mem'[m].wpos = mem[m].wpos
  /\ mem'[n].wpos = mem[n].wpos + 1

RposGrown(n) ==
  /\ \A m \in Nodes \ {n} : mem'[m] = mem[m]
  /\ \A m \in Nodes : /\ mem'[m].next = mem[m].next /\ mem'[m].wpos = mem[m].wpos
                      /\ mem'[m].data = mem[m].data
                      /\ m # n => mem'[m].rpos = mem[m].rpos
  /\ mem'[n].rpos = mem[n].rpos + 1

SlotSet(n, i, v) ==
  /\ \A m \in Nodes \ {n} : mem'[m] = mem[m]
  /\ \A m \in Nodes : /\ mem'[m].next = mem[m].next /\ mem'[m].wpos = mem[m].wpos
                      /\ mem'[m].rpos = mem[m].rpos
                      /\ \A j \in Slots : m # n \/ j # i => mem'[m].data[j] = mem[m].data[j]
  /\ mem'[n].data[i] = v

NextSet(n, k) ==
  /\ \A m \in Nodes \ {n} : mem'[m] = mem[m]
  /\ \A m \in Nodes : /\ mem'[m].wpos = mem[m].wpos /\ mem'[m].rpos = mem[m].rpos
                      /\ mem'[m].data = mem[m].data
                      /\ m # n => mem'[m].next = mem[m].next
  /\ mem'[n].next = k

Made(n, v) ==
  /\ \A m \in Nodes \ {n} : mem'[m] = mem[m]
  /\ \A m \in Nodes : /\ mem'[m].next = mem[m].next /\ mem'[m].rpos = mem[m].rpos
                      /\ m # n => mem'[m].wpos = mem[m].wpos
                      /\ \A j \in Slots : m # n \/ j # 0 => mem'[m].data[j] = mem[m].data[j]
  /\ mem'[n].wpos = 1 /\ mem'[n].data[0] = v

\* What is the same in all the nodes when one field of one is changed.
LEMMA WposChanged ==
  ASSUME TypeInv, NEW n \in Nodes, Changed(n, [mem[n] EXCEPT !.wpos = @ + 1])
  PROVE  WposGrown(n)
<1>1. mem[n] \in NodeType
  BY DEF TypeInv
<1> QED
  BY <1>1 DEF WposGrown, Changed, NodeType

\* A reader claims a slot of a node.
LEMMA RposChanged ==
  ASSUME TypeInv, NEW n \in Nodes, Changed(n, [mem[n] EXCEPT !.rpos = @ + 1])
  PROVE  RposGrown(n)
<1>1. mem[n] \in NodeType
  BY DEF TypeInv
<1> QED
  BY <1>1 DEF RposGrown, Changed, NodeType

\* A slot of a node is set.
LEMMA DataChanged ==
  ASSUME TypeInv, NEW n \in Nodes, NEW i \in Slots, NEW v \in Values \cup {Empty, Taken},
         Changed(n, [mem[n] EXCEPT !.data[i] = v])
  PROVE  SlotSet(n, i, v)
<1>1. mem[n] \in NodeType
  BY DEF TypeInv
<1>2. LET y == [mem[n] EXCEPT !.data[i] = v]
      IN  /\ y.next = mem[n].next /\ y.wpos = mem[n].wpos /\ y.rpos = mem[n].rpos
          /\ y.data[i] = v /\ \A j \in Slots \ {i} : y.data[j] = mem[n].data[j]
  BY ONLY <1>1, i \in Slots, v \in Values \cup {Empty, Taken} DEF NodeType
<1>3. mem'[n] = [mem[n] EXCEPT !.data[i] = v] /\ \A m \in Nodes \ {n} : mem'[m] = mem[m]
  BY DEF Changed
<1>4. /\ mem'[n].next = mem[n].next /\ mem'[n].wpos = mem[n].wpos /\ mem'[n].rpos = mem[n].rpos
      /\ mem'[n].data[i] = v /\ \A j \in Slots \ {i} : mem'[n].data[j] = mem[n].data[j]
  BY ONLY <1>2, <1>3
<1> QED
  BY ONLY <1>3, <1>4 DEF SlotSet

\* The next node is changed in one place only.
LEMMA NextChanged ==
  ASSUME TypeInv, NEW n \in Nodes, NEW k \in Nodes, Changed(n, [mem[n] EXCEPT !.next = k])
  PROVE  NextSet(n, k)
<1>1. mem[n] \in NodeType
  BY DEF TypeInv
<1> QED
  BY <1>1 DEF NextSet, Changed, NodeType

\* A node that was just made holds the value of its writer.
LEMMA MadeChanged ==
  ASSUME TypeInv, NEW n \in Nodes, NEW v \in Values,
         Changed(n, [mem[n] EXCEPT !.wpos = 1, !.data[0] = v])
  PROVE  Made(n, v)
<1>1. mem[n] \in NodeType /\ 0 \in Slots
  BY MpmcQueueAssumption DEF TypeInv, Slots
<1>2. LET y == [mem[n] EXCEPT !.wpos = 1, !.data[0] = v]
      IN  /\ y.next = mem[n].next /\ y.wpos = 1 /\ y.rpos = mem[n].rpos
          /\ y.data[0] = v /\ \A j \in Slots \ {0} : y.data[j] = mem[n].data[j]
  BY <1>1 DEF NodeType
<1>3. /\ mem'[n].next = mem[n].next /\ mem'[n].wpos = 1 /\ mem'[n].rpos = mem[n].rpos
      /\ mem'[n].data[0] = v /\ \A j \in Slots \ {0} : mem'[n].data[j] = mem[n].data[j]
  BY <1>2 DEF Changed
<1>4. \A m \in Nodes : m # n => mem'[m] = mem[m]
  BY DEF Changed
<1> QED
  BY ONLY <1>3, <1>4 DEF Made

-----------------------------------------------------------------------------
(* What each action leaves alone, and the types.                           *)

\* A step of thread t changes nothing of the other threads' own.
Alone(t) ==
  \A s \in Threads \ {t} :
    /\ pc'[s] = pc[s] /\ local'[s] = local[s] /\ hazard'[s] = hazard[s]
    /\ retired'[s] = retired[s] /\ at'[s] = at[s] /\ calls'[s] = calls[s]

\* They know what they knew.
LEMMA OthersKnow ==
  ASSUME KnowInv, NEW t \in Threads, Alone(t),
         t \in Writers => WriterKnows(t)', t \in Readers => ReaderKnows(t)'
  PROVE  KnowInv'
<1>1. ASSUME NEW s \in Writers, s # t
      PROVE  WriterKnows(s)'
  <2>1. WriterKnows(s) /\ s \in Threads \ {t}
    BY <1>1, ThreadIds DEF KnowInv
  <2> QED
    BY <2>1 DEF Alone, WriterKnows, Node
<1>2. ASSUME NEW s \in Readers, s # t
      PROVE  ReaderKnows(s)'
  <2>1. ReaderKnows(s) /\ s \in Threads \ {t}
    BY <1>2, ThreadIds DEF KnowInv
  <2> QED
    BY <2>1 DEF Alone, ReaderKnows, Node
<1> QED
  BY <1>1, <1>2 DEF KnowInv

\* Protect: what it changes, and the types.
LEMMA ProtectEffect ==
  ASSUME TypeInv, KnowInv, NEW t \in Threads, Protect(t)
  PROVE  TypeInv' /\ KnowInv' /\ Alone(t) /\ Moved(t, "announce", At(Root(t)))
<1>1. Root(t) \in Nodes
  BY DEF TypeInv, Root
<1>2. /\ Moved(t, "announce", At(Root(t)))
      /\ pc' \in [Threads -> WriterSteps \cup ReaderSteps] /\ local' \in [Threads -> LocalType]
  BY <1>1, AtNode, GotoMoves DEF Protect, WriterSteps, Entering
<1>3. Alone(t)
  BY <1>2 DEF Protect, Alone, Moved
<1>4. TypeInv'
  BY <1>2 DEF TypeInv, Protect, queue, history
<1>5. t \in Writers => WriterKnows(t)'
  BY <1>1, <1>2, AtNode DEF KnowInv, WriterKnows, Protect, Moved, Node, WriterSteps, Entering, HeldW
<1>6. t \in Readers => ReaderKnows(t)'
  BY <1>1, <1>2, AtNode DEF KnowInv, ReaderKnows, Protect, Moved, Node, ReaderSteps, Entering, HeldR
<1> QED
  BY <1>2, <1>3, <1>4, <1>5, <1>6, OthersKnow

\* Announce: what it changes, and the types.
LEMMA AnnounceEffect ==
  ASSUME TypeInv, KnowInv, NEW t \in Threads, Announce(t)
  PROVE  TypeInv' /\ KnowInv' /\ Alone(t) /\ Moved(t, "recheck", local[t])
<1>1. t \in Threads /\ (t \in Writers => WriterKnows(t)) /\ (t \in Readers => ReaderKnows(t))
  BY ThreadIds DEF KnowInv
<1>2. ("recheck") \in WriterSteps \cup ReaderSteps /\ local[t] \in LocalType
  BY <1>1, AtNode
  DEF TypeInv, Announce, Go, Root, WriterKnows, ReaderKnows, Node, WriterSteps, ReaderSteps,
      Entering, HeldW, HeldR, LocalType, NodeType
<1>3. /\ Moved(t, "recheck", local[t])
      /\ pc' \in [Threads -> WriterSteps \cup ReaderSteps] /\ local' \in [Threads -> LocalType]
  BY <1>1, <1>2, GotoMoves DEF Announce, Go
<1>4. Alone(t)
  BY <1>1, <1>3 DEF TypeInv, Announce, Alone, Moved, Begin
<1>5. TypeInv'
  BY <1>1, <1>3, ThreadIds
  DEF TypeInv, Announce, queue, history, Begin, Go, Node, WriterKnows, ReaderKnows, HeldW, HeldR
<1>6. (t \in Writers => WriterKnows(t)') /\ (t \in Readers => ReaderKnows(t)')
  BY <1>1, <1>3, ThreadIds, AtNode, MpmcQueueAssumption
  DEF TypeInv, WriterKnows, ReaderKnows, Announce, Go, Begin, Moved, Node, Root, WriterSteps,
      ReaderSteps, Entering, HeldW, HeldR, LocalType, NodeType
<1> QED
  BY <1>1, <1>3, <1>4, <1>5, <1>6, ThreadIds, OthersKnow

\* Where Recheck goes.
Rechecked(t) ==
  IF Root(t) # Node(t) THEN "announce" ELSE IF t \in Writers THEN "claim" ELSE "look"

\* Recheck: what it changes, and the types.
LEMMA RecheckEffect ==
  ASSUME TypeInv, KnowInv, NEW t \in Threads, Recheck(t)
  PROVE  TypeInv' /\ KnowInv' /\ Alone(t) /\ Moved(t, Rechecked(t), At(Root(t)))
<1>1. t \in Threads /\ (t \in Writers => WriterKnows(t)) /\ (t \in Readers => ReaderKnows(t))
  BY ThreadIds DEF KnowInv
<1>2. (Rechecked(t)) \in WriterSteps \cup ReaderSteps /\ At(Root(t)) \in LocalType
  BY <1>1, AtNode
  DEF TypeInv, Recheck, Go, Root, WriterKnows, ReaderKnows, Node, WriterSteps, ReaderSteps,
      Entering, HeldW, HeldR, LocalType, NodeType, Rechecked
<1>3. /\ Moved(t, Rechecked(t), At(Root(t)))
      /\ pc' \in [Threads -> WriterSteps \cup ReaderSteps] /\ local' \in [Threads -> LocalType]
  BY <1>1, <1>2, GotoMoves DEF Recheck, Go, Rechecked
<1>4. Alone(t)
  BY <1>1, <1>3 DEF TypeInv, Recheck, Alone, Moved, Begin, Rechecked
<1>5. TypeInv'
  BY <1>1, <1>3 DEF TypeInv, Recheck, queue, history, Begin
<1>6. (t \in Writers => WriterKnows(t)') /\ (t \in Readers => ReaderKnows(t)')
  BY <1>1, <1>3, ThreadIds, AtNode, MpmcQueueAssumption
  DEF TypeInv, WriterKnows, ReaderKnows, Recheck, Go, Begin, Moved, Node, Root, WriterSteps,
      ReaderSteps, Entering, HeldW, HeldR, LocalType, NodeType, Rechecked
<1> QED
  BY <1>1, <1>3, <1>4, <1>5, <1>6, ThreadIds, OthersKnow

\* Clear: what it changes, and the types.
LEMMA ClearEffect ==
  ASSUME TypeInv, KnowInv, NEW t \in Threads, Clear(t)
  PROVE  TypeInv' /\ KnowInv' /\ Alone(t) /\ Moved(t, "idle", At(Null))
<1>1. t \in Threads /\ (t \in Writers => WriterKnows(t)) /\ (t \in Readers => ReaderKnows(t))
  BY ThreadIds DEF KnowInv
<1>2. ("idle") \in WriterSteps \cup ReaderSteps /\ At(Null) \in LocalType
  BY <1>1, AtNode
  DEF TypeInv, Clear, Go, Root, WriterKnows, ReaderKnows, Node, WriterSteps, ReaderSteps,
      Entering, HeldW, HeldR, LocalType, NodeType
<1>3. /\ Moved(t, "idle", At(Null))
      /\ pc' \in [Threads -> WriterSteps \cup ReaderSteps] /\ local' \in [Threads -> LocalType]
  BY <1>1, <1>2, GotoMoves DEF Clear, Go
<1>4. Alone(t)
  BY <1>1, <1>3 DEF TypeInv, Clear, Alone, Moved, Begin
<1>5. TypeInv'
  BY <1>1, <1>3 DEF TypeInv, Clear, queue, history, Begin
<1>6. (t \in Writers => WriterKnows(t)') /\ (t \in Readers => ReaderKnows(t)')
  BY <1>1, <1>3, ThreadIds, AtNode, MpmcQueueAssumption
  DEF TypeInv, WriterKnows, ReaderKnows, Clear, Go, Begin, Moved, Node, Root, WriterSteps,
      ReaderSteps, Entering, HeldW, HeldR, LocalType, NodeType
<1> QED
  BY <1>1, <1>3, <1>4, <1>5, <1>6, ThreadIds, OthersKnow

\* Gc: what it changes, and the types.
LEMMA GcEffect ==
  ASSUME TypeInv, KnowInv, NEW r \in Readers, Gc(r)
  PROVE  TypeInv' /\ KnowInv' /\ Alone(r) /\ Moved(r, "gc", local[r])
<1>1. r \in Threads /\ ReaderKnows(r) /\ r \notin Writers
  BY ThreadIds DEF KnowInv
<1>2. ("gc") \in WriterSteps \cup ReaderSteps /\ local[r] \in LocalType
  BY <1>1, AtNode
  DEF TypeInv, Gc, Go, Root, ReaderKnows, Node, WriterSteps, ReaderSteps, Entering, HeldW, HeldR,
      LocalType, NodeType
<1>3. /\ Moved(r, "gc", local[r])
      /\ pc' \in [Threads -> WriterSteps \cup ReaderSteps] /\ local' \in [Threads -> LocalType]
  BY <1>1, <1>2, GotoMoves DEF Gc, Go
<1>4. Alone(r)
  BY <1>1, <1>3 DEF TypeInv, Gc, Alone, Moved, Begin
<1>5. TypeInv'
  BY <1>1, <1>3 DEF TypeInv, Gc, queue, history, Begin
<1>6. ReaderKnows(r)'
  <2>1. /\ pc'[r] = "gc" /\ pc[r] = "idle" /\ retired' = retired /\ at' = at /\ retired[r] # <<>>
        /\ retired[r] \in Seq(Nodes)
    BY <1>1, <1>3 DEF TypeInv, Gc, Go, Moved
  <2>2. at[r] = <<1, 0>>
    BY <1>1, <2>1 DEF ReaderKnows
  <2>3. 1 \in DOMAIN retired[r] /\ 0 \in Threads
    BY <2>1, ThreadIds
  <2> QED
    BY ONLY <2>1, <2>2, <2>3 DEF ReaderKnows, ReaderSteps, HeldR
<1> QED
  BY <1>1, <1>3, <1>4, <1>5, <1>6, ThreadIds, OthersKnow

\* Push: what it changes, and the types.
LEMMA PushEffect ==
  ASSUME TypeInv, KnowInv, NEW w \in Writers, Push(w)
  PROVE  TypeInv' /\ KnowInv' /\ Alone(w) /\ Moved(w, "protect", local[w])
<1>1. w \in Threads /\ WriterKnows(w) /\ w \notin Readers
  BY ThreadIds DEF KnowInv
<1>2. ("protect") \in WriterSteps \cup ReaderSteps /\ local[w] \in LocalType
  BY <1>1, AtNode
  DEF TypeInv, Push, Go, Root, WriterKnows, Node, WriterSteps, ReaderSteps, Entering, HeldW,
      HeldR, LocalType, NodeType
<1>3. /\ Moved(w, "protect", local[w])
      /\ pc' \in [Threads -> WriterSteps \cup ReaderSteps] /\ local' \in [Threads -> LocalType]
  BY <1>1, <1>2, GotoMoves DEF Push, Go
<1>4. Alone(w)
  BY <1>1, <1>3 DEF TypeInv, Push, Alone, Moved, Begin
<1>5. TypeInv'
  <2>1. calls[w] \in 0 .. Calls /\ calls[w] < Calls /\ Calls \in Nat
    BY <1>1, MpmcQueueAssumption DEF TypeInv, Push, Begin
  <2>2. calls' \in [Threads -> 0 .. Calls]
    BY <1>1, <2>1 DEF TypeInv, Push, Begin
  <2>3. older' \in [Values -> SUBSET Values]
    BY <1>1 DEF TypeInv, Push
  <2> QED
    BY <1>3, <2>2, <2>3 DEF TypeInv, Push, queue
<1>6. WriterKnows(w)'
  <2>1. pc'[w] = "protect" /\ retired' = retired
    BY <1>3 DEF Push, Moved
  <2>2. calls'[w] = calls[w] + 1 /\ calls[w] \in 0 .. Calls
    BY <1>1 DEF TypeInv, Push, Begin
  <2>3. calls'[w] >= 1
    BY ONLY <2>2
  <2>4. retired[w] = <<>>
    BY <1>1 DEF WriterKnows
  <2> QED
    BY ONLY <2>1, <2>3, <2>4 DEF WriterKnows, WriterSteps, Entering, HeldW
<1> QED
  BY <1>1, <1>3, <1>4, <1>5, <1>6, ThreadIds, OthersKnow

\* TryPop: what it changes, and the types.
LEMMA TryPopEffect ==
  ASSUME TypeInv, KnowInv, NEW r \in Readers, TryPop(r)
  PROVE  TypeInv' /\ KnowInv' /\ Alone(r) /\ Moved(r, "protect", local[r])
<1>1. r \in Threads /\ ReaderKnows(r) /\ r \notin Writers
  BY ThreadIds DEF KnowInv
<1>2. ("protect") \in WriterSteps \cup ReaderSteps /\ local[r] \in LocalType
  BY <1>1, AtNode
  DEF TypeInv, TryPop, Go, Root, ReaderKnows, Node, WriterSteps, ReaderSteps, Entering, HeldW,
      HeldR, LocalType, NodeType
<1>3. /\ Moved(r, "protect", local[r])
      /\ pc' \in [Threads -> WriterSteps \cup ReaderSteps] /\ local' \in [Threads -> LocalType]
  BY <1>1, <1>2, GotoMoves DEF TryPop, Go
<1>4. Alone(r)
  BY <1>1, <1>3 DEF TypeInv, TryPop, Alone, Moved, Begin
<1>5. TypeInv'
  <2>1. calls[r] \in 0 .. Calls /\ calls[r] < Calls /\ Calls \in Nat
    BY <1>1, MpmcQueueAssumption DEF TypeInv, TryPop, Begin
  <2>2. calls' \in [Threads -> 0 .. Calls]
    BY <1>1, <2>1 DEF TypeInv, TryPop, Begin
  <2>3. before' \in [Readers -> SUBSET Values]
    BY <1>1 DEF TypeInv, TryPop
  <2> QED
    BY <1>3, <2>2, <2>3 DEF TypeInv, TryPop, queue
<1>6. ReaderKnows(r)'
  BY <1>1, <1>3, ThreadIds, AtNode, MpmcQueueAssumption
  DEF TypeInv, ReaderKnows, TryPop, Go, Begin, Moved, Node, Root, WriterSteps, ReaderSteps,
      Entering, HeldW, HeldR, LocalType, NodeType
<1> QED
  BY <1>1, <1>3, <1>4, <1>5, <1>6, ThreadIds, OthersKnow

\* ReadWritePos: what it changes, and the types.
LEMMA ReadWritePosEffect ==
  ASSUME TypeInv, KnowInv, NEW r \in Readers, ReadWritePos(r)
  PROVE  TypeInv' /\ KnowInv' /\ Alone(r) /\ Moved(r, "compare", [local[r] EXCEPT !.pos = Here(r).wpos])
<1>1. r \in Threads /\ ReaderKnows(r) /\ r \notin Writers
  BY ThreadIds DEF KnowInv
<1>a. Here(r) \in NodeType /\ local[r] \in LocalType
  BY <1>1 DEF TypeInv, ReadWritePos, Go, ReaderKnows, Node, HeldR, Here
<1>2. ("compare") \in WriterSteps \cup ReaderSteps /\ [local[r] EXCEPT !.pos = Here(r).wpos] \in LocalType
  BY <1>1, <1>a, AtNode
  DEF TypeInv, ReadWritePos, Go, Root, ReaderKnows, Node, WriterSteps, ReaderSteps, Entering,
      HeldW, HeldR, LocalType, NodeType, Here
<1>3. /\ Moved(r, "compare", [local[r] EXCEPT !.pos = Here(r).wpos])
      /\ pc' \in [Threads -> WriterSteps \cup ReaderSteps] /\ local' \in [Threads -> LocalType]
  BY <1>1, <1>2, GotoMoves DEF ReadWritePos, Go, Here
<1>4. Alone(r)
  BY <1>1, <1>3 DEF TypeInv, ReadWritePos, Alone, Moved, Begin, Here
<1>5. TypeInv'
  BY <1>1, <1>3 DEF TypeInv, ReadWritePos, queue, history, Begin
<1>6. ReaderKnows(r)'
  BY <1>1, <1>3, ThreadIds, AtNode, MpmcQueueAssumption
  DEF TypeInv, ReaderKnows, ReadWritePos, Go, Begin, Moved, Node, Root, WriterSteps, ReaderSteps,
      Entering, HeldW, HeldR, LocalType, NodeType, Here
<1> QED
  BY <1>1, <1>3, <1>4, <1>5, <1>6, ThreadIds, OthersKnow

\* Compare: what it changes, and the types.
LEMMA CompareEffect ==
  ASSUME TypeInv, KnowInv, NEW r \in Readers, Compare(r)
  PROVE  TypeInv' /\ KnowInv' /\ Alone(r) /\ Moved(r, IF local[r].pos <= Here(r).rpos THEN "last" ELSE "take", At(Node(r)))
<1>1. r \in Threads /\ ReaderKnows(r) /\ r \notin Writers
  BY ThreadIds DEF KnowInv
<1>2. (IF local[r].pos <= Here(r).rpos THEN "last" ELSE "take") \in WriterSteps \cup ReaderSteps /\ At(Node(r)) \in LocalType
  BY <1>1, AtNode
  DEF TypeInv, Compare, Go, Root, ReaderKnows, Node, WriterSteps, ReaderSteps, Entering, HeldW,
      HeldR, LocalType, NodeType, Here
<1>3. /\ Moved(r, IF local[r].pos <= Here(r).rpos THEN "last" ELSE "take", At(Node(r)))
      /\ pc' \in [Threads -> WriterSteps \cup ReaderSteps] /\ local' \in [Threads -> LocalType]
  BY <1>1, <1>2, GotoMoves DEF Compare, Go, Here
<1>4. Alone(r)
  BY <1>1, <1>3 DEF TypeInv, Compare, Alone, Moved, Begin, Here
<1>5. TypeInv'
  BY <1>1, <1>3 DEF TypeInv, Compare, queue, history, Begin
<1>6. ReaderKnows(r)'
  BY <1>1, <1>3, ThreadIds, AtNode, MpmcQueueAssumption
  DEF TypeInv, ReaderKnows, Compare, Go, Begin, Moved, Node, Root, WriterSteps, ReaderSteps,
      Entering, HeldW, HeldR, LocalType, NodeType, Here
<1> QED
  BY <1>1, <1>3, <1>4, <1>5, <1>6, ThreadIds, OthersKnow

\* LastNode: what it changes, and the types.
LEMMA LastNodeEffect ==
  ASSUME TypeInv, KnowInv, NEW r \in Readers, LastNode(r)
  PROVE  TypeInv' /\ KnowInv' /\ Alone(r) /\ Moved(r, IF Here(r).next = Null THEN "empty" ELSE "take", local[r])
<1>1. r \in Threads /\ ReaderKnows(r) /\ r \notin Writers
  BY ThreadIds DEF KnowInv
<1>2. (IF Here(r).next = Null THEN "empty" ELSE "take") \in WriterSteps \cup ReaderSteps /\ local[r] \in LocalType
  BY <1>1, AtNode
  DEF TypeInv, LastNode, Go, Root, ReaderKnows, Node, WriterSteps, ReaderSteps, Entering, HeldW,
      HeldR, LocalType, NodeType, Here
<1>3. /\ Moved(r, IF Here(r).next = Null THEN "empty" ELSE "take", local[r])
      /\ pc' \in [Threads -> WriterSteps \cup ReaderSteps] /\ local' \in [Threads -> LocalType]
  BY <1>1, <1>2, GotoMoves DEF LastNode, Go, Here
<1>4. Alone(r)
  BY <1>1, <1>3 DEF TypeInv, LastNode, Alone, Moved, Begin, Here
<1>5. TypeInv'
  BY <1>1, <1>3 DEF TypeInv, LastNode, queue, history, Begin
<1>6. ReaderKnows(r)'
  BY <1>1, <1>3, ThreadIds, AtNode, MpmcQueueAssumption
  DEF TypeInv, ReaderKnows, LastNode, Go, Begin, Moved, Node, Root, WriterSteps, ReaderSteps,
      Entering, HeldW, HeldR, LocalType, NodeType, Here
<1> QED
  BY <1>1, <1>3, <1>4, <1>5, <1>6, ThreadIds, OthersKnow

\* After: what it changes, and the types.
LEMMA AfterEffect ==
  ASSUME TypeInv, KnowInv, NEW r \in Readers, After(r)
  PROVE  TypeInv' /\ KnowInv' /\ Alone(r) /\ Moved(r, IF Here(r).next = Null THEN "empty" ELSE "advance", [local[r] EXCEPT !.target = Here(r).next])
<1>1. r \in Threads /\ ReaderKnows(r) /\ r \notin Writers
  BY ThreadIds DEF KnowInv
<1>a. Here(r) \in NodeType /\ local[r] \in LocalType
  BY <1>1 DEF TypeInv, After, Go, ReaderKnows, Node, HeldR, Here
<1>2. (IF Here(r).next = Null THEN "empty" ELSE "advance") \in WriterSteps \cup ReaderSteps /\ [local[r] EXCEPT !.target = Here(r).next] \in LocalType
  BY <1>1, <1>a, AtNode
  DEF TypeInv, After, Go, Root, ReaderKnows, Node, WriterSteps, ReaderSteps, Entering, HeldW,
      HeldR, LocalType, NodeType, Here
<1>3. /\ Moved(r, IF Here(r).next = Null THEN "empty" ELSE "advance", [local[r] EXCEPT !.target = Here(r).next])
      /\ pc' \in [Threads -> WriterSteps \cup ReaderSteps] /\ local' \in [Threads -> LocalType]
  BY <1>1, <1>2, GotoMoves DEF After, Go, Here
<1>4. Alone(r)
  BY <1>1, <1>3 DEF TypeInv, After, Alone, Moved, Begin, Here
<1>5. TypeInv'
  BY <1>1, <1>3 DEF TypeInv, After, queue, history, Begin
<1>6. ReaderKnows(r)'
  BY <1>1, <1>3, ThreadIds, AtNode, MpmcQueueAssumption
  DEF TypeInv, ReaderKnows, After, Go, Begin, Moved, Node, Root, WriterSteps, ReaderSteps,
      Entering, HeldW, HeldR, LocalType, NodeType, Here
<1> QED
  BY <1>1, <1>3, <1>4, <1>5, <1>6, ThreadIds, OthersKnow

\* Release: what it changes, and the types.
LEMMA ReleaseEffect ==
  ASSUME TypeInv, KnowInv, NEW r \in Readers, Release(r)
  PROVE  TypeInv' /\ KnowInv' /\ Alone(r) /\ Moved(r, "retire", At(Null))
<1>1. r \in Threads /\ ReaderKnows(r) /\ r \notin Writers
  BY ThreadIds DEF KnowInv
<1>2. ("retire") \in WriterSteps \cup ReaderSteps /\ At(Null) \in LocalType
  BY <1>1, AtNode
  DEF TypeInv, Release, Go, Root, ReaderKnows, Node, WriterSteps, ReaderSteps, Entering, HeldW,
      HeldR, LocalType, NodeType
<1>3. /\ Moved(r, "retire", At(Null))
      /\ pc' \in [Threads -> WriterSteps \cup ReaderSteps] /\ local' \in [Threads -> LocalType]
  BY <1>1, <1>2, GotoMoves DEF Release, Go
<1>4. Alone(r)
  BY <1>1, <1>3 DEF TypeInv, Release, Alone, Moved, Begin
<1>5. TypeInv'
  BY <1>1, <1>3, AppendProperties DEF TypeInv, Release, queue, history, Begin, Node, ReaderKnows
<1>6. ReaderKnows(r)'
  <2>1. /\ pc'[r] = "retire" /\ pc[r] = "release" /\ at' = at
        /\ retired'[r] = Append(retired[r], Node(r)) /\ retired[r] \in Seq(Nodes)
    BY <1>1, <1>3 DEF TypeInv, Release, Moved
  <2>2. at[r] = <<1, 0>> /\ Node(r) \in Nodes
    BY <1>1, <2>1 DEF ReaderKnows
  <2>3. 1 \in DOMAIN retired'[r] /\ 0 \in Threads
    BY <2>1, <2>2, ThreadIds, AppendProperties
  <2> QED
    BY ONLY <2>1, <2>2, <2>3 DEF ReaderKnows, ReaderSteps, HeldR
<1> QED
  BY <1>1, <1>3, <1>4, <1>5, <1>6, ThreadIds, OthersKnow

\* Thread t was given slot p, and goes to l, or to m if there is none.
Claims(t, p, l, m) ==
  Moved(t, IF p < Size THEN l ELSE m, IF p < Size THEN [local[t] EXCEPT !.pos = p] ELSE local[t])

\* ClaimWrite: what it changes, and the types.
LEMMA ClaimWriteEffect ==
  ASSUME TypeInv, KnowInv, NEW w \in Writers, ClaimWrite(w)
  PROVE  /\ TypeInv' /\ KnowInv' /\ Alone(w) /\ Claims(w, Here(w).wpos, "set", "next")
         /\ Node(w) \in Nodes /\ Here(w) \in NodeType
         /\ Changed(Node(w), [Here(w) EXCEPT !.wpos = @ + 1])
<1>1. w \in Threads /\ WriterKnows(w) /\ w \notin Readers
  BY ThreadIds DEF KnowInv
<1>a. Node(w) \in Nodes /\ Here(w) \in NodeType /\ local[w] \in LocalType
  BY <1>1 DEF TypeInv, ClaimWrite, Go, WriterKnows, Node, HeldR, HeldW, Here
<1>2. /\ (IF Here(w).wpos < Size THEN "set" ELSE "next") \in WriterSteps \cup ReaderSteps
      /\ (IF Here(w).wpos < Size THEN [local[w] EXCEPT !.pos = Here(w).wpos] ELSE local[w]) \in LocalType
  BY <1>1, <1>a, AtNode
  DEF TypeInv, ClaimWrite, Go, Root, WriterKnows, Node, WriterSteps, ReaderSteps, Entering, HeldW,
      HeldR, LocalType, NodeType, Here
<1>3. /\ Claims(w, Here(w).wpos, "set", "next")
      /\ pc' \in [Threads -> WriterSteps \cup ReaderSteps] /\ local' \in [Threads -> LocalType]
  BY <1>1, <1>2, GotoMoves DEF Claims, ClaimWrite, Go, Here
<1>4. Alone(w)
  BY <1>1, <1>3 DEF TypeInv, Claims, ClaimWrite, Alone, Moved
<1>b. Changed(Node(w), [Here(w) EXCEPT !.wpos = @ + 1]) /\ mem' \in [Nodes -> NodeType]
  BY <1>1, <1>a, NodeSet, NodeChanged DEF ClaimWrite, Here, TypeInv
<1>5. TypeInv'
  BY <1>1, <1>3, <1>b DEF TypeInv, ClaimWrite, history
<1>6. WriterKnows(w)'
  BY <1>1, <1>3, <1>a, ThreadIds, AtNode, MpmcQueueAssumption
  DEF TypeInv, WriterKnows, ClaimWrite, Go, Moved, Node, WriterSteps, ReaderSteps, Entering,
      HeldW, HeldR, LocalType, NodeType, Here, Claims
<1> QED
  BY <1>1, <1>3, <1>4, <1>5, <1>6, <1>a, <1>b, ThreadIds, OthersKnow

\* ClaimRead: what it changes, and the types.
LEMMA ClaimReadEffect ==
  ASSUME TypeInv, KnowInv, NEW r \in Readers, ClaimRead(r)
  PROVE  /\ TypeInv' /\ KnowInv' /\ Alone(r) /\ Claims(r, Here(r).rpos, "get", "after")
         /\ Node(r) \in Nodes /\ Here(r) \in NodeType
         /\ Changed(Node(r), [Here(r) EXCEPT !.rpos = @ + 1])
<1>1. r \in Threads /\ ReaderKnows(r) /\ r \notin Writers
  BY ThreadIds DEF KnowInv
<1>a. Node(r) \in Nodes /\ Here(r) \in NodeType /\ local[r] \in LocalType
  BY <1>1 DEF TypeInv, ClaimRead, Go, ReaderKnows, Node, HeldR, HeldW, Here
<1>2. /\ (IF Here(r).rpos < Size THEN "get" ELSE "after") \in WriterSteps \cup ReaderSteps
      /\ (IF Here(r).rpos < Size THEN [local[r] EXCEPT !.pos = Here(r).rpos] ELSE local[r]) \in LocalType
  BY <1>1, <1>a, AtNode
  DEF TypeInv, ClaimRead, Go, Root, ReaderKnows, Node, WriterSteps, ReaderSteps, Entering, HeldW,
      HeldR, LocalType, NodeType, Here
<1>3. /\ Claims(r, Here(r).rpos, "get", "after")
      /\ pc' \in [Threads -> WriterSteps \cup ReaderSteps] /\ local' \in [Threads -> LocalType]
  BY <1>1, <1>2, GotoMoves DEF Claims, ClaimRead, Go, Here
<1>4. Alone(r)
  BY <1>1, <1>3 DEF TypeInv, Claims, ClaimRead, Alone, Moved
<1>b. Changed(Node(r), [Here(r) EXCEPT !.rpos = @ + 1]) /\ mem' \in [Nodes -> NodeType]
  BY <1>1, <1>a, NodeSet, NodeChanged DEF ClaimRead, Here, TypeInv
<1>5. TypeInv'
  BY <1>1, <1>3, <1>b DEF TypeInv, ClaimRead, history
<1>6. ReaderKnows(r)'
  BY <1>1, <1>3, <1>a, ThreadIds, AtNode, MpmcQueueAssumption
  DEF TypeInv, ReaderKnows, ClaimRead, Go, Moved, Node, WriterSteps, ReaderSteps, Entering, HeldW,
      HeldR, LocalType, NodeType, Here, Claims
<1> QED
  BY <1>1, <1>3, <1>4, <1>5, <1>6, <1>a, <1>b, ThreadIds, OthersKnow

\* SetValue into an empty slot: what it changes, and the types.
LEMMA SetValueDoneEffect ==
  ASSUME TypeInv, KnowInv, NEW w \in Writers, SetValue(w), Slot(w) = Empty
  PROVE  /\ TypeInv' /\ KnowInv' /\ Alone(w) /\ Moved(w, "done", At(Null))
         /\ Node(w) \in Nodes /\ Here(w) \in NodeType /\ local[w].pos \in Slots /\ Arg(w) \in Values
         /\ Changed(Node(w), [Here(w) EXCEPT !.data[local[w].pos] = Arg(w)])
         /\ pushed' = pushed \cup {Arg(w)}
<1>1. w \in Threads /\ WriterKnows(w) /\ w \notin Readers
  BY ThreadIds DEF KnowInv
<1>2. Node(w) \in Nodes /\ Here(w) \in NodeType /\ local[w] \in LocalType
  BY <1>1 DEF TypeInv, SetValue, Go, WriterKnows, Node, HeldR, HeldW, Here
<1>a. local[w].pos \in Slots /\ Arg(w) \in Values
  BY <1>1, <1>2, MpmcQueueAssumption, ArgValue DEF SetValue, WriterKnows, Slots, LocalType
<1>b. Changed(Node(w), [Here(w) EXCEPT !.data[local[w].pos] = Arg(w)]) /\ mem' \in [Nodes -> NodeType]
  <2>1. mem' = [mem EXCEPT ![Node(w)] = [Here(w) EXCEPT !.data[local[w].pos] = Arg(w)]]
    BY DEF SetValue, Here
  <2>2. [Here(w) EXCEPT !.data[local[w].pos] = Arg(w)] \in NodeType
    BY <1>a, <1>2, NodeChanged
  <2> QED
    BY <2>1, <2>2, <1>2, NodeSet
<1>3. ("done") \in WriterSteps \cup ReaderSteps /\ (At(Null)) \in LocalType
  BY <1>1, <1>2, <1>a, <1>b, AtNode
  DEF SetValue, WriterKnows, WriterSteps, ReaderSteps, Entering, HeldW, HeldR, LocalType,
      NodeType, Here
<1>4. /\ Moved(w, "done", At(Null))
      /\ pc' \in [Threads -> WriterSteps \cup ReaderSteps] /\ local' \in [Threads -> LocalType]
  BY <1>1, <1>3, <1>a, <1>b, GotoMoves DEF SetValue, Go, Here
<1>5. Alone(w)
  BY <1>1, <1>4, <1>a, <1>b DEF TypeInv, SetValue, Alone, Moved
<1>6. TypeInv'
  BY <1>1, <1>2, <1>4, <1>a, <1>b DEF TypeInv, SetValue, history, queue
<1>7. WriterKnows(w)'
  BY <1>1, <1>2, <1>4, <1>a, <1>b, ThreadIds, AtNode, MpmcQueueAssumption
  DEF TypeInv, WriterKnows, SetValue, Moved, Node, WriterSteps, ReaderSteps, Entering, HeldW,
      HeldR, LocalType, NodeType, Here
<1> QED
  BY <1>1, <1>2, <1>4, <1>5, <1>6, <1>7, <1>a, <1>b, ThreadIds, OthersKnow
  DEF SetValue, history, queue

\* SetValue of a slot that its reader gave up: what it changes, and the types.
LEMMA SetValueLostEffect ==
  ASSUME TypeInv, KnowInv, NEW w \in Writers, SetValue(w), Slot(w) # Empty
  PROVE  /\ TypeInv' /\ KnowInv' /\ Alone(w) /\ Moved(w, "protect", At(Null))
         /\ mem' = mem /\ pushed' = pushed
<1>1. w \in Threads /\ WriterKnows(w) /\ w \notin Readers
  BY ThreadIds DEF KnowInv
<1>2. Node(w) \in Nodes /\ Here(w) \in NodeType /\ local[w] \in LocalType
  BY <1>1 DEF TypeInv, SetValue, Go, WriterKnows, Node, HeldR, HeldW, Here
<1>3. ("protect") \in WriterSteps \cup ReaderSteps /\ (At(Null)) \in LocalType
  BY <1>1, <1>2, AtNode
  DEF SetValue, WriterKnows, WriterSteps, ReaderSteps, Entering, HeldW, HeldR, LocalType,
      NodeType, Here
<1>4. /\ Moved(w, "protect", At(Null))
      /\ pc' \in [Threads -> WriterSteps \cup ReaderSteps] /\ local' \in [Threads -> LocalType]
  BY <1>1, <1>3, GotoMoves DEF SetValue, Go, Here
<1>5. Alone(w)
  BY <1>1, <1>4 DEF TypeInv, SetValue, Alone, Moved
<1>6. TypeInv'
  BY <1>1, <1>2, <1>4 DEF TypeInv, SetValue, history, queue
<1>7. WriterKnows(w)'
  BY <1>1, <1>2, <1>4, ThreadIds, AtNode, MpmcQueueAssumption
  DEF TypeInv, WriterKnows, SetValue, Moved, Node, WriterSteps, ReaderSteps, Entering, HeldW,
      HeldR, LocalType, NodeType, Here
<1> QED
  BY <1>1, <1>2, <1>4, <1>5, <1>6, <1>7, ThreadIds, OthersKnow DEF SetValue, history, queue

\* NextNode with a next node: what it changes, and the types.
LEMMA NextNodeFoundEffect ==
  ASSUME TypeInv, KnowInv, NEW w \in Writers, NextNode(w), Here(w).next # Null
  PROVE  /\ TypeInv' /\ KnowInv' /\ Alone(w) /\ Moved(w, "swing", [local[w] EXCEPT !.target = Here(w).next])
         /\ mem' = mem /\ live' = live /\ Node(w) \in Nodes
<1>1. w \in Threads /\ WriterKnows(w) /\ w \notin Readers
  BY ThreadIds DEF KnowInv
<1>2. Node(w) \in Nodes /\ Here(w) \in NodeType /\ local[w] \in LocalType
  BY <1>1 DEF TypeInv, NextNode, Go, WriterKnows, Node, HeldR, HeldW, Here
<1>3. ("swing") \in WriterSteps \cup ReaderSteps /\ ([local[w] EXCEPT !.target = Here(w).next]) \in LocalType
  BY <1>1, <1>2, AtNode
  DEF NextNode, WriterKnows, WriterSteps, ReaderSteps, Entering, HeldW, HeldR, LocalType,
      NodeType, Here
<1>4. /\ Moved(w, "swing", [local[w] EXCEPT !.target = Here(w).next])
      /\ pc' \in [Threads -> WriterSteps \cup ReaderSteps] /\ local' \in [Threads -> LocalType]
  BY <1>1, <1>3, GotoMoves DEF NextNode, Go, Here
<1>5. Alone(w)
  BY <1>1, <1>4 DEF TypeInv, NextNode, Alone, Moved
<1>6. TypeInv'
  BY <1>1, <1>2, <1>4 DEF TypeInv, NextNode, history, queue
<1>7. WriterKnows(w)'
  BY <1>1, <1>2, <1>4, ThreadIds, AtNode, MpmcQueueAssumption
  DEF TypeInv, WriterKnows, NextNode, Moved, Node, WriterSteps, ReaderSteps, Entering, HeldW,
      HeldR, LocalType, NodeType, Here
<1> QED
  BY <1>1, <1>2, <1>4, <1>5, <1>6, <1>7, ThreadIds, OthersKnow DEF NextNode, history, queue

\* Link of a last node: what it changes, and the types.
LEMMA LinkDoneEffect ==
  ASSUME TypeInv, KnowInv, NEW w \in Writers, Link(w), Here(w).next = Null
  PROVE  /\ TypeInv' /\ KnowInv' /\ Alone(w) /\ Moved(w, "finish", local[w])
         /\ Node(w) \in Nodes /\ Here(w) \in NodeType /\ local[w].target \in Nodes /\ Arg(w) \in Values
         /\ Changed(Node(w), [Here(w) EXCEPT !.next = local[w].target])
         /\ live' = live /\ pushed' = pushed \cup {Arg(w)}
<1>1. w \in Threads /\ WriterKnows(w) /\ w \notin Readers
  BY ThreadIds DEF KnowInv
<1>2. Node(w) \in Nodes /\ Here(w) \in NodeType /\ local[w] \in LocalType
  BY <1>1 DEF TypeInv, Link, Go, WriterKnows, Node, HeldR, HeldW, Here
<1>a. local[w].target \in Nodes /\ Arg(w) \in Values
  BY <1>1, <1>2, ArgValue DEF Link, WriterKnows
<1>b. Changed(Node(w), [Here(w) EXCEPT !.next = local[w].target]) /\ mem' \in [Nodes -> NodeType]
  <2>1. mem' = [mem EXCEPT ![Node(w)] = [Here(w) EXCEPT !.next = local[w].target]]
    BY DEF Link, Here
  <2>2. [Here(w) EXCEPT !.next = local[w].target] \in NodeType
    BY <1>a, <1>2, NodeChanged
  <2> QED
    BY <2>1, <2>2, <1>2, NodeSet
<1>3. ("finish") \in WriterSteps \cup ReaderSteps /\ (local[w]) \in LocalType
  BY <1>1, <1>2, <1>a, <1>b, AtNode
  DEF Link, WriterKnows, WriterSteps, ReaderSteps, Entering, HeldW, HeldR, LocalType, NodeType, Here
<1>4. /\ Moved(w, "finish", local[w])
      /\ pc' \in [Threads -> WriterSteps \cup ReaderSteps] /\ local' \in [Threads -> LocalType]
  BY <1>1, <1>3, <1>a, <1>b, GotoMoves DEF Link, Go, Here
<1>5. Alone(w)
  BY <1>1, <1>4, <1>a, <1>b DEF TypeInv, Link, Alone, Moved
<1>6. TypeInv'
  BY <1>1, <1>2, <1>4, <1>a, <1>b DEF TypeInv, Link, history, queue
<1>7. WriterKnows(w)'
  BY <1>1, <1>2, <1>4, <1>a, <1>b, ThreadIds, AtNode, MpmcQueueAssumption
  DEF TypeInv, WriterKnows, Link, Moved, Node, WriterSteps, ReaderSteps, Entering, HeldW, HeldR,
      LocalType, NodeType, Here
<1> QED
  BY <1>1, <1>2, <1>4, <1>5, <1>6, <1>7, <1>a, <1>b, ThreadIds, OthersKnow DEF Link, history, queue

\* Link where another writer was first: what it changes, and the types.
LEMMA LinkLostEffect ==
  ASSUME TypeInv, KnowInv, NEW w \in Writers, Link(w), Here(w).next # Null
  PROVE  /\ TypeInv' /\ KnowInv' /\ Alone(w) /\ Moved(w, "protect", At(Null))
         /\ local[w].target \in Nodes /\ Changed(local[w].target, Blank)
         /\ live' = live \ {local[w].target} /\ pushed' = pushed
<1>1. w \in Threads /\ WriterKnows(w) /\ w \notin Readers
  BY ThreadIds DEF KnowInv
<1>2. Node(w) \in Nodes /\ Here(w) \in NodeType /\ local[w] \in LocalType
  BY <1>1 DEF TypeInv, Link, Go, WriterKnows, Node, HeldR, HeldW, Here
<1>a. local[w].target \in Nodes
  BY <1>1 DEF Link, WriterKnows
<1>b. Changed(local[w].target, Blank) /\ mem' \in [Nodes -> NodeType]
  BY <1>a, NodeSet, BlankNode DEF Link
<1>3. ("protect") \in WriterSteps \cup ReaderSteps /\ (At(Null)) \in LocalType
  BY <1>1, <1>2, <1>a, <1>b, AtNode
  DEF Link, WriterKnows, WriterSteps, ReaderSteps, Entering, HeldW, HeldR, LocalType, NodeType, Here
<1>4. /\ Moved(w, "protect", At(Null))
      /\ pc' \in [Threads -> WriterSteps \cup ReaderSteps] /\ local' \in [Threads -> LocalType]
  BY <1>1, <1>3, <1>a, <1>b, GotoMoves DEF Link, Go, Here
<1>5. Alone(w)
  BY <1>1, <1>4, <1>a, <1>b DEF TypeInv, Link, Alone, Moved
<1>6. TypeInv'
  BY <1>1, <1>2, <1>4, <1>a, <1>b DEF TypeInv, Link, history, queue
<1>7. WriterKnows(w)'
  BY <1>1, <1>2, <1>4, <1>a, <1>b, ThreadIds, AtNode, MpmcQueueAssumption
  DEF TypeInv, WriterKnows, Link, Moved, Node, WriterSteps, ReaderSteps, Entering, HeldW, HeldR,
      LocalType, NodeType, Here
<1> QED
  BY <1>1, <1>2, <1>4, <1>5, <1>6, <1>7, <1>a, <1>b, ThreadIds, OthersKnow DEF Link, history, queue

\* Swing: what it changes, and the types.
LEMMA SwingEffect ==
  ASSUME TypeInv, KnowInv, NEW w \in Writers, Swing(w)
  PROVE  /\ TypeInv' /\ KnowInv' /\ Alone(w) /\ Moved(w, IF pc[w] = "swing" THEN "protect" ELSE "done", At(Null))
         /\ Node(w) \in Nodes /\ local[w].target \in Nodes
<1>1. w \in Threads /\ WriterKnows(w) /\ w \notin Readers
  BY ThreadIds DEF KnowInv
<1>2. Node(w) \in Nodes /\ Here(w) \in NodeType /\ local[w] \in LocalType
  BY <1>1 DEF TypeInv, Swing, Go, WriterKnows, Node, HeldR, HeldW, Here
<1>a. local[w].target \in Nodes
  BY <1>1 DEF Swing, WriterKnows
<1>3. (IF pc[w] = "swing" THEN "protect" ELSE "done") \in WriterSteps \cup ReaderSteps /\ (At(Null)) \in LocalType
  BY <1>1, <1>2, <1>a, AtNode
  DEF Swing, WriterKnows, WriterSteps, ReaderSteps, Entering, HeldW, HeldR, LocalType, NodeType,
      Here
<1>4. /\ Moved(w, IF pc[w] = "swing" THEN "protect" ELSE "done", At(Null))
      /\ pc' \in [Threads -> WriterSteps \cup ReaderSteps] /\ local' \in [Threads -> LocalType]
  BY <1>1, <1>3, <1>a, GotoMoves DEF Swing, Go, Here
<1>5. Alone(w)
  BY <1>1, <1>4, <1>a DEF TypeInv, Swing, Alone, Moved
<1>6. TypeInv'
  BY <1>1, <1>2, <1>4, <1>a DEF TypeInv, Swing, history, queue
<1>7. WriterKnows(w)'
  BY <1>1, <1>2, <1>4, <1>a, ThreadIds, AtNode, MpmcQueueAssumption
  DEF TypeInv, WriterKnows, Swing, Moved, Node, WriterSteps, ReaderSteps, Entering, HeldW, HeldR,
      LocalType, NodeType, Here
<1> QED
  BY <1>1, <1>2, <1>4, <1>5, <1>6, <1>7, <1>a, ThreadIds, OthersKnow DEF Swing, history, queue

\* GetValue: what it changes, and the types.
LEMMA GetValueEffect ==
  ASSUME TypeInv, KnowInv, NEW r \in Readers, GetValue(r)
  PROVE  /\ TypeInv' /\ KnowInv' /\ Alone(r) /\ Moved(r, IF Slot(r) \in Values THEN "done" ELSE "protect", At(Null))
         /\ Node(r) \in Nodes /\ Here(r) \in NodeType /\ local[r].pos \in Slots
         /\ Changed(Node(r), [Here(r) EXCEPT !.data[local[r].pos] = Taken])
<1>1. r \in Threads /\ ReaderKnows(r) /\ r \notin Writers
  BY ThreadIds DEF KnowInv
<1>2. Node(r) \in Nodes /\ Here(r) \in NodeType /\ local[r] \in LocalType
  BY <1>1 DEF TypeInv, GetValue, Go, ReaderKnows, Node, HeldR, HeldW, Here
<1>a. local[r].pos \in Slots
  BY <1>1, <1>2, MpmcQueueAssumption DEF GetValue, ReaderKnows, Slots, LocalType
<1>b. Changed(Node(r), [Here(r) EXCEPT !.data[local[r].pos] = Taken]) /\ mem' \in [Nodes -> NodeType]
  <2>1. mem' = [mem EXCEPT ![Node(r)] = [Here(r) EXCEPT !.data[local[r].pos] = Taken]]
    BY DEF GetValue, Here
  <2>2. [Here(r) EXCEPT !.data[local[r].pos] = Taken] \in NodeType
    BY <1>a, <1>2, NodeChanged
  <2> QED
    BY <2>1, <2>2, <1>2, NodeSet
<1>3. (IF Slot(r) \in Values THEN "done" ELSE "protect") \in WriterSteps \cup ReaderSteps /\ (At(Null)) \in LocalType
  BY <1>1, <1>2, <1>a, <1>b, AtNode
  DEF GetValue, ReaderKnows, WriterSteps, ReaderSteps, Entering, HeldW, HeldR, LocalType,
      NodeType, Here
<1>4. /\ Moved(r, IF Slot(r) \in Values THEN "done" ELSE "protect", At(Null))
      /\ pc' \in [Threads -> WriterSteps \cup ReaderSteps] /\ local' \in [Threads -> LocalType]
  BY <1>1, <1>3, <1>a, <1>b, GotoMoves DEF GetValue, Go, Here
<1>5. Alone(r)
  BY <1>1, <1>4, <1>a, <1>b DEF TypeInv, GetValue, Alone, Moved
<1>6. TypeInv'
  BY <1>1, <1>2, <1>4, <1>a, <1>b DEF TypeInv, GetValue, history, queue
<1>7. ReaderKnows(r)'
  BY <1>1, <1>2, <1>4, <1>a, <1>b, ThreadIds, AtNode, MpmcQueueAssumption
  DEF TypeInv, ReaderKnows, GetValue, Moved, Node, WriterSteps, ReaderSteps, Entering, HeldW,
      HeldR, LocalType, NodeType, Here
<1> QED
  BY <1>1, <1>2, <1>4, <1>5, <1>6, <1>7, <1>a, <1>b, ThreadIds, OthersKnow
  DEF GetValue, history, queue

\* Advance that moves read_pos_: what it changes, and the types.
LEMMA AdvanceDoneEffect ==
  ASSUME TypeInv, KnowInv, NEW r \in Readers, Advance(r), read_pos = Node(r), local[r].target # Null
  PROVE  /\ TypeInv' /\ KnowInv' /\ Alone(r) /\ Moved(r, "release", At(Node(r)))
         /\ Node(r) \in Nodes /\ local[r].target \in Nodes /\ read_pos' = local[r].target
<1>1. r \in Threads /\ ReaderKnows(r) /\ r \notin Writers
  BY ThreadIds DEF KnowInv
<1>2. Node(r) \in Nodes /\ Here(r) \in NodeType /\ local[r] \in LocalType
  BY <1>1 DEF TypeInv, Advance, Go, ReaderKnows, Node, HeldR, HeldW, Here
<1>a. local[r].target \in Nodes
  BY <1>1, <1>2 DEF LocalType
<1>3. ("release") \in WriterSteps \cup ReaderSteps /\ (At(Node(r))) \in LocalType
  BY <1>1, <1>2, <1>a, AtNode
  DEF Advance, ReaderKnows, WriterSteps, ReaderSteps, Entering, HeldW, HeldR, LocalType, NodeType,
      Here
<1>4. /\ Moved(r, "release", At(Node(r)))
      /\ pc' \in [Threads -> WriterSteps \cup ReaderSteps] /\ local' \in [Threads -> LocalType]
  BY <1>1, <1>3, <1>a, GotoMoves DEF Advance, Go, Here
<1>5. Alone(r)
  BY <1>1, <1>4, <1>a DEF TypeInv, Advance, Alone, Moved
<1>6. TypeInv'
  BY <1>1, <1>2, <1>4, <1>a DEF TypeInv, Advance, history, queue
<1>7. ReaderKnows(r)'
  BY <1>1, <1>2, <1>4, <1>a, ThreadIds, AtNode, MpmcQueueAssumption
  DEF TypeInv, ReaderKnows, Advance, Moved, Node, WriterSteps, ReaderSteps, Entering, HeldW,
      HeldR, LocalType, NodeType, Here
<1> QED
  BY <1>1, <1>2, <1>4, <1>5, <1>6, <1>7, <1>a, ThreadIds, OthersKnow DEF Advance, history, queue

\* Advance where another reader was first: what it changes, and the types.
LEMMA AdvanceLostEffect ==
  ASSUME TypeInv, KnowInv, NEW r \in Readers, Advance(r), read_pos # Node(r)
  PROVE  /\ TypeInv' /\ KnowInv' /\ Alone(r) /\ Moved(r, "protect", At(Null))
         /\ read_pos' = read_pos
<1>1. r \in Threads /\ ReaderKnows(r) /\ r \notin Writers
  BY ThreadIds DEF KnowInv
<1>2. Node(r) \in Nodes /\ Here(r) \in NodeType /\ local[r] \in LocalType
  BY <1>1 DEF TypeInv, Advance, Go, ReaderKnows, Node, HeldR, HeldW, Here
<1>3. ("protect") \in WriterSteps \cup ReaderSteps /\ (At(Null)) \in LocalType
  BY <1>1, <1>2, AtNode
  DEF Advance, ReaderKnows, WriterSteps, ReaderSteps, Entering, HeldW, HeldR, LocalType, NodeType,
      Here
<1>4. /\ Moved(r, "protect", At(Null))
      /\ pc' \in [Threads -> WriterSteps \cup ReaderSteps] /\ local' \in [Threads -> LocalType]
  BY <1>1, <1>3, GotoMoves DEF Advance, Go, Here
<1>5. Alone(r)
  BY <1>1, <1>4 DEF TypeInv, Advance, Alone, Moved
<1>6. TypeInv'
  BY <1>1, <1>2, <1>4 DEF TypeInv, Advance, history, queue
<1>7. ReaderKnows(r)'
  BY <1>1, <1>2, <1>4, ThreadIds, AtNode, MpmcQueueAssumption
  DEF TypeInv, ReaderKnows, Advance, Moved, Node, WriterSteps, ReaderSteps, Entering, HeldW,
      HeldR, LocalType, NodeType, Here
<1> QED
  BY <1>1, <1>2, <1>4, <1>5, <1>6, <1>7, ThreadIds, OthersKnow DEF Advance, history, queue

\* NextNode makes node n.
Makes(w, n) ==
  /\ pc[w] = "next" /\ Here(w).next = Null
  /\ live' = live \cup {n} /\ Goto(w, "link", [local[w] EXCEPT !.target = n])
  /\ mem' = [mem EXCEPT ![n].wpos = 1, ![n].data[0] = Arg(w)]
  /\ UNCHANGED <<write_pos, read_pos, hazard, retired, at, calls, history>>

\* NextNode finds a next node, or makes one.
LEMMA NextNodeCases ==
  ASSUME NEW w \in Writers, NextNode(w), Here(w).next = Null
  PROVE  \E n \in Nodes \ live : Makes(w, n)
BY DEF NextNode, Makes

\* NextNode that makes a node: what it changes, and the types.
LEMMA MakesEffect ==
  ASSUME TypeInv, KnowInv, NEW w \in Writers, NEW n \in Nodes \ live, Makes(w, n)
  PROVE  /\ TypeInv' /\ KnowInv' /\ Alone(w) /\ Moved(w, "link", [local[w] EXCEPT !.target = n])
         /\ Node(w) \in Nodes /\ Arg(w) \in Values /\ live' = live \cup {n}
         /\ Changed(n, [mem[n] EXCEPT !.wpos = 1, !.data[0] = Arg(w)])
<1>1. w \in Threads /\ WriterKnows(w) /\ w \notin Readers
  BY ThreadIds DEF KnowInv
<1>2. Node(w) \in Nodes /\ mem[n] \in NodeType /\ local[w] \in LocalType
  BY <1>1 DEF TypeInv, Makes, WriterKnows, HeldW
<1>a. Arg(w) \in Values
  BY <1>1, ArgValue DEF Makes, WriterKnows
<1>b. Changed(n, [mem[n] EXCEPT !.wpos = 1, !.data[0] = Arg(w)]) /\ mem' \in [Nodes -> NodeType]
  <2>a. mem' = [mem EXCEPT ![n].wpos = 1, ![n].data[0] = Arg(w)]
    BY ONLY Makes(w, n) DEF Makes
  <2>b. mem \in [Nodes -> NodeType] /\ n \in Nodes
    BY DEF TypeInv
  <2>1. mem' = [mem EXCEPT ![n] = [mem[n] EXCEPT !.wpos = 1, !.data[0] = Arg(w)]]
    BY ONLY <2>a, <2>b
  <2>2. [mem[n] EXCEPT !.wpos = 1, !.data[0] = Arg(w)] \in NodeType
    BY <1>a, <1>2, NodeChanged
  <2> QED
    BY <2>1, <2>2, NodeSet
<1>3. "link" \in WriterSteps \cup ReaderSteps /\ [local[w] EXCEPT !.target = n] \in LocalType
  BY <1>2 DEF WriterSteps, HeldW, LocalType
<1>4. /\ Moved(w, "link", [local[w] EXCEPT !.target = n])
      /\ pc' \in [Threads -> WriterSteps \cup ReaderSteps] /\ local' \in [Threads -> LocalType]
  BY <1>1, <1>3, GotoMoves DEF Makes
<1>5. Alone(w)
  BY <1>1, <1>4 DEF TypeInv, Makes, Alone, Moved
<1>6. TypeInv'
  BY <1>1, <1>b, <1>4 DEF TypeInv, Makes, history
<1>7. WriterKnows(w)'
  BY <1>1, <1>2, <1>4 DEF WriterKnows, Makes, Moved, Node, WriterSteps, HeldW, LocalType
<1> QED
  BY <1>1, <1>2, <1>4, <1>5, <1>6, <1>7, <1>a, <1>b, OthersKnow DEF Makes

\* A list without its i-th element.
Without(s, i) == SubSeq(s, 1, i - 1) \o SubSeq(s, i + 1, Len(s))

\* A sequence without one of its elements.
LEMMA WithoutOne ==
  ASSUME NEW S, NEW s \in Seq(S), NEW i \in 1 .. Len(s)
  PROVE  /\ Without(s, i) \in Seq(S) /\ Len(Without(s, i)) = Len(s) - 1
         /\ \A j \in 1 .. Len(s) - 1 : Without(s, i)[j] = IF j < i THEN s[j] ELSE s[j + 1]
<1>1. Len(s) \in Nat /\ i \in Nat
  OBVIOUS
<1>2. /\ SubSeq(s, 1, i - 1) \in Seq(S) /\ Len(SubSeq(s, 1, i - 1)) = i - 1
      /\ \A j \in 1 .. i - 1 : SubSeq(s, 1, i - 1)[j] = s[j]
  BY <1>1
<1>3. /\ SubSeq(s, i + 1, Len(s)) \in Seq(S) /\ Len(SubSeq(s, i + 1, Len(s))) = Len(s) - i
      /\ \A j \in 1 .. Len(s) - i : SubSeq(s, i + 1, Len(s))[j] = s[i + j]
  BY <1>1
<1> DEFINE a == SubSeq(s, 1, i - 1)
           b == SubSeq(s, i + 1, Len(s))
<1>4. a \in Seq(S) /\ b \in Seq(S) /\ Len(a) = i - 1 /\ Len(b) = Len(s) - i
  BY <1>2, <1>3
<1>5. Without(s, i) = a \o b
  BY DEF Without
<1>6. \A j \in 1 .. Len(s) - 1 : j < i => a[j] = s[j]
  BY <1>1, <1>2
<1>7. \A j \in 1 .. Len(s) - 1 : ~(j < i) => b[j - (i - 1)] = s[j + 1]
  <2>1. ASSUME NEW j \in 1 .. Len(s) - 1, ~(j < i)
        PROVE  b[j - (i - 1)] = s[j + 1]
    <3>1. j - (i - 1) \in 1 .. Len(s) - i /\ i + (j - (i - 1)) = j + 1
      BY <1>1, <2>1
    <3> QED
      BY <3>1, <1>3
  <2> QED
    BY <2>1
<1> HIDE DEF a, b
<1>8. /\ a \o b \in Seq(S) /\ Len(a \o b) = Len(a) + Len(b)
      /\ \A j \in 1 .. Len(a) + Len(b) : (a \o b)[j] = IF j <= Len(a) THEN a[j] ELSE b[j - Len(a)]
  BY <1>4, ConcatProperties
<1> QED
  BY <1>1, <1>4, <1>5, <1>6, <1>7, <1>8

\* The node that retire of thread t looks for, and the thread whose pointer it reads.
Sought(t) == retired[t][at[t][1]]
Asked(t) == at[t][2]
IsLast(t) == at[t][1] = Len(retired[t])

\* Where Look leaves off with a node.
LookEnd(t) == IF IsLast(t) THEN IF pc[t] = "gc" THEN "idle" ELSE "protect" ELSE pc[t]

\* Where Look looks.
LEMMA LookType ==
  ASSUME TypeInv, KnowInv, NEW t \in Readers, Look(t)
  PROVE  /\ t \in Threads /\ pc[t] \in {"retire", "gc"} /\ retired[t] \in Seq(Nodes)
         /\ at[t][1] \in 1 .. Len(retired[t]) /\ Asked(t) \in Threads /\ Sought(t) \in Nodes
         /\ at[t] \in Nat \X Nat
<1>1. ReaderKnows(t) /\ t \in Threads /\ pc[t] \in {"retire", "gc"}
  BY ThreadIds DEF KnowInv, Look
<1> QED
  BY <1>1 DEF TypeInv, ReaderKnows, Sought, Asked

\* Look at the pointer that keeps the node: what it changes, and the types.
LEMMA LookKeepEffect ==
  ASSUME TypeInv, KnowInv, NEW t \in Readers, Look(t), hazard[Asked(t)] = Sought(t)
  PROVE  /\ TypeInv' /\ KnowInv' /\ Alone(t) /\ Moved(t, LookEnd(t), At(Null))
         /\ UNCHANGED <<queue, hazard, retired, history>>
         /\ at'[t] = IF IsLast(t) THEN <<1, 0>> ELSE <<at[t][1] + 1, 0>>
<1> DEFINE place == IF IsLast(t) THEN <<1, 0>> ELSE <<at[t][1] + 1, 0>>
<1>1. /\ t \in Threads /\ pc[t] \in {"retire", "gc"} /\ retired[t] \in Seq(Nodes)
      /\ at[t][1] \in 1 .. Len(retired[t]) /\ Asked(t) \in Threads /\ Sought(t) \in Nodes
      /\ at[t] \in Nat \X Nat
  BY LookType
<1>2. Goto(t, LookEnd(t), At(Null))
  BY DEF Look, LookEnd, IsLast, Sought, Asked
<1>3. UNCHANGED <<queue, hazard, retired, calls, history>> /\ at' = [at EXCEPT ![t] = place]
  BY DEF Look, IsLast, Sought, Asked, queue
<1>4. /\ Moved(t, LookEnd(t), At(Null))
      /\ pc' \in [Threads -> WriterSteps \cup ReaderSteps] /\ local' \in [Threads -> LocalType]
  BY <1>1, <1>2, GotoMoves, AtNode DEF LookEnd, WriterSteps, ReaderSteps, Entering
<1>5. Alone(t) /\ at'[t] = place /\ place \in Nat \X Nat
  BY <1>1, <1>3, <1>4 DEF TypeInv, Alone, Moved
<1>6. TypeInv'
  BY <1>1, <1>3, <1>4, <1>5 DEF TypeInv, queue, history
<1>7. ReaderKnows(t)'
  <2>1. IsLast(t) => pc'[t] \notin {"retire", "gc"} /\ at'[t] = <<1, 0>>
    BY <1>4, <1>5 DEF Moved, LookEnd
  <2>2. ~IsLast(t) => pc'[t] \in {"retire", "gc"} /\ at'[t][1] \in DOMAIN retired[t] /\ at'[t][2] = 0
    BY <1>1, <1>4, <1>5 DEF Moved, LookEnd, IsLast
  <2>3. 0 \in Threads
    BY ThreadIds
  <2>4. pc'[t] \in {"idle", "protect", "retire", "gc"}
    BY <1>1, <1>4 DEF Moved, LookEnd
  <2> QED
    BY <1>3, <2>1, <2>2, <2>3, <2>4 DEF ReaderKnows, ReaderSteps, Entering, HeldR
<1> QED
  BY <1>1, <1>3, <1>4, <1>5, <1>6, <1>7, OthersKnow, ThreadIds

\* Look at another pointer: what it changes, and the types.
LEMMA LookNextEffect ==
  ASSUME TypeInv, KnowInv, NEW t \in Readers, Look(t),
         hazard[Asked(t)] # Sought(t), Asked(t) # LastThread
  PROVE  /\ TypeInv' /\ KnowInv' /\ Alone(t) /\ Moved(t, pc[t], At(Null))
         /\ UNCHANGED <<queue, hazard, retired, history>>
         /\ at'[t] = <<at[t][1], Asked(t) + 1>>
<1> DEFINE place == <<at[t][1], Asked(t) + 1>>
<1>1. /\ t \in Threads /\ pc[t] \in {"retire", "gc"} /\ retired[t] \in Seq(Nodes)
      /\ at[t][1] \in 1 .. Len(retired[t]) /\ Asked(t) \in Threads /\ Sought(t) \in Nodes
      /\ at[t] \in Nat \X Nat
  BY LookType
<1>2. Goto(t, pc[t], At(Null))
  BY DEF Look, IsLast, Sought, Asked
<1>3. UNCHANGED <<queue, hazard, retired, calls, history>> /\ at' = [at EXCEPT ![t] = place]
  BY DEF Look, IsLast, Sought, Asked, queue
<1>4. /\ Moved(t, pc[t], At(Null))
      /\ pc' \in [Threads -> WriterSteps \cup ReaderSteps] /\ local' \in [Threads -> LocalType]
  BY <1>1, <1>2, GotoMoves, AtNode DEF TypeInv
<1>5. Asked(t) + 1 \in Threads
  BY <1>1, ThreadIds
<1>6. Alone(t) /\ at'[t] = place /\ place \in Nat \X Nat
  BY <1>1, <1>3, <1>4, <1>5, ThreadIds DEF TypeInv, Alone, Moved
<1>7. TypeInv'
  BY <1>1, <1>3, <1>4, <1>6 DEF TypeInv, queue, history
<1>8. ReaderKnows(t)'
  BY <1>1, <1>3, <1>4, <1>5, <1>6 DEF Moved, ReaderKnows, ReaderSteps, Entering, HeldR
<1> QED
  BY <1>1, <1>3, <1>4, <1>6, <1>7, <1>8, OthersKnow, ThreadIds

\* Look at the last of the pointers: what it changes, and the types.
LEMMA LookFreeEffect ==
  ASSUME TypeInv, KnowInv, NEW t \in Readers, Look(t),
         hazard[Asked(t)] # Sought(t), Asked(t) = LastThread
  PROVE  /\ TypeInv' /\ KnowInv' /\ Alone(t) /\ Moved(t, LookEnd(t), At(Null))
         /\ UNCHANGED <<write_pos, read_pos, hazard, history>>
         /\ Sought(t) \in Nodes /\ Changed(Sought(t), Blank) /\ live' = live \ {Sought(t)}
         /\ retired'[t] = Without(retired[t], at[t][1])
         /\ at'[t][2] = 0
<1> DEFINE place == IF IsLast(t) THEN <<1, 0>> ELSE <<at[t][1], 0>>
<1>1. /\ t \in Threads /\ pc[t] \in {"retire", "gc"} /\ retired[t] \in Seq(Nodes)
      /\ at[t][1] \in 1 .. Len(retired[t]) /\ Asked(t) \in Threads /\ Sought(t) \in Nodes
      /\ at[t] \in Nat \X Nat
  BY LookType
<1>2. Goto(t, LookEnd(t), At(Null))
  BY DEF Look, LookEnd, IsLast, Sought, Asked
<1>3. UNCHANGED <<write_pos, read_pos, hazard, calls, history>> /\ at' = [at EXCEPT ![t] = place]
  BY DEF Look, IsLast, Sought, Asked
<1>4. /\ live' = live \ {Sought(t)} /\ mem' = [mem EXCEPT ![Sought(t)] = Blank]
      /\ retired' = [retired EXCEPT ![t] = Without(retired[t], at[t][1])]
  BY DEF Look, Sought, Asked, Without
<1>5. /\ Moved(t, LookEnd(t), At(Null))
      /\ pc' \in [Threads -> WriterSteps \cup ReaderSteps] /\ local' \in [Threads -> LocalType]
  BY <1>1, <1>2, GotoMoves, AtNode DEF LookEnd, WriterSteps, ReaderSteps, Entering
<1>6. Changed(Sought(t), Blank) /\ mem' \in [Nodes -> NodeType]
  BY <1>1, <1>4, NodeSet, BlankNode
<1>7. Without(retired[t], at[t][1]) \in Seq(Nodes) /\ Len(Without(retired[t], at[t][1])) = Len(retired[t]) - 1
  BY <1>1, WithoutOne
<1>8. /\ Alone(t) /\ at'[t] = place /\ place \in Nat \X Nat
      /\ retired'[t] = Without(retired[t], at[t][1])
  BY <1>1, <1>3, <1>4, <1>5 DEF TypeInv, Alone, Moved
<1>9. TypeInv'
  BY <1>1, <1>3, <1>4, <1>5, <1>6, <1>7, <1>8 DEF TypeInv, history
<1>10. ReaderKnows(t)'
  <2>1. IsLast(t) => pc'[t] \notin {"retire", "gc"} /\ at'[t] = <<1, 0>>
    BY <1>5, <1>8 DEF Moved, LookEnd
  <2>2. ~IsLast(t) => pc'[t] \in {"retire", "gc"} /\ at'[t][1] \in DOMAIN retired'[t] /\ at'[t][2] = 0
    BY <1>1, <1>5, <1>7, <1>8 DEF Moved, LookEnd, IsLast
  <2>3. 0 \in Threads
    BY ThreadIds
  <2>4. pc'[t] \in {"idle", "protect", "retire", "gc"}
    BY <1>1, <1>5 DEF Moved, LookEnd
  <2> QED
    BY <2>1, <2>2, <2>3, <2>4 DEF ReaderKnows, ReaderSteps, Entering, HeldR
<1> QED
  BY <1>1, <1>3, <1>4, <1>5, <1>6, <1>8, <1>9, <1>10, OthersKnow, ThreadIds

-----------------------------------------------------------------------------
(* Steps of a thread that neither owns nor gives up a node.                *)

Quiet(t) ==
  /\ UNCHANGED <<read_pos, live, retired>>
  /\ \A n \in Nodes : mem'[n].next = mem[n].next
  /\ pc[t] \notin {"link", "release"} /\ pc'[t] \notin {"link", "release"}

\* If it is a reader in a node, it has been there or has just protected it.
Stays(t) ==
  t \in Readers /\ pc'[t] \in HeldR =>
    /\ Node(t)' = read_pos \/ (pc[t] \in HeldR /\ Node(t)' = Node(t))
    /\ pc'[t] = "advance" => local'[t].target # Null /\ local'[t].target = mem[Node(t)'].next

\* Unlinked stays if no reader comes to Release or leaves it.
LEMMA SameUnlinked ==
  ASSUME NEW t \in Threads, Alone(t), pc[t] # "release", pc'[t] # "release"
  PROVE  Unlinked' = Unlinked
<1>1. \A r \in Readers : pc'[r] = "release" <=> pc[r] = "release"
  BY ThreadIds DEF Alone
<1>2. \A r \in Readers : pc[r] = "release" => local'[r] = local[r]
  BY ThreadIds DEF Alone
<1> QED
  BY <1>1, <1>2 DEF Unlinked, Node

\* Private stays if no writer comes to Link or leaves it.
LEMMA SamePrivate ==
  ASSUME NEW t \in Threads, Alone(t), t \in Readers \/ (pc[t] # "link" /\ pc'[t] # "link")
  PROVE  Private' = Private
<1>1. \A w \in Writers : pc'[w] = "link" <=> pc[w] = "link"
  BY ThreadIds DEF Alone
<1>2. \A w \in Writers : pc[w] = "link" => local'[w] = local[w]
  BY ThreadIds DEF Alone
<1> QED
  BY <1>1, <1>2 DEF Private

\* A quiet step leaves the sets of nodes alone.
LEMMA QuietSets ==
  ASSUME NEW t \in Threads, Alone(t), Quiet(t)
  PROVE  /\ Retired' = Retired /\ Unlinked' = Unlinked /\ Private' = Private
         /\ Gone' = Gone /\ Linked' = Linked
<1>1. Unlinked' = Unlinked /\ Private' = Private
  BY SameUnlinked, SamePrivate DEF Quiet
<1>2. Retired' = Retired
  BY DEF Retired, Quiet
<1> QED
  BY <1>1, <1>2 DEF Gone, Linked, Quiet

\* Nodes that are owned exist.
LEMMA OwnedAlive ==
  ASSUME TypeInv, OwnInv
  PROVE  Gone \subseteq live /\ Private \subseteq live /\ live \subseteq Nodes
BY DEF TypeInv, OwnInv, Gone, Retired, Unlinked, Private

\* A quiet step keeps who owns which node.
LEMMA QuietKeeps ==
  ASSUME TypeInv, NEW t \in Threads, Alone(t), Quiet(t), OwnInv, LinkInv
  PROVE  OwnInv' /\ LinkInv'
<1>1. /\ Retired' = Retired /\ Unlinked' = Unlinked /\ Private' = Private
      /\ Gone' = Gone /\ Linked' = Linked
  BY QuietSets
<1>2. \A r \in Readers : (pc'[r] = "release" => pc[r] = "release" /\ local'[r] = local[r])
  BY ThreadIds DEF Alone, Quiet
<1>3. \A w \in Writers : (pc'[w] = "link" => pc[w] = "link" /\ local'[w] = local[w])
  BY ThreadIds DEF Alone, Quiet
<1>4. OwnInv'
  BY <1>1, <1>2, <1>3 DEF OwnInv, Node, Quiet
<1>5. LinkInv'
  <2>1. /\ read_pos' = read_pos /\ \A n \in Nodes : mem'[n].next = mem[n].next
        /\ Gone \subseteq Nodes
    BY OwnedAlive DEF Quiet
  <2> QED
    BY <1>1, <2>1 DEF LinkInv
<1> QED
  BY <1>4, <1>5

\* A quiet step keeps readers in nodes that they have protected.
LEMMA QuietReads ==
  ASSUME NEW t \in Threads, KnowInv, KnowInv', Alone(t), Quiet(t), Stays(t),
         OwnInv, LinkInv, ReadInv
  PROVE  ReadInv'
<1>1. Private' = Private /\ Linked' = Linked
  BY QuietSets
<1>2. ASSUME NEW r \in Readers, r # t
      PROVE  Protected(r)'
  <2>1. Protected(r) /\ pc'[r] = pc[r] /\ local'[r] = local[r] /\ hazard'[r] = hazard[r]
    BY <1>2, ThreadIds DEF ReadInv, Alone
  <2>2. pc[r] \in HeldR => Node(r) \in Nodes
    BY DEF KnowInv, ReaderKnows
  <2> QED
    BY <1>1, <2>1, <2>2 DEF Protected, Node, Quiet
<1>3. t \in Readers => Protected(t)'
  <2>1. SUFFICES ASSUME t \in Readers, pc'[t] \in HeldR
                 PROVE  /\ Node(t)' \in live' \ Private'
                        /\ Node(t)' \in Linked' => Node(t)' = read_pos'
                        /\ pc'[t] = "advance" => /\ local'[t].target # Null
                                                 /\ local'[t].target = mem'[Node(t)'].next
    BY DEF Protected
  <2>2. Node(t)' = read_pos \/ (pc[t] \in HeldR /\ Node(t)' = Node(t))
    BY <2>1 DEF Stays
  <2>3. Node(t)' \in live \ Private /\ (Node(t)' \in Linked => Node(t)' = read_pos)
    BY <2>1, <2>2 DEF LinkInv, Linked, ReadInv, Protected
  <2>4. Node(t)' \in Nodes
    BY <2>1 DEF KnowInv, ReaderKnows, Node
  <2> QED
    BY <1>1, <2>1, <2>3, <2>4 DEF Stays, Quiet
<1> QED
  BY <1>2, <1>3 DEF ReadInv

\* A quiet step lets no reader be overlooked.
LEMMA QuietScans ==
  ASSUME NEW t \in Threads, KnowInv, TypeInv, Alone(t), Quiet(t), Stays(t), LinkInv, ScanInv,
         pc'[t] \in {"retire", "gc"} => at'[t][2] = 0
  PROVE  ScanInv'
<1> SUFFICES ASSUME NEW a \in Readers, NEW b \in Readers, Overlooked(a, b)'
             PROVE  FALSE
  BY DEF ScanInv
<1>1. b \in Nat /\ a \in Threads /\ b \in Threads
  BY ThreadIds
<1>2. CASE a = t
  BY <1>1, <1>2 DEF Overlooked
<1>3. CASE a # t /\ b # t
  <2>1. /\ pc'[a] = pc[a] /\ pc'[b] = pc[b] /\ at'[a] = at[a] /\ retired'[a] = retired[a]
        /\ local'[b] = local[b]
    BY <1>1, <1>3 DEF Alone
  <2> QED
    BY <2>1 DEF Overlooked, ScanInv, Node
<1>4. CASE a # t /\ b = t
  <2>1. /\ pc[a] \in {"retire", "gc"} /\ at'[a] = at[a] /\ retired'[a] = retired[a]
        /\ pc'[t] \in HeldR /\ Node(t)' = retired[a][at[a][1]] /\ t < at[a][2]
    BY <1>1, <1>4 DEF Overlooked, Alone
  <2>2. Node(t)' # read_pos
    <3>1. at[a][1] \in DOMAIN retired[a] /\ retired[a] \in Seq(Nodes)
      BY <1>1, <2>1 DEF KnowInv, ReaderKnows, TypeInv
    <3>2. retired[a][at[a][1]] \in Retired
      BY <3>1 DEF Retired
    <3> QED
      BY <2>1, <3>2 DEF LinkInv, Linked, Gone
  <2>3. pc[t] \in HeldR /\ Node(t)' = Node(t)
    BY <1>4, <2>1, <2>2 DEF Stays
  <2> QED
    BY <1>4, <2>1, <2>3 DEF ScanInv, Overlooked
<1> QED
  BY <1>2, <1>3, <1>4

\* A quiet step puts no unknown value in a slot.
LEMMA QuietData ==
  ASSUME NEW t \in Threads, Alone(t), Quiet(t), DataInv, pushed \subseteq pushed',
         popped' \subseteq pushed',
         \A n \in Nodes : \A i \in Slots :
           mem'[n].data[i] \notin Values \/ mem'[n].data[i] = mem[n].data[i] \/ mem'[n].data[i] \in pushed'
  PROVE  DataInv'
<1>1. \A w \in Writers :
        pc[w] = "link" => pc'[w] = "link" /\ local'[w] = local[w] /\ Arg(w)' = Arg(w)
  BY ThreadIds DEF Alone, Quiet, Arg
<1>2. ASSUME NEW n \in Nodes, NEW i \in Slots, mem'[n].data[i] \in Values,
             mem'[n].data[i] \notin pushed'
      PROVE  \E w \in Writers : pc'[w] = "link" /\ local'[w].target = n /\ mem'[n].data[i] = Arg(w)'
  <2>1. mem'[n].data[i] = mem[n].data[i]
    BY <1>2
  <2>2. PICK w \in Writers : pc[w] = "link" /\ local[w].target = n /\ mem[n].data[i] = Arg(w)
    BY <1>2, <2>1 DEF DataInv
  <2> QED
    BY <1>1, <2>1, <2>2
<1> QED
  BY <1>2 DEF DataInv

\* A quiet step keeps the readers safe.
LEMMA QuietSafe ==
  ASSUME SafeInv, NEW t \in Threads, TypeInv', KnowInv', Alone(t), Quiet(t), Stays(t),
         pc'[t] \in {"retire", "gc"} => at'[t][2] = 0,
         pushed \subseteq pushed', popped' \subseteq pushed',
         \A n \in Nodes : \A i \in Slots :
           mem'[n].data[i] \notin Values \/ mem'[n].data[i] = mem[n].data[i] \/ mem'[n].data[i] \in pushed'
  PROVE  SafeInv'
BY QuietKeeps, QuietReads, QuietScans, QuietData DEF SafeInv

-----------------------------------------------------------------------------
(* The actions that are such steps.                                        *)

\* Protect keeps the readers safe.
LEMMA ProtectSafe ==
  ASSUME SafeInv, NEW t \in Threads, Protect(t)
  PROVE  SafeInv' /\ Quiet(t)
<1>1. /\ t \in Threads /\ TypeInv /\ KnowInv /\ TypeInv' /\ KnowInv' /\ Alone(t)
      /\ Moved(t, "announce", At(Root(t)))
  BY ThreadIds, ProtectEffect DEF SafeInv
<1>3. UNCHANGED <<mem, live, read_pos, retired>> /\ pushed' = pushed /\ popped' = popped
  BY <1>1 DEF Protect, queue, history
<1>4. Quiet(t)
  BY <1>1, <1>3 DEF Quiet, Moved, Protect, Go
<1>5. Stays(t)
  BY <1>1, <1>3, AtNode, ThreadIds
  DEF SafeInv, TypeInv, KnowInv, ReaderKnows, ReadInv, Protected, Stays, Moved, Claims, Protect,
      Go, Node, Here, Root, HeldR, LocalType
<1> QED
  BY <1>1, <1>3, <1>4, <1>5, QuietSafe DEF SafeInv, DataInv, Moved

\* Announce keeps the readers safe.
LEMMA AnnounceSafe ==
  ASSUME SafeInv, NEW t \in Threads, Announce(t)
  PROVE  SafeInv' /\ Quiet(t)
<1>1. /\ t \in Threads /\ TypeInv /\ KnowInv /\ TypeInv' /\ KnowInv' /\ Alone(t)
      /\ Moved(t, "recheck", local[t])
  BY ThreadIds, AnnounceEffect DEF SafeInv
<1>3. UNCHANGED <<mem, live, read_pos, retired>> /\ pushed' = pushed /\ popped' = popped
  BY <1>1 DEF Announce, queue, history
<1>4. Quiet(t)
  BY <1>1, <1>3 DEF Quiet, Moved, Announce, Go
<1>5. Stays(t)
  BY <1>1, <1>3, AtNode, ThreadIds
  DEF SafeInv, TypeInv, KnowInv, ReaderKnows, ReadInv, Protected, Stays, Moved, Claims, Announce,
      Go, Node, Here, Root, HeldR, LocalType
<1> QED
  BY <1>1, <1>3, <1>4, <1>5, QuietSafe DEF SafeInv, DataInv, Moved

\* Recheck keeps the readers safe.
LEMMA RecheckSafe ==
  ASSUME SafeInv, NEW t \in Threads, Recheck(t)
  PROVE  SafeInv' /\ Quiet(t)
<1>1. /\ t \in Threads /\ TypeInv /\ KnowInv /\ TypeInv' /\ KnowInv' /\ Alone(t)
      /\ Moved(t, Rechecked(t), At(Root(t)))
  BY ThreadIds, RecheckEffect DEF SafeInv
<1>3. UNCHANGED <<mem, live, read_pos, retired>> /\ pushed' = pushed /\ popped' = popped
  BY <1>1 DEF Recheck, queue, history, Rechecked
<1>4. Quiet(t)
  BY <1>1, <1>3 DEF Quiet, Moved, Recheck, Go, Rechecked
<1>5. Stays(t)
  BY <1>1, <1>3, AtNode, ThreadIds
  DEF SafeInv, TypeInv, KnowInv, ReaderKnows, ReadInv, Protected, Stays, Moved, Claims, Recheck,
      Go, Node, Here, Root, HeldR, LocalType, Rechecked
<1> QED
  BY <1>1, <1>3, <1>4, <1>5, QuietSafe DEF SafeInv, DataInv, Moved, Rechecked

\* Clear keeps the readers safe.
LEMMA ClearSafe ==
  ASSUME SafeInv, NEW t \in Threads, Clear(t)
  PROVE  SafeInv' /\ Quiet(t)
<1>1. /\ t \in Threads /\ TypeInv /\ KnowInv /\ TypeInv' /\ KnowInv' /\ Alone(t)
      /\ Moved(t, "idle", At(Null))
  BY ThreadIds, ClearEffect DEF SafeInv
<1>3. UNCHANGED <<mem, live, read_pos, retired>> /\ pushed' = pushed /\ popped' = popped
  BY <1>1 DEF Clear, queue, history
<1>4. Quiet(t)
  BY <1>1, <1>3 DEF Quiet, Moved, Clear, Go
<1>5. Stays(t)
  BY <1>1, <1>3, AtNode, ThreadIds
  DEF SafeInv, TypeInv, KnowInv, ReaderKnows, ReadInv, Protected, Stays, Moved, Claims, Clear, Go,
      Node, Here, Root, HeldR, LocalType
<1> QED
  BY <1>1, <1>3, <1>4, <1>5, QuietSafe DEF SafeInv, DataInv, Moved

\* Gc keeps the readers safe.
LEMMA GcSafe ==
  ASSUME SafeInv, NEW r \in Readers, Gc(r)
  PROVE  SafeInv' /\ Quiet(r)
<1>1. /\ r \in Threads /\ TypeInv /\ KnowInv /\ TypeInv' /\ KnowInv' /\ Alone(r)
      /\ Moved(r, "gc", local[r])
  BY ThreadIds, GcEffect DEF SafeInv
<1>3. UNCHANGED <<mem, live, read_pos, retired>> /\ pushed' = pushed /\ popped' = popped
  BY <1>1 DEF Gc, queue, history
<1>4. Quiet(r)
  BY <1>1, <1>3 DEF Quiet, Moved, Gc, Go
<1>5. Stays(r)
  BY <1>1, <1>3, AtNode, ThreadIds
  DEF SafeInv, TypeInv, KnowInv, ReaderKnows, ReadInv, Protected, Stays, Moved, Claims, Gc, Go,
      Node, Here, Root, HeldR, LocalType
<1> QED
  BY <1>1, <1>3, <1>4, <1>5, QuietSafe DEF SafeInv, DataInv, Moved, Gc, Go, KnowInv, ReaderKnows

\* Push keeps the readers safe.
LEMMA PushSafe ==
  ASSUME SafeInv, NEW w \in Writers, Push(w)
  PROVE  SafeInv' /\ Quiet(w)
<1>1. /\ w \in Threads /\ TypeInv /\ KnowInv /\ TypeInv' /\ KnowInv' /\ Alone(w)
      /\ Moved(w, "protect", local[w])
  BY ThreadIds, PushEffect DEF SafeInv
<1>3. UNCHANGED <<mem, live, read_pos, retired>> /\ pushed' = pushed /\ popped' = popped
  BY <1>1 DEF Push, queue, history
<1>4. Quiet(w)
  BY <1>1, <1>3 DEF Quiet, Moved, Push, Go
<1>5. Stays(w)
  BY <1>1, <1>3, AtNode, ThreadIds
  DEF SafeInv, TypeInv, KnowInv, ReaderKnows, ReadInv, Protected, Stays, Moved, Claims, Push, Go,
      Node, Here, Root, HeldR, LocalType
<1> QED
  BY <1>1, <1>3, <1>4, <1>5, QuietSafe DEF SafeInv, DataInv, Moved

\* TryPop keeps the readers safe.
LEMMA TryPopSafe ==
  ASSUME SafeInv, NEW r \in Readers, TryPop(r)
  PROVE  SafeInv' /\ Quiet(r)
<1>1. /\ r \in Threads /\ TypeInv /\ KnowInv /\ TypeInv' /\ KnowInv' /\ Alone(r)
      /\ Moved(r, "protect", local[r])
  BY ThreadIds, TryPopEffect DEF SafeInv
<1>3. UNCHANGED <<mem, live, read_pos, retired>> /\ pushed' = pushed /\ popped' = popped
  BY <1>1 DEF TryPop, queue, history
<1>4. Quiet(r)
  BY <1>1, <1>3 DEF Quiet, Moved, TryPop, Go
<1>5. Stays(r)
  BY <1>1, <1>3, AtNode, ThreadIds
  DEF SafeInv, TypeInv, KnowInv, ReaderKnows, ReadInv, Protected, Stays, Moved, Claims, TryPop,
      Go, Node, Here, Root, HeldR, LocalType
<1> QED
  BY <1>1, <1>3, <1>4, <1>5, QuietSafe DEF SafeInv, DataInv, Moved

\* ReadWritePos keeps the readers safe.
LEMMA ReadWritePosSafe ==
  ASSUME SafeInv, NEW r \in Readers, ReadWritePos(r)
  PROVE  SafeInv' /\ Quiet(r)
<1>1. /\ r \in Threads /\ TypeInv /\ KnowInv /\ TypeInv' /\ KnowInv' /\ Alone(r)
      /\ Moved(r, "compare", [local[r] EXCEPT !.pos = Here(r).wpos])
  BY ThreadIds, ReadWritePosEffect DEF SafeInv
<1>3. UNCHANGED <<mem, live, read_pos, retired>> /\ pushed' = pushed /\ popped' = popped
  BY <1>1 DEF ReadWritePos, queue, history
<1>4. Quiet(r)
  BY <1>1, <1>3 DEF Quiet, Moved, ReadWritePos, Go
<1>5. Stays(r)
  BY <1>1, <1>3, AtNode, ThreadIds
  DEF SafeInv, TypeInv, KnowInv, ReaderKnows, ReadInv, Protected, Stays, Moved, Claims,
      ReadWritePos, Go, Node, Here, Root, HeldR, LocalType
<1> QED
  BY <1>1, <1>3, <1>4, <1>5, QuietSafe DEF SafeInv, DataInv, Moved

\* Compare keeps the readers safe.
LEMMA CompareSafe ==
  ASSUME SafeInv, NEW r \in Readers, Compare(r)
  PROVE  SafeInv' /\ Quiet(r)
<1>1. /\ r \in Threads /\ TypeInv /\ KnowInv /\ TypeInv' /\ KnowInv' /\ Alone(r)
      /\ Moved(r, IF local[r].pos <= Here(r).rpos THEN "last" ELSE "take", At(Node(r)))
  BY ThreadIds, CompareEffect DEF SafeInv
<1>3. UNCHANGED <<mem, live, read_pos, retired>> /\ pushed' = pushed /\ popped' = popped
  BY <1>1 DEF Compare, queue, history
<1>4. Quiet(r)
  BY <1>1, <1>3 DEF Quiet, Moved, Compare, Go
<1>5. Stays(r)
  BY <1>1, <1>3, AtNode, ThreadIds
  DEF SafeInv, TypeInv, KnowInv, ReaderKnows, ReadInv, Protected, Stays, Moved, Claims, Compare,
      Go, Node, Here, Root, HeldR, LocalType
<1> QED
  BY <1>1, <1>3, <1>4, <1>5, QuietSafe DEF SafeInv, DataInv, Moved

\* LastNode keeps the readers safe.
LEMMA LastNodeSafe ==
  ASSUME SafeInv, NEW r \in Readers, LastNode(r)
  PROVE  SafeInv' /\ Quiet(r)
<1>1. /\ r \in Threads /\ TypeInv /\ KnowInv /\ TypeInv' /\ KnowInv' /\ Alone(r)
      /\ Moved(r, IF Here(r).next = Null THEN "empty" ELSE "take", local[r])
  BY ThreadIds, LastNodeEffect DEF SafeInv
<1>3. UNCHANGED <<mem, live, read_pos, retired>> /\ pushed' = pushed /\ popped' = popped
  BY <1>1 DEF LastNode, queue, history
<1>4. Quiet(r)
  BY <1>1, <1>3 DEF Quiet, Moved, LastNode, Go
<1>5. Stays(r)
  BY <1>1, <1>3, AtNode, ThreadIds
  DEF SafeInv, TypeInv, KnowInv, ReaderKnows, ReadInv, Protected, Stays, Moved, Claims, LastNode,
      Go, Node, Here, Root, HeldR, LocalType
<1> QED
  BY <1>1, <1>3, <1>4, <1>5, QuietSafe DEF SafeInv, DataInv, Moved

\* After keeps the readers safe.
LEMMA AfterSafe ==
  ASSUME SafeInv, NEW r \in Readers, After(r)
  PROVE  SafeInv' /\ Quiet(r)
<1>1. /\ r \in Threads /\ TypeInv /\ KnowInv /\ TypeInv' /\ KnowInv' /\ Alone(r)
      /\ Moved(r, IF Here(r).next = Null THEN "empty" ELSE "advance",
               [local[r] EXCEPT !.target = Here(r).next])
  BY ThreadIds, AfterEffect DEF SafeInv
<1>3. UNCHANGED <<mem, live, read_pos, retired>> /\ pushed' = pushed /\ popped' = popped
  BY <1>1 DEF After, queue, history
<1>4. Quiet(r)
  BY <1>1, <1>3 DEF Quiet, Moved, After, Go
<1>5. Stays(r)
  BY <1>1, <1>3, AtNode, ThreadIds
  DEF SafeInv, TypeInv, KnowInv, ReaderKnows, ReadInv, Protected, Stays, Moved, Claims, After, Go,
      Node, Here, Root, HeldR, LocalType
<1> QED
  BY <1>1, <1>3, <1>4, <1>5, QuietSafe DEF SafeInv, DataInv, Moved

\* ClaimWrite keeps the readers safe.
LEMMA ClaimWriteSafe ==
  ASSUME SafeInv, NEW w \in Writers, ClaimWrite(w)
  PROVE  SafeInv' /\ Quiet(w)
<1>1. /\ w \in Threads /\ TypeInv /\ KnowInv /\ TypeInv' /\ KnowInv' /\ Alone(w)
      /\ Claims(w, Here(w).wpos, "set", "next")
      /\ Node(w) \in Nodes /\ Here(w) \in NodeType
      /\ Changed(Node(w), [Here(w) EXCEPT !.wpos = @ + 1])
  BY ThreadIds, ClaimWriteEffect DEF SafeInv
<1>3. UNCHANGED <<live, read_pos, retired>> /\ pushed \subseteq pushed'
  BY <1>1 DEF ClaimWrite, history
<1>4. Quiet(w)
  <2>1. \A n \in Nodes : mem'[n].next = mem[n].next
    BY <1>1, WposChanged DEF WposGrown, Here
  <2> QED
    BY <1>1, <1>3, <2>1 DEF Quiet, Moved, Claims, ClaimWrite, Go
<1>5. Stays(w)
  BY <1>1, <1>3, AtNode, ThreadIds
  DEF SafeInv, TypeInv, KnowInv, ReaderKnows, ReadInv, Protected, Stays, Moved, Claims,
      ClaimWrite, Go, Node, Here, Root, HeldR, LocalType
<1>6. \A n \in Nodes : \A i \in Slots :
        mem'[n].data[i] \notin Values \/ mem'[n].data[i] = mem[n].data[i] \/ mem'[n].data[i] \in pushed'
  BY <1>1, WposChanged, Marks DEF WposGrown, Here
<1>7. popped' \subseteq pushed'
  BY <1>3 DEF SafeInv, DataInv, ClaimWrite, history
<1> QED
  BY <1>1, <1>3, <1>4, <1>5, <1>6, <1>7, QuietSafe DEF SafeInv, Moved, Claims

\* ClaimRead keeps the readers safe.
LEMMA ClaimReadSafe ==
  ASSUME SafeInv, NEW r \in Readers, ClaimRead(r)
  PROVE  SafeInv' /\ Quiet(r)
<1>1. /\ r \in Threads /\ TypeInv /\ KnowInv /\ TypeInv' /\ KnowInv' /\ Alone(r)
      /\ Claims(r, Here(r).rpos, "get", "after")
      /\ Node(r) \in Nodes /\ Here(r) \in NodeType
      /\ Changed(Node(r), [Here(r) EXCEPT !.rpos = @ + 1])
  BY ThreadIds, ClaimReadEffect DEF SafeInv
<1>3. UNCHANGED <<live, read_pos, retired>> /\ pushed \subseteq pushed'
  BY <1>1 DEF ClaimRead, history
<1>4. Quiet(r)
  <2>1. \A n \in Nodes : mem'[n].next = mem[n].next
    BY <1>1, RposChanged DEF RposGrown, Here
  <2> QED
    BY <1>1, <1>3, <2>1 DEF Quiet, Moved, Claims, ClaimRead, Go
<1>5. Stays(r)
  BY <1>1, <1>3, AtNode, ThreadIds
  DEF SafeInv, TypeInv, KnowInv, ReaderKnows, ReadInv, Protected, Stays, Moved, Claims, ClaimRead,
      Go, Node, Here, Root, HeldR, LocalType
<1>6. \A n \in Nodes : \A i \in Slots :
        mem'[n].data[i] \notin Values \/ mem'[n].data[i] = mem[n].data[i] \/ mem'[n].data[i] \in pushed'
  BY <1>1, RposChanged, Marks DEF RposGrown, Here
<1>7. popped' \subseteq pushed'
  BY <1>3 DEF SafeInv, DataInv, ClaimRead, history
<1> QED
  BY <1>1, <1>3, <1>4, <1>5, <1>6, <1>7, QuietSafe DEF SafeInv, Moved, Claims

\* SetValue into an empty slot keeps the readers safe.
LEMMA SetValueDoneSafe ==
  ASSUME SafeInv, NEW w \in Writers, SetValue(w), Slot(w) = Empty
  PROVE  SafeInv' /\ Quiet(w)
<1>1. /\ w \in Threads /\ TypeInv /\ KnowInv /\ TypeInv' /\ KnowInv' /\ Alone(w)
      /\ Moved(w, "done", At(Null))
      /\ Node(w) \in Nodes /\ Here(w) \in NodeType /\ local[w].pos \in Slots /\ Arg(w) \in Values
      /\ Changed(Node(w), [Here(w) EXCEPT !.data[local[w].pos] = Arg(w)])
      /\ pushed' = pushed \cup {Arg(w)}
  BY ThreadIds, SetValueDoneEffect DEF SafeInv
<1>3. UNCHANGED <<live, read_pos, retired>> /\ pushed \subseteq pushed'
  BY <1>1 DEF SetValue, history
<1>4. Quiet(w)
  <2>1. \A n \in Nodes : mem'[n].next = mem[n].next
    BY <1>1, DataChanged DEF SlotSet, Here
  <2> QED
    BY <1>1, <1>3, <2>1 DEF Quiet, Moved, Claims, SetValue, Go
<1>5. Stays(w)
  BY <1>1, <1>3, AtNode, ThreadIds
  DEF SafeInv, TypeInv, KnowInv, ReaderKnows, ReadInv, Protected, Stays, Moved, Claims, SetValue,
      Go, Node, Here, Root, HeldR, LocalType
<1>6. \A n \in Nodes : \A i \in Slots :
        mem'[n].data[i] \notin Values \/ mem'[n].data[i] = mem[n].data[i] \/ mem'[n].data[i] \in pushed'
  BY <1>1, DataChanged, Marks DEF SlotSet, Here
<1>7. popped' \subseteq pushed'
  BY <1>3 DEF SafeInv, DataInv, SetValue, history
<1> QED
  BY <1>1, <1>3, <1>4, <1>5, <1>6, <1>7, QuietSafe DEF SafeInv, Moved, Claims

\* SetValue of a slot that its reader gave up keeps the readers safe.
LEMMA SetValueLostSafe ==
  ASSUME SafeInv, NEW w \in Writers, SetValue(w), Slot(w) # Empty
  PROVE  SafeInv' /\ Quiet(w)
<1>1. /\ w \in Threads /\ TypeInv /\ KnowInv /\ TypeInv' /\ KnowInv' /\ Alone(w)
      /\ Moved(w, "protect", At(Null))
  BY ThreadIds, SetValueLostEffect DEF SafeInv
<1>3. UNCHANGED <<mem, live, read_pos, retired>> /\ pushed' = pushed /\ popped' = popped
  BY <1>1 DEF SetValue, queue, history
<1>4. Quiet(w)
  BY <1>1, <1>3 DEF Quiet, Moved, SetValue, Go
<1>5. Stays(w)
  BY <1>1, <1>3, AtNode, ThreadIds
  DEF SafeInv, TypeInv, KnowInv, ReaderKnows, ReadInv, Protected, Stays, Moved, Claims, SetValue,
      Go, Node, Here, Root, HeldR, LocalType
<1> QED
  BY <1>1, <1>3, <1>4, <1>5, QuietSafe DEF SafeInv, DataInv, Moved

\* NextNode with a next node keeps the readers safe.
LEMMA NextNodeFoundSafe ==
  ASSUME SafeInv, NEW w \in Writers, NextNode(w), Here(w).next # Null
  PROVE  SafeInv' /\ Quiet(w)
<1>1. /\ w \in Threads /\ TypeInv /\ KnowInv /\ TypeInv' /\ KnowInv' /\ Alone(w)
      /\ Moved(w, "swing", [local[w] EXCEPT !.target = Here(w).next])
      /\ mem' = mem /\ live' = live
  BY ThreadIds, NextNodeFoundEffect DEF SafeInv
<1>3. UNCHANGED <<mem, live, read_pos, retired>> /\ pushed' = pushed /\ popped' = popped
  BY <1>1 DEF NextNode, queue, history
<1>4. Quiet(w)
  BY <1>1, <1>3 DEF Quiet, Moved, NextNode, Go
<1>5. Stays(w)
  BY <1>1, <1>3, AtNode, ThreadIds
  DEF SafeInv, TypeInv, KnowInv, ReaderKnows, ReadInv, Protected, Stays, Moved, Claims, NextNode,
      Go, Node, Here, Root, HeldR, LocalType
<1> QED
  BY <1>1, <1>3, <1>4, <1>5, QuietSafe DEF SafeInv, DataInv, Moved

\* Swing keeps the readers safe.
LEMMA SwingSafe ==
  ASSUME SafeInv, NEW w \in Writers, Swing(w)
  PROVE  SafeInv' /\ Quiet(w)
<1>1. /\ w \in Threads /\ TypeInv /\ KnowInv /\ TypeInv' /\ KnowInv' /\ Alone(w)
      /\ Moved(w, IF pc[w] = "swing" THEN "protect" ELSE "done", At(Null))
  BY ThreadIds, SwingEffect DEF SafeInv
<1>3. UNCHANGED <<mem, live, read_pos, retired>> /\ pushed' = pushed /\ popped' = popped
  BY <1>1 DEF Swing, queue, history
<1>4. Quiet(w)
  BY <1>1, <1>3 DEF Quiet, Moved, Swing, Go
<1>5. Stays(w)
  BY <1>1, <1>3, AtNode, ThreadIds
  DEF SafeInv, TypeInv, KnowInv, ReaderKnows, ReadInv, Protected, Stays, Moved, Claims, Swing, Go,
      Node, Here, Root, HeldR, LocalType
<1> QED
  BY <1>1, <1>3, <1>4, <1>5, QuietSafe DEF SafeInv, DataInv, Moved

\* GetValue keeps the readers safe.
LEMMA GetValueSafe ==
  ASSUME SafeInv, NEW r \in Readers, GetValue(r)
  PROVE  SafeInv' /\ Quiet(r)
<1>1. /\ r \in Threads /\ TypeInv /\ KnowInv /\ TypeInv' /\ KnowInv' /\ Alone(r)
      /\ Moved(r, IF Slot(r) \in Values THEN "done" ELSE "protect", At(Null))
      /\ Node(r) \in Nodes /\ Here(r) \in NodeType /\ local[r].pos \in Slots
      /\ Changed(Node(r), [Here(r) EXCEPT !.data[local[r].pos] = Taken])
  BY ThreadIds, GetValueEffect DEF SafeInv
<1>3. UNCHANGED <<live, read_pos, retired>> /\ pushed \subseteq pushed'
  BY <1>1 DEF GetValue, history
<1>4. Quiet(r)
  <2>1. \A n \in Nodes : mem'[n].next = mem[n].next
    BY <1>1, DataChanged DEF SlotSet, Here
  <2> QED
    BY <1>1, <1>3, <2>1 DEF Quiet, Moved, Claims, GetValue, Go
<1>5. Stays(r)
  BY <1>1, <1>3, AtNode, ThreadIds
  DEF SafeInv, TypeInv, KnowInv, ReaderKnows, ReadInv, Protected, Stays, Moved, Claims, GetValue,
      Go, Node, Here, Root, HeldR, LocalType
<1>6. \A n \in Nodes : \A i \in Slots :
        mem'[n].data[i] \notin Values \/ mem'[n].data[i] = mem[n].data[i] \/ mem'[n].data[i] \in pushed'
  BY <1>1, DataChanged, Marks DEF SlotSet, Here
<1>7. popped' \subseteq pushed'
  <2>1. Slot(r) \in Values => Slot(r) \in pushed
    <3>1. Node(r) \notin Private
      BY DEF SafeInv, ReadInv, Protected, GetValue, HeldR
    <3> QED
      BY <1>1, <3>1 DEF SafeInv, DataInv, Private, Slot, Here
  <2> QED
    BY <1>3, <2>1 DEF SafeInv, DataInv, GetValue
<1> QED
  BY <1>1, <1>3, <1>4, <1>5, <1>6, <1>7, QuietSafe DEF SafeInv, Moved, Claims

\* Advance where another reader was first keeps the readers safe.
LEMMA AdvanceLostSafe ==
  ASSUME SafeInv, NEW r \in Readers, Advance(r), read_pos # Node(r)
  PROVE  SafeInv' /\ Quiet(r)
<1>1. /\ r \in Threads /\ TypeInv /\ KnowInv /\ TypeInv' /\ KnowInv' /\ Alone(r)
      /\ Moved(r, "protect", At(Null))
  BY ThreadIds, AdvanceLostEffect DEF SafeInv
<1>3. UNCHANGED <<mem, live, read_pos, retired>> /\ pushed' = pushed /\ popped' = popped
  BY <1>1 DEF Advance, queue, history
<1>4. Quiet(r)
  BY <1>1, <1>3 DEF Quiet, Moved, Advance, Go
<1>5. Stays(r)
  BY <1>1, <1>3, AtNode, ThreadIds
  DEF SafeInv, TypeInv, KnowInv, ReaderKnows, ReadInv, Protected, Stays, Moved, Claims, Advance,
      Go, Node, Here, Root, HeldR, LocalType
<1> QED
  BY <1>1, <1>3, <1>4, <1>5, QuietSafe DEF SafeInv, DataInv, Moved

\* Look at the pointer that keeps the node keeps the readers safe.
LEMMA LookKeepSafe ==
  ASSUME SafeInv, NEW r \in Readers, Look(r), hazard[Asked(r)] = Sought(r)
  PROVE  SafeInv' /\ Quiet(r)
<1>1. /\ r \in Threads /\ TypeInv /\ KnowInv /\ TypeInv' /\ KnowInv' /\ Alone(r)
      /\ Moved(r, LookEnd(r), At(Null))
      /\ UNCHANGED <<queue, hazard, retired, history>>
      /\ at'[r] = IF IsLast(r) THEN <<1, 0>> ELSE <<at[r][1] + 1, 0>>
  BY ThreadIds, LookKeepEffect DEF SafeInv
<1>3. UNCHANGED <<mem, live, read_pos, retired>> /\ pushed' = pushed /\ popped' = popped
  BY <1>1 DEF Look, queue, history, LookEnd
<1>4. Quiet(r)
  BY <1>1, <1>3 DEF Quiet, Moved, Look, Go, LookEnd
<1>5. Stays(r)
  BY <1>1, <1>3, AtNode, ThreadIds
  DEF SafeInv, TypeInv, KnowInv, ReaderKnows, ReadInv, Protected, Stays, Moved, Claims, Look, Go,
      Node, Here, Root, HeldR, LocalType, LookEnd
<1>6. at'[r][2] = 0
  BY <1>1
<1> QED
  BY <1>1, <1>3, <1>4, <1>5, <1>6, QuietSafe DEF SafeInv, DataInv, Moved

-----------------------------------------------------------------------------
(* Steps by which a node gets another owner.                               *)

\* What a step of t leaves as it was for everybody else.
LEMMA OthersOwn ==
  ASSUME NEW t \in Threads, Alone(t)
  PROVE  /\ \A r \in Readers \ {t} : /\ pc'[r] = pc[r] /\ local'[r] = local[r]
                                     /\ hazard'[r] = hazard[r] /\ retired'[r] = retired[r]
                                     /\ at'[r] = at[r]
         /\ \A w \in Writers \ {t} : /\ pc'[w] = pc[w] /\ local'[w] = local[w]
                                     /\ retired'[w] = retired[w] /\ calls'[w] = calls[w]
BY ThreadIds DEF Alone

\* A reader is not yet to be asked about a node that it is not in.
LEMMA LookNextSafe ==
  ASSUME SafeInv, NEW t \in Readers, Look(t), hazard[Asked(t)] # Sought(t), Asked(t) # LastThread
  PROVE  SafeInv' /\ Quiet(t)
<1>1. /\ t \in Threads /\ TypeInv /\ KnowInv /\ TypeInv' /\ KnowInv' /\ Alone(t)
      /\ Moved(t, pc[t], At(Null))
      /\ UNCHANGED <<queue, hazard, retired, history>>
      /\ at'[t] = <<at[t][1], Asked(t) + 1>>
      /\ pc[t] \in {"retire", "gc"}
  BY ThreadIds, LookNextEffect, LookType DEF SafeInv
<1>2. UNCHANGED <<mem, live, read_pos, retired>> /\ pushed' = pushed /\ popped' = popped
  BY <1>1 DEF queue, history
<1>3. Quiet(t)
  BY <1>1, <1>2 DEF Quiet, Moved
<1>4. Stays(t)
  BY <1>1 DEF Stays, Moved, HeldR
<1>5. OwnInv' /\ LinkInv' /\ ReadInv'
  BY <1>1, <1>3, <1>4, QuietKeeps, QuietReads DEF SafeInv
<1>6. DataInv'
  BY <1>1, <1>2, <1>3, QuietData DEF SafeInv, DataInv
<1>7. ScanInv'
  <2> SUFFICES ASSUME NEW a \in Readers, NEW b \in Readers, Overlooked(a, b)'
               PROVE  FALSE
    BY DEF ScanInv
  <2>1. ~Overlooked(a, b)
    BY DEF SafeInv, ScanInv
  <2>2. pc'[b] = pc[b] /\ pc'[a] = pc[a] /\ (a # t => at'[a] = at[a])
    BY <1>1, OthersOwn DEF Moved
  <2>3. b # t /\ local'[b] = local[b]
    BY <1>1, <2>2, OthersOwn DEF Overlooked, HeldR
  <2>4. a = t
    BY <1>2, <2>1, <2>2, <2>3 DEF Overlooked, Node
  <2>5. pc[b] \in HeldR /\ Node(b) = Sought(t) /\ b < Asked(t) + 1 /\ ~(b < Asked(t))
    BY <1>1, <1>2, <2>1, <2>2, <2>3, <2>4 DEF Overlooked, Node, Sought, Asked
  <2>6. b = Asked(t)
    BY <1>1, <2>5, ThreadIds, LookType
  <2>7. hazard[b] = Node(b)
    BY <1>1, <2>5 DEF KnowInv, ReaderKnows
  <2> QED
    BY <2>5, <2>6, <2>7
<1> QED
  BY <1>1, <1>3, <1>5, <1>6, <1>7 DEF SafeInv

\* Nobody is in a node for which every pointer was read.
LEMMA LookFreeUnused ==
  ASSUME SafeInv, NEW t \in Readers, Look(t), hazard[Asked(t)] # Sought(t), Asked(t) = LastThread,
         NEW r \in Readers, pc[r] \in HeldR
  PROVE  Node(r) # Sought(t)
<1> SUFFICES ASSUME Node(r) = Sought(t)
             PROVE  FALSE
  OBVIOUS
<1>1. hazard[r] = Node(r)
  BY DEF SafeInv, KnowInv, ReaderKnows
<1>2. r # LastThread /\ r \in 0 .. LastThread /\ LastThread \in Nat
  BY <1>1, ThreadIds
<1>3. pc[t] \in {"retire", "gc"}
  BY LookType DEF SafeInv
<1>4. Overlooked(t, r)
  BY <1>2, <1>3 DEF Overlooked, Sought, Asked
<1> QED
  BY <1>4 DEF SafeInv, ScanInv

\* A node that is deleted had been unlinked, and is linked no more.
LEMMA LookFreeSets ==
  ASSUME SafeInv, NEW t \in Readers, Look(t), hazard[Asked(t)] # Sought(t), Asked(t) = LastThread
  PROVE  /\ Sought(t) \in Retired /\ Sought(t) \in live /\ Sought(t) \notin Unlinked \cup Private
         /\ Retired' = Retired \ {Sought(t)} /\ Unlinked' = Unlinked /\ Private' = Private
         /\ Gone' = Gone \ {Sought(t)} /\ Linked' = Linked /\ live' = live \ {Sought(t)}
         /\ \A a \in Readers : \A j \in DOMAIN retired'[a] : \E k \in DOMAIN retired[a] :
              /\ retired'[a][j] = retired[a][k] /\ (a = t => k # at[t][1])
              /\ k = IF a = t /\ j >= at[t][1] THEN j + 1 ELSE j
<1>1. /\ t \in Threads /\ pc[t] \in {"retire", "gc"} /\ retired[t] \in Seq(Nodes)
      /\ at[t][1] \in 1 .. Len(retired[t]) /\ Sought(t) \in Nodes
  BY LookType DEF SafeInv
<1>2. /\ Alone(t) /\ Moved(t, LookEnd(t), At(Null)) /\ live' = live \ {Sought(t)}
      /\ retired'[t] = Without(retired[t], at[t][1])
  BY LookFreeEffect DEF SafeInv
<1> DEFINE x == Sought(t)
           i == at[t][1]
<1>3. x = retired[t][i] /\ i \in DOMAIN retired[t]
  BY <1>1 DEF Sought
<1>4. x \in Retired
  BY <1>1, <1>3 DEF Retired
<1>5. x \in live \ (Unlinked \cup Private)
  BY <1>3 DEF SafeInv, OwnInv
<1>6. \A a \in Readers : a # t => retired'[a] = retired[a] /\ retired[a] \in Seq(Nodes)
  BY <1>2, OthersOwn, ThreadIds DEF SafeInv, TypeInv
<1>7. /\ Without(retired[t], i) \in Seq(Nodes) /\ Len(Without(retired[t], i)) = Len(retired[t]) - 1
      /\ \A j \in 1 .. Len(retired[t]) - 1 :
           Without(retired[t], i)[j] = IF j < i THEN retired[t][j] ELSE retired[t][j + 1]
  BY <1>1, WithoutOne
<1>8. /\ DOMAIN retired'[t] = 1 .. Len(retired[t]) - 1 /\ Len(retired[t]) \in Nat /\ i \in Nat
      /\ DOMAIN retired[t] = 1 .. Len(retired[t])
  BY <1>1, <1>2, <1>7
<1>9. ASSUME NEW a \in Readers, NEW j \in DOMAIN retired'[a]
      PROVE  \E k \in DOMAIN retired[a] :
               /\ retired'[a][j] = retired[a][k] /\ (a = t => k # i)
               /\ k = IF a = t /\ j >= i THEN j + 1 ELSE j
  <2>1. CASE a # t
    BY <1>6, <1>9, <2>1
  <2>2. CASE a = t /\ j >= i
    <3>1. j + 1 \in DOMAIN retired[t] /\ retired'[t][j] = retired[t][j + 1] /\ j + 1 # i
      BY <1>2, <1>7, <1>8, <1>9, <2>2
    <3> QED
      BY <2>2, <3>1
  <2>3. CASE a = t /\ ~(j >= i)
    <3>1. j \in DOMAIN retired[t] /\ retired'[t][j] = retired[t][j] /\ j # i
      BY <1>2, <1>7, <1>8, <1>9, <2>3
    <3> QED
      BY <2>3, <3>1
  <2> QED
    BY <2>1, <2>2, <2>3
<1>10. ASSUME NEW a \in Readers, NEW k \in DOMAIN retired[a], a # t \/ k # i
       PROVE  \E j \in DOMAIN retired'[a] : retired'[a][j] = retired[a][k]
  <2>1. CASE a # t
    BY <1>6, <2>1
  <2>2. CASE a = t /\ k < i
    <3>1. k \in DOMAIN retired'[t] /\ retired'[t][k] = retired[t][k]
      BY <1>1, <1>2, <1>7, <1>8, <2>2
    <3> QED
      BY <2>2, <3>1
  <2>3. CASE a = t /\ k > i
    <3>a. k \in 1 .. Len(retired[t])
      BY <1>8, <1>10, <2>3
    <3>d. Len(retired[t]) \in Nat /\ i \in Nat /\ k > i /\ i >= 1
      BY <1>1, <1>8, <2>3
    <3>b. k - 1 \in 1 .. Len(retired[t]) - 1 /\ ~(k - 1 < i) /\ (k - 1) + 1 = k
      BY ONLY <3>a, <3>d
    <3>c. Without(retired[t], i)[k - 1] = retired[t][(k - 1) + 1]
      BY <1>7, <3>b
    <3>1. k - 1 \in DOMAIN retired'[t] /\ retired'[t][k - 1] = retired[t][k]
      BY <1>2, <1>8, <3>b, <3>c
    <3> QED
      BY <2>3, <3>1
  <2> QED
    BY <1>8, <1>10, <2>1, <2>2, <2>3
<1>11. Retired' = Retired \ {x}
  <2>1. ASSUME NEW n \in Retired'
        PROVE  n \in Retired \ {x}
    <3>1. PICK a \in Readers : \E j \in DOMAIN retired'[a] : retired'[a][j] = n
      BY <2>1 DEF Retired
    <3>2. PICK k \in DOMAIN retired[a] : n = retired[a][k] /\ (a = t => k # i)
      BY <1>9, <3>1
    <3>3. n # x
      BY <1>3, <3>2 DEF SafeInv, OwnInv
    <3> QED
      BY <2>1, <3>2, <3>3 DEF Retired
  <2>2. ASSUME NEW n \in Retired \ {x}
        PROVE  n \in Retired'
    <3>1. PICK a \in Readers : \E k \in DOMAIN retired[a] : retired[a][k] = n
      BY <2>2 DEF Retired
    <3>2. PICK k \in DOMAIN retired[a] : retired[a][k] = n
      BY <3>1
    <3>3. a # t \/ k # i
      BY <1>3, <2>2, <3>2
    <3> QED
      BY <1>10, <2>2, <3>2, <3>3 DEF Retired
  <2> QED
    BY <2>1, <2>2
<1>12. Unlinked' = Unlinked /\ Private' = Private
  <2>1. pc[t] # "release" /\ pc'[t] # "release"
    BY <1>1, <1>2 DEF Moved, LookEnd
  <2> QED
    BY <1>1, <1>2, <2>1, SameUnlinked, SamePrivate
<1>13. Gone' = Gone \ {x} /\ Linked' = Linked
  BY <1>2, <1>4, <1>5, <1>11, <1>12 DEF Gone, Linked
<1> QED
  BY <1>2, <1>4, <1>5, <1>9, <1>11, <1>12, <1>13

\* A node that nobody is in is deleted.
LEMMA LookFreeSafe ==
  ASSUME SafeInv, NEW t \in Readers, Look(t), hazard[Asked(t)] # Sought(t), Asked(t) = LastThread
  PROVE  SafeInv'
<1> DEFINE x == Sought(t)
           i == at[t][1]
<1>1. /\ t \in Threads /\ TypeInv /\ KnowInv /\ TypeInv' /\ KnowInv' /\ Alone(t)
      /\ Moved(t, LookEnd(t), At(Null)) /\ x \in Nodes /\ Changed(x, Blank) /\ at'[t][2] = 0
      /\ UNCHANGED <<read_pos, hazard, pushed, popped>> /\ pc[t] \in {"retire", "gc"}
  BY ThreadIds, LookFreeEffect, LookType DEF SafeInv, history
<1>2. /\ x \in Retired /\ x \in live /\ x \notin Unlinked \cup Private
      /\ Retired' = Retired \ {x} /\ Unlinked' = Unlinked /\ Private' = Private
      /\ Gone' = Gone \ {x} /\ Linked' = Linked /\ live' = live \ {x}
      /\ \A a \in Readers : \A j \in DOMAIN retired'[a] : \E k \in DOMAIN retired[a] :
           /\ retired'[a][j] = retired[a][k] /\ (a = t => k # i)
           /\ k = IF a = t /\ j >= i THEN j + 1 ELSE j
  BY LookFreeSets
<1>3. pc'[t] \in {"retire", "gc", "idle", "protect"}
  BY <1>1 DEF Moved, LookEnd
<1>4. /\ \A r \in Readers : pc'[r] = "release" => pc[r] = "release" /\ local'[r] = local[r]
      /\ \A w \in Writers : /\ pc'[w] = pc[w] /\ local'[w] = local[w] /\ Arg(w)' = Arg(w)
  BY <1>1, <1>3, ThreadIds, OthersOwn DEF Arg
<1>5. x # retired[t][i] => FALSE
  BY DEF Sought
<1>6. i \in DOMAIN retired[t]
  BY LookType DEF SafeInv
<1>7. OwnInv'
  <2>1. ASSUME NEW a \in Readers, NEW j \in DOMAIN retired'[a]
        PROVE  retired'[a][j] \in live' \ (Unlinked' \cup Private')
    <3>1. PICK k \in DOMAIN retired[a] : retired'[a][j] = retired[a][k] /\ (a = t => k # i)
      BY <1>2
    <3>2. retired[a][k] \in live \ (Unlinked \cup Private)
      BY DEF SafeInv, OwnInv
    <3>3. retired[a][k] # x
      BY <1>5, <1>6, <3>1 DEF SafeInv, OwnInv
    <3> QED
      BY <1>2, <3>1, <3>2, <3>3
  <2>2. ASSUME NEW a \in Readers, NEW b \in Readers, NEW j \in DOMAIN retired'[a],
               NEW k \in DOMAIN retired'[b], retired'[a][j] = retired'[b][k]
        PROVE  a = b /\ j = k
    <3>1. PICK j1 \in DOMAIN retired[a] : /\ retired'[a][j] = retired[a][j1]
                                          /\ j1 = IF a = t /\ j >= i THEN j + 1 ELSE j
      BY <1>2
    <3>2. PICK k1 \in DOMAIN retired[b] : /\ retired'[b][k] = retired[b][k1]
                                          /\ k1 = IF b = t /\ k >= i THEN k + 1 ELSE k
      BY <1>2
    <3>a. \A u, v \in Readers : \A l \in DOMAIN retired[u], m \in DOMAIN retired[v] :
            retired[u][l] = retired[v][m] => u = v /\ l = m
      BY DEF SafeInv, OwnInv
    <3>b. retired[a][j1] = retired[b][k1]
      BY <2>2, <3>1, <3>2
    <3>c. a \in Readers /\ b \in Readers /\ j1 \in DOMAIN retired[a] /\ k1 \in DOMAIN retired[b]
      OBVIOUS
    <3>3. a = b /\ j1 = k1
      BY ONLY <3>a, <3>b, <3>c
    <3>4. j \in Int /\ k \in Int /\ i \in Int
      <4>1. retired' \in [Threads -> Seq(Nodes)] /\ retired \in [Threads -> Seq(Nodes)]
        BY <1>1 DEF TypeInv
      <4> QED
        BY <4>1, <1>6, ThreadIds
    <3> QED
      BY <3>1, <3>2, <3>3, <3>4
  <2>3. \A r \in Readers : pc'[r] = "release" => Node(r)' \in live' \ Private'
    <3>1. ASSUME NEW r \in Readers, pc'[r] = "release"
          PROVE  Node(r)' \in live' \ Private'
      <4>1. Node(r)' = Node(r) /\ Node(r) \in Unlinked /\ Node(r) \in live \ Private
        BY <1>4, <3>1 DEF Unlinked, Node, SafeInv, OwnInv
      <4> QED
        BY <1>2, <4>1
    <3> QED
      BY <3>1
  <2>4. \A r, s \in Readers :
          pc'[r] = "release" /\ pc'[s] = "release" /\ Node(r)' = Node(s)' => r = s
    BY <1>4 DEF Node, SafeInv, OwnInv
  <2>5. \A w \in Writers : pc'[w] = "link" => local'[w].target \in live'
    <3>1. \A w \in Writers :
            pc[w] = "link" => local[w].target \in live /\ local[w].target \in Private
      BY DEF SafeInv, OwnInv, Private
    <3> QED
      BY <1>2, <1>4, <3>1
  <2>6. \A w, y \in Writers :
          pc'[w] = "link" /\ pc'[y] = "link" /\ local'[w].target = local'[y].target => w = y
    BY <1>4 DEF SafeInv, OwnInv
  <2> QED
    BY <2>1, <2>2, <2>3, <2>4, <2>5, <2>6 DEF OwnInv
<1>8. LinkInv'
  <2>1. /\ read_pos \in Linked /\ \A n \in Gone : mem[n].next # Null
        /\ \A n \in Nodes \ Gone : mem[n].next # Null => mem[n].next \in Linked \ {read_pos}
        /\ \A m, n \in Nodes \ Gone : mem[m].next # Null /\ mem[m].next = mem[n].next => m = n
    BY DEF SafeInv, LinkInv
  <2>2. mem'[x].next = Null /\ \A n \in Nodes \ {x} : mem'[n] = mem[n]
    BY <1>1, BlankNode DEF Changed
  <2>3. Gone \subseteq Nodes
    BY OwnedAlive DEF SafeInv
  <2>4. \A n \in Nodes \ Gone' : n = x \/ n \in Nodes \ Gone
    BY <1>2
  <2>5. \A n \in Gone' : mem'[n].next # Null
    BY <1>2, <2>1, <2>2, <2>3
  <2>6. \A n \in Nodes \ Gone' : mem'[n].next # Null => n \in Nodes \ Gone /\ mem'[n] = mem[n]
    BY <2>2, <2>4
  <2> QED
    BY <1>1, <1>2, <2>1, <2>5, <2>6 DEF LinkInv
<1>9. ReadInv'
  <2>1. ASSUME NEW r \in Readers, pc'[r] \in HeldR
        PROVE  Protected(r)'
    <3>1. r # t /\ pc'[r] = pc[r] /\ local'[r] = local[r]
      BY <1>1, <1>3, <2>1, OthersOwn DEF HeldR
    <3>2. Node(r) # x
      BY <2>1, <3>1, LookFreeUnused
    <3>3. Protected(r) /\ Node(r) \in Nodes
      BY <1>1, <2>1, <3>1 DEF SafeInv, ReadInv, KnowInv, ReaderKnows
    <3>4. mem'[Node(r)] = mem[Node(r)]
      BY <1>1, <3>2, <3>3 DEF Changed
    <3> QED
      BY <1>1, <1>2, <2>1, <3>1, <3>2, <3>3, <3>4 DEF Protected, Node
  <2> QED
    BY <2>1 DEF ReadInv, Protected
<1>10. ScanInv'
  <2> SUFFICES ASSUME NEW a \in Readers, NEW b \in Readers, Overlooked(a, b)'
               PROVE  FALSE
    BY DEF ScanInv
  <2>1. b # t /\ pc'[b] = pc[b] /\ local'[b] = local[b]
    BY <1>1, <1>3, OthersOwn DEF Overlooked, HeldR
  <2>2. a # t
    BY <1>1, ThreadIds DEF Overlooked
  <2>3. pc'[a] = pc[a] /\ at'[a] = at[a] /\ retired'[a] = retired[a]
    BY <1>1, <2>2, OthersOwn
  <2>4. Overlooked(a, b)
    BY <2>1, <2>3 DEF Overlooked, Node
  <2> QED
    BY <2>4 DEF SafeInv, ScanInv
<1>11. DataInv'
  <2>1. ASSUME NEW n \in Nodes, NEW j \in Slots, mem'[n].data[j] \in Values
        PROVE  n # x /\ mem'[n] = mem[n]
    BY <1>1, <2>1, BlankNode, Marks DEF Changed
  <2> QED
    BY <1>1, <1>4, <2>1 DEF SafeInv, DataInv
<1> QED
  BY <1>1, <1>7, <1>8, <1>9, <1>10, <1>11 DEF SafeInv

\* A writer makes a node: it is its own.
LEMMA MakesSafe ==
  ASSUME SafeInv, NEW w \in Writers, NEW n \in Nodes \ live, Makes(w, n)
  PROVE  /\ SafeInv' /\ Private' = Private \cup {n} /\ Gone' = Gone /\ Linked' = Linked
<1>1. /\ w \in Threads /\ TypeInv /\ KnowInv /\ TypeInv' /\ KnowInv' /\ Alone(w)
      /\ Moved(w, "link", [local[w] EXCEPT !.target = n])
      /\ local[w] \in LocalType /\ pc[w] = "next" /\ mem[n] \in NodeType /\ Arg(w) \in Values
      /\ Changed(n, [mem[n] EXCEPT !.wpos = 1, !.data[0] = Arg(w)])
      /\ live' = live \cup {n} /\ UNCHANGED <<read_pos, retired, pushed, popped, calls>>
  BY ThreadIds, MakesEffect DEF SafeInv, TypeInv, Makes, history
<1>2. local'[w].target = n /\ pc'[w] = "link" /\ Arg(w)' = Arg(w)
  BY <1>1 DEF Moved, LocalType, Arg
<1>3. \A x \in Writers \ {w} : pc'[x] = pc[x] /\ local'[x] = local[x] /\ Arg(x)' = Arg(x)
  BY <1>1, OthersOwn DEF Arg
<1>4. \A r \in Readers : pc'[r] = pc[r] /\ local'[r] = local[r] /\ Node(r)' = Node(r)
                         /\ at'[r] = at[r] /\ hazard'[r] = hazard[r]
  BY <1>1, OthersOwn, ThreadIds DEF Node
<1>5. Private' = Private \cup {n}
  <2>1. \A x \in Writers : pc'[x] = "link" <=> (x = w \/ pc[x] = "link")
    BY <1>2, <1>3
  <2>2. \A x \in Writers : pc[x] = "link" => x # w /\ local'[x] = local[x]
    BY <1>1, <1>3
  <2> QED
    BY <1>2, <2>1, <2>2 DEF Private
<1>6. Retired' = Retired /\ Unlinked' = Unlinked /\ Gone' = Gone
  BY <1>1, <1>4 DEF Retired, Unlinked, Gone
<1>7. Gone \subseteq live /\ Private \subseteq live /\ live \subseteq Nodes /\ n \notin live
  BY OwnedAlive DEF SafeInv
<1>8. Linked' = Linked
  BY <1>1, <1>5, <1>6, <1>7 DEF Linked
<1>9. /\ \A m \in Nodes : mem'[m].next = mem[m].next
      /\ \A m \in Nodes : \A j \in Slots : m # n \/ j # 0 => mem'[m].data[j] = mem[m].data[j]
      /\ mem'[n].data[0] = Arg(w)
  <2>1. Made(n, Arg(w))
    BY <1>1, MadeChanged
  <2> QED
    BY ONLY <2>1 DEF Made
<1>10. OwnInv'
  <2>1. /\ \A t \in Readers : \A i \in DOMAIN retired[t] :
             retired[t][i] \in live \ (Unlinked \cup Private)
        /\ \A t, u \in Readers : \A i \in DOMAIN retired[t], j \in DOMAIN retired[u] :
             retired[t][i] = retired[u][j] => t = u /\ i = j
        /\ \A r \in Readers : pc[r] = "release" => Node(r) \in live \ Private
        /\ \A r, s \in Readers :
             pc[r] = "release" /\ pc[s] = "release" /\ Node(r) = Node(s) => r = s
        /\ \A x \in Writers : pc[x] = "link" => local[x].target \in live
        /\ \A x, y \in Writers :
             pc[x] = "link" /\ pc[y] = "link" /\ local[x].target = local[y].target => x = y
    BY DEF SafeInv, OwnInv
  <2>2. \A x \in Writers : pc'[x] = "link" => local'[x].target \in live'
    BY <1>1, <1>2, <1>3, <2>1
  <2>3. \A x, y \in Writers :
          pc'[x] = "link" /\ pc'[y] = "link" /\ local'[x].target = local'[y].target => x = y
    BY <1>2, <1>3, <1>7, <2>1
  <2>4. \A t \in Readers : \A i \in DOMAIN retired'[t] :
          retired'[t][i] \in live' \ (Unlinked' \cup Private')
    BY ONLY <1>1, <1>5, <1>6, <1>7, <2>1
  <2>5. \A r \in Readers : pc'[r] = "release" => Node(r)' \in live' \ Private'
    BY ONLY <1>1, <1>4, <1>5, <1>7, <2>1
  <2>6. \A r, s \in Readers :
          pc'[r] = "release" /\ pc'[s] = "release" /\ Node(r)' = Node(s)' => r = s
    BY ONLY <1>4, <2>1
  <2>7. \A t, u \in Readers : \A i \in DOMAIN retired'[t], j \in DOMAIN retired'[u] :
          retired'[t][i] = retired'[u][j] => t = u /\ i = j
    BY ONLY <1>1, <2>1
  <2> QED
    BY <2>2, <2>3, <2>4, <2>5, <2>6, <2>7 DEF OwnInv
<1>11. LinkInv'
  <2>1. LinkInv
    BY DEF SafeInv
  <2> QED
    BY ONLY <1>1, <1>6, <1>7, <1>8, <1>9, <2>1 DEF LinkInv
<1>12. ReadInv'
  <2>1. ASSUME NEW r \in Readers, pc'[r] \in HeldR
        PROVE  Protected(r)'
    <3>1. Protected(r) /\ Node(r) \in Nodes /\ pc[r] \in HeldR
      BY <1>4, <2>1 DEF SafeInv, ReadInv, KnowInv, ReaderKnows
    <3>2. Node(r)' \in live' \ Private'
      BY <1>1, <1>4, <1>5, <1>7, <3>1 DEF Protected
    <3> QED
      BY <1>1, <1>4, <1>8, <1>9, <3>1, <3>2 DEF Protected
  <2> QED
    BY <2>1 DEF ReadInv, Protected
<1>13. ScanInv'
  BY <1>1, <1>4 DEF SafeInv, ScanInv, Overlooked
<1>14. DataInv'
  <2>1. ASSUME NEW m \in Nodes, NEW i \in Slots, mem'[m].data[i] \in Values,
               mem'[m].data[i] \notin pushed'
        PROVE  \E x \in Writers :
                 pc'[x] = "link" /\ local'[x].target = m /\ mem'[m].data[i] = Arg(x)'
    <3>1. CASE m = n /\ i = 0
      <4>1. mem'[n].data[0] = Arg(w)
        BY <1>9
      <4> QED
        BY <1>2, <3>1, <4>1
    <3>2. CASE ~(m = n /\ i = 0)
      <4>1. mem'[m].data[i] = mem[m].data[i]
        BY ONLY <1>9, <3>2, m \in Nodes, i \in Slots
      <4>2. PICK x \in Writers : pc[x] = "link" /\ local[x].target = m /\ mem[m].data[i] = Arg(x)
        BY <1>1, <2>1, <4>1 DEF SafeInv, DataInv
      <4>3. x # w
        BY <1>1, <4>2
      <4> QED
        BY <1>3, <4>1, <4>2, <4>3
    <3> QED
      BY <3>1, <3>2
  <2> QED
    BY <1>1, <2>1 DEF SafeInv, DataInv
<1> QED
  BY <1>1, <1>5, <1>6, <1>8, <1>10, <1>11, <1>12, <1>13, <1>14 DEF SafeInv

\* A writer's node becomes linked, or is deleted.  In both cases it is no more its own.
LEMMA NoLongerPrivate ==
  ASSUME OwnInv, NEW w \in Writers, Alone(w), Link(w), pc'[w] # "link"
  PROVE  /\ Private' = Private \ {local[w].target} /\ local[w].target \in Private
         /\ local[w].target \in live \ Gone
<1>1. \A x \in Writers \ {w} : pc'[x] = pc[x] /\ local'[x] = local[x]
  BY OthersOwn, ThreadIds
<1>2. pc[w] = "link"
  BY DEF Link
<1>3. local[w].target \in Private /\ local[w].target \in live
  BY <1>2 DEF Private, OwnInv
<1>4. local[w].target \notin Retired /\ local[w].target \notin Unlinked
  BY <1>3 DEF Retired, Unlinked, OwnInv
<1>5. ASSUME NEW p \in Private' PROVE p \in Private \ {local[w].target}
  <2>1. PICK x \in Writers : pc'[x] = "link" /\ local'[x].target = p
    BY <1>5 DEF Private
  <2>2. x # w
    BY <2>1
  <2>3. pc[x] = "link" /\ local[x].target = p
    BY <1>1, <2>1, <2>2
  <2> QED
    BY <1>2, <2>2, <2>3 DEF Private, OwnInv
<1>6. ASSUME NEW p \in Private \ {local[w].target} PROVE p \in Private'
  <2>1. PICK x \in Writers : pc[x] = "link" /\ local[x].target = p
    BY <1>6 DEF Private
  <2>2. pc'[x] = "link" /\ local'[x].target = p
    BY <1>1, <1>6, <2>1
  <2> QED
    BY <2>2 DEF Private
<1> QED
  BY <1>3, <1>4, <1>5, <1>6 DEF Gone

\* Link of a last node keeps the readers safe.
LEMMA LinkDoneSafe ==
  ASSUME SafeInv, NEW w \in Writers, Link(w), Here(w).next = Null
  PROVE  /\ SafeInv' /\ Private' = Private \ {local[w].target} /\ Gone' = Gone
         /\ Linked' = Linked \cup {local[w].target} /\ local[w].target \in Private
<1> DEFINE p == local[w].target
<1>1. /\ w \in Threads /\ TypeInv /\ KnowInv /\ TypeInv' /\ KnowInv' /\ Alone(w)
      /\ Moved(w, "finish", local[w])
      /\ Node(w) \in Nodes /\ p \in Nodes /\ Arg(w) \in Values
      /\ Changed(Node(w), [Here(w) EXCEPT !.next = p])
      /\ live' = live /\ pushed' = pushed \cup {Arg(w)}
      /\ UNCHANGED <<read_pos, retired, popped, calls>>
  BY ThreadIds, LinkDoneEffect DEF SafeInv, Link
<1>2. pc'[w] = "finish" /\ pc[w] = "link"
  BY <1>1 DEF Moved, Link
<1>3. \A x \in Writers \ {w} : pc'[x] = pc[x] /\ local'[x] = local[x] /\ Arg(x)' = Arg(x)
  BY <1>1, OthersOwn DEF Arg
<1>4. \A r \in Readers : pc'[r] = pc[r] /\ local'[r] = local[r] /\ Node(r)' = Node(r)
                         /\ at'[r] = at[r] /\ hazard'[r] = hazard[r]
  BY <1>1, OthersOwn, ThreadIds DEF Node
<1>5. Private' = Private \ {p} /\ p \in Private /\ p \in live \ Gone
  BY <1>1, <1>2, NoLongerPrivate DEF SafeInv
<1>6. Retired' = Retired /\ Unlinked' = Unlinked /\ Gone' = Gone
  BY <1>1, <1>4 DEF Retired, Unlinked, Gone
<1>7. Gone \subseteq live /\ Private \subseteq live /\ live \subseteq Nodes
  BY OwnedAlive DEF SafeInv
<1>8. Linked' = Linked \cup {p} /\ p \notin Linked
  BY <1>1, <1>5, <1>6, <1>7 DEF Linked
<1>9. /\ mem'[Node(w)].next = p /\ \A m \in Nodes \ {Node(w)} : mem'[m].next = mem[m].next
      /\ \A m \in Nodes : mem'[m].data = mem[m].data
  BY <1>1, NextChanged DEF NextSet, Here
<1>10. OwnInv'
  <2>1. /\ \A t \in Readers : \A i \in DOMAIN retired[t] :
             retired[t][i] \in live \ (Unlinked \cup Private)
        /\ \A t, u \in Readers : \A i \in DOMAIN retired[t], j \in DOMAIN retired[u] :
             retired[t][i] = retired[u][j] => t = u /\ i = j
        /\ \A r \in Readers : pc[r] = "release" => Node(r) \in live \ Private
        /\ \A r, s \in Readers :
             pc[r] = "release" /\ pc[s] = "release" /\ Node(r) = Node(s) => r = s
        /\ \A x \in Writers : pc[x] = "link" => local[x].target \in live
        /\ \A x, y \in Writers :
             pc[x] = "link" /\ pc[y] = "link" /\ local[x].target = local[y].target => x = y
    BY DEF SafeInv, OwnInv
  <2>2. /\ \A x \in Writers : pc'[x] = "link" => local'[x].target \in live'
        /\ \A x, y \in Writers :
             pc'[x] = "link" /\ pc'[y] = "link" /\ local'[x].target = local'[y].target => x = y
    BY ONLY <1>1, <1>2, <1>3, <2>1
  <2>4. \A t \in Readers : \A i \in DOMAIN retired'[t] :
          retired'[t][i] \in live' \ (Unlinked' \cup Private')
    BY ONLY <1>1, <1>5, <1>6, <2>1
  <2>5. \A r \in Readers : pc'[r] = "release" => Node(r)' \in live' \ Private'
    BY ONLY <1>1, <1>4, <1>5, <2>1
  <2>6. \A r, s \in Readers :
          pc'[r] = "release" /\ pc'[s] = "release" /\ Node(r)' = Node(s)' => r = s
    BY ONLY <1>4, <2>1
  <2>7. \A t, u \in Readers : \A i \in DOMAIN retired'[t], j \in DOMAIN retired'[u] :
          retired'[t][i] = retired'[u][j] => t = u /\ i = j
    BY ONLY <1>1, <2>1
  <2> QED
    BY <2>2, <2>4, <2>5, <2>6, <2>7 DEF OwnInv
<1>11. LinkInv'
  <2>1. /\ read_pos \in Linked /\ \A n \in Gone : mem[n].next # Null
        /\ \A n \in Nodes \ Gone : mem[n].next # Null => mem[n].next \in Linked \ {read_pos}
        /\ \A m, n \in Nodes \ Gone : mem[m].next # Null /\ mem[m].next = mem[n].next => m = n
    BY DEF SafeInv, LinkInv
  <2>2. Null \notin Nodes
    BY MpmcQueueAssumption
  <2>3. p # read_pos
    BY <1>8, <2>1
  <2>4. \A n \in Nodes \ Gone : mem'[n].next # Null => mem'[n].next \in Linked' \ {read_pos'}
    BY ONLY <1>1, <1>8, <1>9, <2>1, <2>3
  <2>5. \A m \in Nodes \ Gone : mem[m].next # p
    BY <1>8, <2>1, <2>2, <1>1
  <2>6. \A m, n \in Nodes \ Gone : mem'[m].next # Null /\ mem'[m].next = mem'[n].next => m = n
    BY ONLY <1>9, <2>1, <2>5
  <2>7. \A n \in Gone : mem'[n].next # Null
    BY ONLY <1>1, <1>7, <1>9, <2>1, <2>2
  <2> QED
    BY <1>1, <1>6, <1>8, <2>1, <2>4, <2>6, <2>7 DEF LinkInv
<1>12. ReadInv'
  <2>1. ASSUME NEW r \in Readers, pc'[r] \in HeldR
        PROVE  Protected(r)'
    <3>1. Protected(r) /\ Node(r) \in Nodes /\ pc[r] \in HeldR
      BY <1>4, <2>1 DEF SafeInv, ReadInv, KnowInv, ReaderKnows
    <3>2. Node(r)' \in live' \ Private' /\ Node(r) # p
      BY <1>1, <1>4, <1>5, <1>7, <3>1 DEF Protected
    <3>3. pc[r] = "advance" => Node(r) # Node(w)
      BY <3>1 DEF Protected, Here
    <3> QED
      BY <1>1, <1>4, <1>8, <1>9, <3>1, <3>2, <3>3 DEF Protected
  <2> QED
    BY <2>1 DEF ReadInv, Protected
<1>13. ScanInv'
  BY <1>1, <1>4 DEF SafeInv, ScanInv, Overlooked
<1>14. DataInv'
  <2>1. ASSUME NEW m \in Nodes, NEW i \in Slots, mem'[m].data[i] \in Values,
               mem'[m].data[i] \notin pushed'
        PROVE  \E x \in Writers :
                 pc'[x] = "link" /\ local'[x].target = m /\ mem'[m].data[i] = Arg(x)'
    <3>1. mem'[m].data[i] = mem[m].data[i]
      BY <1>9
    <3>2. PICK x \in Writers : pc[x] = "link" /\ local[x].target = m /\ mem[m].data[i] = Arg(x)
      BY <1>1, <2>1, <3>1 DEF SafeInv, DataInv
    <3>3. x # w
      BY <1>1, <2>1, <3>1, <3>2
    <3> QED
      BY <1>3, <3>1, <3>2, <3>3
  <2> QED
    BY <1>1, <2>1 DEF SafeInv, DataInv
<1> QED
  BY <1>1, <1>5, <1>6, <1>8, <1>10, <1>11, <1>12, <1>13, <1>14 DEF SafeInv

\* Link where another writer was first keeps the readers safe.
LEMMA LinkLostSafe ==
  ASSUME SafeInv, NEW w \in Writers, Link(w), Here(w).next # Null
  PROVE  /\ SafeInv' /\ Private' = Private \ {local[w].target} /\ Gone' = Gone
         /\ Linked' = Linked /\ local[w].target \in Private
<1> DEFINE p == local[w].target
<1>1. /\ w \in Threads /\ TypeInv /\ KnowInv /\ TypeInv' /\ KnowInv' /\ Alone(w)
      /\ Moved(w, "protect", At(Null)) /\ p \in Nodes /\ Changed(p, Blank)
      /\ live' = live \ {p} /\ UNCHANGED <<read_pos, retired, pushed, popped, calls>>
  BY ThreadIds, LinkLostEffect DEF SafeInv, Link
<1>2. pc'[w] = "protect" /\ pc[w] = "link"
  BY <1>1 DEF Moved, Link
<1>3. \A x \in Writers \ {w} : pc'[x] = pc[x] /\ local'[x] = local[x] /\ Arg(x)' = Arg(x)
  BY <1>1, OthersOwn DEF Arg
<1>4. \A r \in Readers : pc'[r] = pc[r] /\ local'[r] = local[r] /\ Node(r)' = Node(r)
                         /\ at'[r] = at[r] /\ hazard'[r] = hazard[r]
  BY <1>1, OthersOwn, ThreadIds DEF Node
<1>5. Private' = Private \ {p} /\ p \in Private /\ p \in live \ Gone
  BY <1>1, <1>2, NoLongerPrivate DEF SafeInv
<1>6. Retired' = Retired /\ Unlinked' = Unlinked /\ Gone' = Gone
  BY <1>1, <1>4 DEF Retired, Unlinked, Gone
<1>7. Gone \subseteq live /\ Private \subseteq live /\ live \subseteq Nodes
  BY OwnedAlive DEF SafeInv
<1>8. Linked' = Linked /\ p \notin Linked
  BY <1>1, <1>5, <1>6, <1>7 DEF Linked
<1>9. /\ mem'[p].next = Null /\ \A m \in Nodes \ {p} : mem'[m] = mem[m]
      /\ \A i \in Slots : mem'[p].data[i] \notin Values
  BY <1>1, BlankNode, Marks DEF Changed
<1>10. OwnInv'
  <2>1. /\ \A t \in Readers : \A i \in DOMAIN retired[t] :
             retired[t][i] \in live \ (Unlinked \cup Private)
        /\ \A t, u \in Readers : \A i \in DOMAIN retired[t], j \in DOMAIN retired[u] :
             retired[t][i] = retired[u][j] => t = u /\ i = j
        /\ \A r \in Readers : pc[r] = "release" => Node(r) \in live \ Private
        /\ \A r, s \in Readers :
             pc[r] = "release" /\ pc[s] = "release" /\ Node(r) = Node(s) => r = s
        /\ \A x \in Writers : pc[x] = "link" => local[x].target \in live
        /\ \A x, y \in Writers :
             pc[x] = "link" /\ pc[y] = "link" /\ local[x].target = local[y].target => x = y
    BY DEF SafeInv, OwnInv
  <2>2. /\ \A x \in Writers : pc'[x] = "link" => local'[x].target \in live'
        /\ \A x, y \in Writers :
             pc'[x] = "link" /\ pc'[y] = "link" /\ local'[x].target = local'[y].target => x = y
    BY ONLY <1>1, <1>2, <1>3, <2>1
  <2>4. \A t \in Readers : \A i \in DOMAIN retired'[t] :
          retired'[t][i] \in live' \ (Unlinked' \cup Private')
    BY ONLY <1>1, <1>5, <1>6, <2>1
  <2>5. \A r \in Readers : pc'[r] = "release" => Node(r)' \in live' \ Private'
    BY ONLY <1>1, <1>4, <1>5, <2>1
  <2>6. \A r, s \in Readers :
          pc'[r] = "release" /\ pc'[s] = "release" /\ Node(r)' = Node(s)' => r = s
    BY ONLY <1>4, <2>1
  <2>7. \A t, u \in Readers : \A i \in DOMAIN retired'[t], j \in DOMAIN retired'[u] :
          retired'[t][i] = retired'[u][j] => t = u /\ i = j
    BY ONLY <1>1, <2>1
  <2> QED
    BY <2>2, <2>4, <2>5, <2>6, <2>7 DEF OwnInv
<1>11. LinkInv'
  <2>1. /\ read_pos \in Linked /\ \A n \in Gone : mem[n].next # Null
        /\ \A n \in Nodes \ Gone : mem[n].next # Null => mem[n].next \in Linked \ {read_pos}
        /\ \A m, n \in Nodes \ Gone : mem[m].next # Null /\ mem[m].next = mem[n].next => m = n
    BY DEF SafeInv, LinkInv
  <2>2. \A n \in Gone : mem'[n].next # Null
    BY ONLY <1>5, <1>7, <1>9, <2>1
  <2>3. \A n \in Nodes : mem'[n].next # Null => mem'[n] = mem[n]
    BY ONLY <1>9
  <2> QED
    BY <1>1, <1>6, <1>8, <2>1, <2>2, <2>3 DEF LinkInv
<1>12. ReadInv'
  <2>1. ASSUME NEW r \in Readers, pc'[r] \in HeldR
        PROVE  Protected(r)'
    <3>1. Protected(r) /\ Node(r) \in Nodes /\ pc[r] \in HeldR
      BY <1>4, <2>1 DEF SafeInv, ReadInv, KnowInv, ReaderKnows
    <3>2. Node(r)' \in live' \ Private' /\ Node(r) # p
      BY <1>1, <1>4, <1>5, <1>7, <3>1 DEF Protected
    <3> QED
      BY <1>1, <1>4, <1>8, <1>9, <3>1, <3>2 DEF Protected
  <2> QED
    BY <2>1 DEF ReadInv, Protected
<1>13. ScanInv'
  BY <1>1, <1>4 DEF SafeInv, ScanInv, Overlooked
<1>14. DataInv'
  <2>1. ASSUME NEW m \in Nodes, NEW i \in Slots, mem'[m].data[i] \in Values,
               mem'[m].data[i] \notin pushed'
        PROVE  \E x \in Writers :
                 pc'[x] = "link" /\ local'[x].target = m /\ mem'[m].data[i] = Arg(x)'
    <3>1. m # p /\ mem'[m] = mem[m]
      BY <1>9, <2>1
    <3>2. PICK x \in Writers : pc[x] = "link" /\ local[x].target = m /\ mem[m].data[i] = Arg(x)
      BY <1>1, <2>1, <3>1 DEF SafeInv, DataInv
    <3>3. x # w
      BY <3>1, <3>2
    <3> QED
      BY <1>3, <3>1, <3>2, <3>3
  <2> QED
    BY <1>1, <2>1 DEF SafeInv, DataInv
<1> QED
  BY <1>1, <1>5, <1>6, <1>8, <1>10, <1>11, <1>12, <1>13, <1>14 DEF SafeInv

\* A reader moves read_pos_ on: the node that it was at is the reader's to retire.
LEMMA AdvanceDoneSafe ==
  ASSUME SafeInv, NEW r \in Readers, Advance(r), read_pos = Node(r)
  PROVE  /\ SafeInv' /\ Gone' = Gone \cup {read_pos} /\ Private' = Private
         /\ Linked' = Linked \ {read_pos} /\ read_pos' = mem[read_pos].next
         /\ read_pos' \in Linked \ {read_pos}
<1> DEFINE n == read_pos
           k == mem[read_pos].next
<1>1. pc[r] = "advance"
  BY DEF Advance
<1>2. /\ n \in live \ Private /\ local[r].target # Null /\ local[r].target = k
  BY <1>1 DEF SafeInv, ReadInv, Protected, HeldR
<1>3. /\ r \in Threads /\ TypeInv /\ KnowInv /\ TypeInv' /\ KnowInv' /\ Alone(r)
      /\ Moved(r, "release", At(n)) /\ n \in Nodes /\ k \in Nodes /\ read_pos' = k
      /\ UNCHANGED <<mem, live, retired, pushed, popped, calls>>
  BY <1>2, ThreadIds, AdvanceDoneEffect DEF SafeInv, Advance, history
<1>4. pc'[r] = "release" /\ Node(r)' = n
  BY <1>3, AtNode DEF Moved, Node
<1>5. \A s \in Readers \ {r} : /\ pc'[s] = pc[s] /\ local'[s] = local[s] /\ Node(s)' = Node(s)
                               /\ at'[s] = at[s] /\ hazard'[s] = hazard[s]
  BY <1>3, OthersOwn DEF Node
<1>6. \A x \in Writers : pc'[x] = pc[x] /\ local'[x] = local[x] /\ Arg(x)' = Arg(x)
  BY <1>3, OthersOwn, ThreadIds DEF Arg
<1>7. Gone \subseteq live /\ Private \subseteq live /\ live \subseteq Nodes
  BY OwnedAlive DEF SafeInv
<1>8. /\ read_pos \in Linked /\ \A m \in Gone : mem[m].next # Null
      /\ \A m \in Nodes \ Gone : mem[m].next # Null => mem[m].next \in Linked \ {read_pos}
      /\ \A l, m \in Nodes \ Gone : mem[l].next # Null /\ mem[l].next = mem[m].next => l = m
  BY DEF SafeInv, LinkInv
<1>9. n \notin Gone /\ n \in Linked
  BY <1>8 DEF Linked
<1>10. Private' = Private /\ Retired' = Retired
  BY <1>3, <1>6 DEF Private, Retired
<1>11. Unlinked' = Unlinked \cup {n}
  <2>1. ASSUME NEW m \in Unlinked' PROVE m \in Unlinked \cup {n}
    BY <1>4, <1>5, <2>1 DEF Unlinked
  <2>2. ASSUME NEW m \in Unlinked PROVE m \in Unlinked'
    <3>1. PICK s \in Readers : pc[s] = "release" /\ Node(s) = m
      BY <2>2 DEF Unlinked
    <3>2. s # r
      BY <1>1, <3>1
    <3> QED
      BY <1>5, <3>1, <3>2 DEF Unlinked
  <2>3. n \in Unlinked'
    BY <1>4 DEF Unlinked
  <2> QED
    BY <2>1, <2>2, <2>3
<1>12. Gone' = Gone \cup {n} /\ Linked' = Linked \ {n}
  BY <1>3, <1>10, <1>11 DEF Gone, Linked
<1>13. k \in Linked \ {n}
  BY <1>2, <1>3, <1>8, <1>9
<1>14. OwnInv'
  <2>1. /\ \A t \in Readers : \A i \in DOMAIN retired[t] :
             retired[t][i] \in live \ (Unlinked \cup Private)
        /\ \A t, u \in Readers : \A i \in DOMAIN retired[t], j \in DOMAIN retired[u] :
             retired[t][i] = retired[u][j] => t = u /\ i = j
        /\ \A q \in Readers : pc[q] = "release" => Node(q) \in live \ Private
        /\ \A q, s \in Readers :
             pc[q] = "release" /\ pc[s] = "release" /\ Node(q) = Node(s) => q = s
        /\ \A x \in Writers : pc[x] = "link" => local[x].target \in live
        /\ \A x, y \in Writers :
             pc[x] = "link" /\ pc[y] = "link" /\ local[x].target = local[y].target => x = y
    BY DEF SafeInv, OwnInv
  <2>2. \A q \in Readers : pc[q] = "release" => Node(q) \in Unlinked
    BY DEF Unlinked
  <2>3. n \notin Unlinked /\ n \notin Retired
    BY <1>9 DEF Gone
  <2>4. \A t \in Readers : \A i \in DOMAIN retired[t] : retired[t][i] # n
    BY <1>3, <2>3 DEF Retired
  <2>5. \A t \in Readers : \A i \in DOMAIN retired'[t] :
          retired'[t][i] \in live' \ (Unlinked' \cup Private')
    BY ONLY <1>3, <1>10, <1>11, <2>1, <2>4
  <2>6. \A q \in Readers : pc'[q] = "release" => Node(q)' \in live' \ Private'
    BY ONLY <1>2, <1>3, <1>4, <1>5, <1>10, <2>1
  <2>7. \A q, s \in Readers :
          pc'[q] = "release" /\ pc'[s] = "release" /\ Node(q)' = Node(s)' => q = s
    BY ONLY <1>4, <1>5, <2>1, <2>2, <2>3
  <2>8. /\ \A x \in Writers : pc'[x] = "link" => local'[x].target \in live'
        /\ \A x, y \in Writers :
             pc'[x] = "link" /\ pc'[y] = "link" /\ local'[x].target = local'[y].target => x = y
    BY ONLY <1>3, <1>6, <2>1
  <2>9. \A t, u \in Readers : \A i \in DOMAIN retired'[t], j \in DOMAIN retired'[u] :
          retired'[t][i] = retired'[u][j] => t = u /\ i = j
    BY ONLY <1>3, <2>1
  <2> QED
    BY <2>5, <2>6, <2>7, <2>8, <2>9 DEF OwnInv
<1>15. LinkInv'
  <2>1. \A m \in Nodes \ Gone' : mem[m].next # Null => mem[m].next \in Linked' \ {k}
    BY ONLY <1>2, <1>8, <1>9, <1>12, <1>3
  <2>2. \A m \in Gone' : mem[m].next # Null
    BY ONLY <1>2, <1>8, <1>12
  <2> QED
    BY <1>3, <1>8, <1>12, <1>13, <2>1, <2>2 DEF LinkInv
<1>16. ReadInv'
  <2>1. ASSUME NEW s \in Readers, pc'[s] \in HeldR
        PROVE  Protected(s)'
    <3>1. s # r
      BY <1>4, <2>1 DEF HeldR
    <3>2. Protected(s) /\ pc[s] \in HeldR
      BY <1>5, <2>1, <3>1 DEF SafeInv, ReadInv
    <3> QED
      BY <1>3, <1>5, <1>10, <1>12, <3>1, <3>2 DEF Protected
  <2> QED
    BY <2>1 DEF ReadInv, Protected
<1>17. ScanInv'
  <2> SUFFICES ASSUME NEW a \in Readers, NEW b \in Readers, Overlooked(a, b)'
               PROVE  FALSE
    BY DEF ScanInv
  <2>1. a # r /\ b # r
    BY <1>4 DEF Overlooked, HeldR
  <2>2. Overlooked(a, b)
    BY <1>3, <1>5, <2>1 DEF Overlooked
  <2> QED
    BY <2>2 DEF SafeInv, ScanInv
<1>18. DataInv'
  BY <1>3, <1>6 DEF SafeInv, DataInv
<1> QED
  BY <1>3, <1>10, <1>12, <1>13, <1>14, <1>15, <1>16, <1>17, <1>18 DEF SafeInv

\* The node goes to the end of the reader's list.
LEMMA ReleaseSafe ==
  ASSUME SafeInv, NEW r \in Readers, Release(r)
  PROVE  SafeInv' /\ Gone' = Gone /\ Private' = Private /\ Linked' = Linked
<1> DEFINE n == Node(r)
           L == Len(retired[r])
<1>1. pc[r] = "release"
  BY DEF Release, Go
<1>2. /\ r \in Threads /\ TypeInv /\ KnowInv /\ TypeInv' /\ KnowInv' /\ Alone(r)
      /\ Moved(r, "retire", At(Null))
      /\ UNCHANGED <<mem, live, read_pos, pushed, popped, calls, at>>
  BY ThreadIds, ReleaseEffect DEF SafeInv, Release, queue, history
<1>3. n \in Nodes /\ at[r] = <<1, 0>> /\ n \in live \ Private
  BY <1>1, <1>2 DEF KnowInv, ReaderKnows, SafeInv, OwnInv
<1>4. retired[r] \in Seq(Nodes) /\ retired'[r] = Append(retired[r], n)
  BY <1>2 DEF TypeInv, Release
<1>5. /\ L \in Nat /\ DOMAIN retired[r] = 1 .. L /\ DOMAIN retired'[r] = 1 .. L + 1
      /\ retired'[r][L + 1] = n /\ \A i \in 1 .. L : retired'[r][i] = retired[r][i]
  BY <1>3, <1>4
<1>6. pc'[r] = "retire"
  BY <1>2 DEF Moved
<1>7. \A s \in Readers \ {r} : /\ pc'[s] = pc[s] /\ local'[s] = local[s] /\ Node(s)' = Node(s)
                               /\ retired'[s] = retired[s]
  BY <1>2, OthersOwn DEF Node
<1>8. \A x \in Writers : pc'[x] = pc[x] /\ local'[x] = local[x] /\ Arg(x)' = Arg(x)
  BY <1>2, OthersOwn, ThreadIds DEF Arg
<1>9. Private' = Private
  BY <1>8 DEF Private
<1>10. n \in Unlinked /\ n \notin Retired
  <2>1. n \in Unlinked
    BY <1>1 DEF Unlinked
  <2> QED
    BY <2>1 DEF Retired, SafeInv, OwnInv
<1>11. Unlinked' = Unlinked \ {n}
  <2>1. ASSUME NEW m \in Unlinked' PROVE m \in Unlinked \ {n}
    <3>1. PICK s \in Readers : pc'[s] = "release" /\ Node(s)' = m
      BY <2>1 DEF Unlinked
    <3>2. s # r /\ pc[s] = "release" /\ Node(s) = m
      BY <1>6, <1>7, <3>1
    <3>3. m # n
      BY <1>1, <3>2 DEF SafeInv, OwnInv
    <3> QED
      BY <3>2, <3>3 DEF Unlinked
  <2>2. ASSUME NEW m \in Unlinked \ {n} PROVE m \in Unlinked'
    <3>1. PICK s \in Readers : pc[s] = "release" /\ Node(s) = m
      BY <2>2 DEF Unlinked
    <3>2. s # r
      BY <2>2, <3>1
    <3> QED
      BY <1>7, <3>1, <3>2 DEF Unlinked
  <2> QED
    BY <2>1, <2>2
<1>12. Retired' = Retired \cup {n}
  <2>1. ASSUME NEW m \in Retired' PROVE m \in Retired \cup {n}
    <3>1. PICK s \in Readers : \E i \in DOMAIN retired'[s] : retired'[s][i] = m
      BY <2>1 DEF Retired
    <3>2. PICK i \in DOMAIN retired'[s] : retired'[s][i] = m
      BY <3>1
    <3>3. CASE s = r /\ i = L + 1
      BY <1>5, <3>2, <3>3
    <3>4. CASE s = r /\ i # L + 1
      <4>1. i \in 1 .. L
        BY <1>5, <3>2, <3>4
      <4> QED
        BY <1>2, <1>5, <2>1, <3>2, <3>4, <4>1 DEF Retired
    <3>5. CASE s # r
      BY <1>7, <2>1, <3>2, <3>5 DEF Retired
    <3> QED
      BY <3>3, <3>4, <3>5
  <2>2. ASSUME NEW m \in Retired PROVE m \in Retired'
    <3>1. PICK s \in Readers : \E i \in DOMAIN retired[s] : retired[s][i] = m
      BY <2>2 DEF Retired
    <3>2. PICK i \in DOMAIN retired[s] : retired[s][i] = m
      BY <3>1
    <3>3. i \in DOMAIN retired'[s] /\ retired'[s][i] = m
      BY <1>5, <1>7, <3>2
    <3> QED
      BY <2>2, <3>3 DEF Retired
  <2>3. n \in Retired'
    <3>1. L + 1 \in DOMAIN retired'[r]
      BY <1>5
    <3> QED
      BY <1>3, <1>5, <3>1 DEF Retired
  <2> QED
    BY <2>1, <2>2, <2>3
<1>13. Gone' = Gone
  BY <1>10, <1>11, <1>12 DEF Gone
<1>14. Linked' = Linked
  BY <1>2, <1>9, <1>13 DEF Linked
<1>15. OwnInv'
  <2>1. /\ \A t \in Readers : \A i \in DOMAIN retired[t] :
             retired[t][i] \in live \ (Unlinked \cup Private)
        /\ \A t, u \in Readers : \A i \in DOMAIN retired[t], j \in DOMAIN retired[u] :
             retired[t][i] = retired[u][j] => t = u /\ i = j
        /\ \A q \in Readers : pc[q] = "release" => Node(q) \in live \ Private
        /\ \A q, s \in Readers :
             pc[q] = "release" /\ pc[s] = "release" /\ Node(q) = Node(s) => q = s
        /\ \A x \in Writers : pc[x] = "link" => local[x].target \in live
        /\ \A x, y \in Writers :
             pc[x] = "link" /\ pc[y] = "link" /\ local[x].target = local[y].target => x = y
    BY DEF SafeInv, OwnInv
  <2>2. \A t \in Readers : \A i \in DOMAIN retired[t] : retired[t][i] # n
    BY ONLY <1>10, <2>1
  <2>3. ASSUME NEW t \in Readers, NEW i \in DOMAIN retired'[t]
        PROVE  \/ t = r /\ i = L + 1 /\ retired'[t][i] = n
               \/ i \in DOMAIN retired[t] /\ retired'[t][i] = retired[t][i] /\ retired'[t][i] # n
    BY <1>5, <1>7, <2>2, <2>3
  <2>4. \A t \in Readers : \A i \in DOMAIN retired'[t] :
          retired'[t][i] \in live' \ (Unlinked' \cup Private')
    <3>1. ASSUME NEW t \in Readers, NEW i \in DOMAIN retired'[t]
          PROVE  retired'[t][i] \in live' \ (Unlinked' \cup Private')
      <4>1. CASE retired'[t][i] = n
        BY ONLY <1>2, <1>3, <1>9, <1>11, <4>1
      <4>2. CASE i \in DOMAIN retired[t] /\ retired'[t][i] = retired[t][i]
        <5>1. retired[t][i] \in live \ (Unlinked \cup Private)
          BY <2>1, <4>2
        <5> QED
          BY ONLY <1>2, <1>9, <1>11, <4>2, <5>1
      <4> QED
        BY <2>3, <4>1, <4>2
    <3> QED
      BY <3>1
  <2>5. \A t, u \in Readers : \A i \in DOMAIN retired'[t], j \in DOMAIN retired'[u] :
          retired'[t][i] = retired'[u][j] => t = u /\ i = j
    <3>1. ASSUME NEW t \in Readers, NEW u \in Readers, NEW i \in DOMAIN retired'[t],
                 NEW j \in DOMAIN retired'[u], retired'[t][i] = retired'[u][j]
          PROVE  t = u /\ i = j
      <4>1. \/ t = r /\ i = L + 1 /\ retired'[t][i] = n
            \/ i \in DOMAIN retired[t] /\ retired'[t][i] = retired[t][i] /\ retired'[t][i] # n
        BY <2>3
      <4>2. \/ u = r /\ j = L + 1 /\ retired'[u][j] = n
            \/ j \in DOMAIN retired[u] /\ retired'[u][j] = retired[u][j] /\ retired'[u][j] # n
        BY <2>3
      <4> QED
        BY <2>1, <3>1, <4>1, <4>2
    <3> QED
      BY <3>1
  <2>6. \A q \in Readers : pc'[q] = "release" => Node(q)' \in live' \ Private'
    BY <1>2, <1>6, <1>7, <1>9, <2>1
  <2>7. \A q, s \in Readers :
          pc'[q] = "release" /\ pc'[s] = "release" /\ Node(q)' = Node(s)' => q = s
    BY <1>6, <1>7, <2>1
  <2>8. /\ \A x \in Writers : pc'[x] = "link" => local'[x].target \in live'
        /\ \A x, y \in Writers :
             pc'[x] = "link" /\ pc'[y] = "link" /\ local'[x].target = local'[y].target => x = y
    BY <1>2, <1>8, <2>1
  <2> QED
    BY <2>4, <2>5, <2>6, <2>7, <2>8 DEF OwnInv
<1>16. LinkInv'
  BY <1>2, <1>13, <1>14 DEF SafeInv, LinkInv
<1>17. ReadInv'
  <2>1. ASSUME NEW s \in Readers, pc'[s] \in HeldR
        PROVE  Protected(s)'
    <3>1. s # r
      BY <1>6, <2>1 DEF HeldR
    <3>2. Protected(s) /\ pc[s] \in HeldR
      BY <1>7, <2>1, <3>1 DEF SafeInv, ReadInv
    <3> QED
      BY <1>2, <1>7, <1>9, <1>14, <3>1, <3>2 DEF Protected
  <2> QED
    BY <2>1 DEF ReadInv, Protected
<1>18. ScanInv'
  <2> SUFFICES ASSUME NEW a \in Readers, NEW b \in Readers, Overlooked(a, b)'
               PROVE  FALSE
    BY DEF ScanInv
  <2>1. b # r
    BY <1>6 DEF Overlooked, HeldR
  <2>2. a # r
    BY <1>2, <1>3, ThreadIds DEF Overlooked
  <2>3. Overlooked(a, b)
    BY <1>2, <1>7, <2>1, <2>2 DEF Overlooked
  <2> QED
    BY <2>3 DEF SafeInv, ScanInv
<1>19. DataInv'
  BY <1>2, <1>8 DEF SafeInv, DataInv
<1> QED
  BY <1>2, <1>9, <1>13, <1>14, <1>15, <1>16, <1>17, <1>18, <1>19 DEF SafeInv

-----------------------------------------------------------------------------
(* The readers' half of the queue, whatever the writers do.                *)

\* The readers are safe at first.
LEMMA InitSafe == Init => SafeInv
<1> SUFFICES ASSUME Init PROVE SafeInv
  OBVIOUS
<1>1. \A t \in Threads : /\ pc[t] = "idle" /\ local[t] = At(Null) /\ hazard[t] = Null
                         /\ retired[t] = <<>> /\ at[t] = <<1, 0>> /\ calls[t] = 0
  BY DEF Init
<1>2. \A n \in Nodes : mem[n] = Blank
  BY DEF Init
<1>3. Writers \subseteq Threads /\ Readers \subseteq Threads
  BY ThreadIds
<1>4. Retired = {} /\ Unlinked = {} /\ Private = {} /\ Gone = {} /\ Linked = {read_pos}
  BY <1>1, <1>3 DEF Init, Retired, Unlinked, Private, Gone, Linked
<1>5. TypeInv
  BY <1>1, <1>2, BlankNode, AtNode, MpmcQueueAssumption
  DEF Init, TypeInv, WriterSteps
<1>6. KnowInv
  BY <1>1, <1>3 DEF KnowInv, WriterKnows, ReaderKnows, WriterSteps, ReaderSteps, HeldW, HeldR
<1>7. OwnInv
  BY <1>1, <1>3 DEF OwnInv
<1>8. LinkInv
  BY <1>2, <1>4, BlankNode DEF LinkInv, Init
<1>9. ReadInv /\ ScanInv
  BY <1>1, <1>3 DEF ReadInv, Protected, ScanInv, Overlooked, HeldR
<1>10. DataInv
  BY <1>2, BlankNode, Marks DEF DataInv, Init
<1> QED
  BY <1>5, <1>6, <1>7, <1>8, <1>9, <1>10 DEF SafeInv

\* Look keeps the readers safe.
LEMMA LookSafe ==
  ASSUME SafeInv, NEW r \in Readers, Look(r)
  PROVE  SafeInv'
BY LookKeepSafe, LookNextSafe, LookFreeSafe

\* Every step keeps the readers safe.
LEMMA NextSafe == SafeInv /\ [Next]_vars => SafeInv'
<1> SUFFICES ASSUME SafeInv, [Next]_vars
             PROVE  SafeInv'
  OBVIOUS
<1>1. ASSUME NEW t \in Threads, Protect(t) \/ Announce(t) \/ Recheck(t) \/ Clear(t)
      PROVE  SafeInv'
  BY <1>1, ProtectSafe, AnnounceSafe, RecheckSafe, ClearSafe
<1>2. ASSUME NEW w \in Writers, Push(w) \/ ClaimWrite(w) \/ SetValue(w) \/ Swing(w)
      PROVE  SafeInv'
  BY <1>2, PushSafe, ClaimWriteSafe, SetValueDoneSafe, SetValueLostSafe, SwingSafe
<1>3. ASSUME NEW w \in Writers, NextNode(w)
      PROVE  SafeInv'
  BY <1>3, NextNodeFoundSafe, NextNodeCases, MakesSafe
<1>4. ASSUME NEW w \in Writers, Link(w)
      PROVE  SafeInv'
  BY <1>4, LinkDoneSafe, LinkLostSafe
<1>5. ASSUME NEW r \in Readers,
             TryPop(r) \/ ReadWritePos(r) \/ Compare(r) \/ LastNode(r) \/ ClaimRead(r)
      PROVE  SafeInv'
  BY <1>5, TryPopSafe, ReadWritePosSafe, CompareSafe, LastNodeSafe, ClaimReadSafe
<1>6. ASSUME NEW r \in Readers,
             GetValue(r) \/ After(r) \/ Advance(r) \/ Release(r) \/ Look(r) \/ Gc(r)
      PROVE  SafeInv'
  BY <1>6, GetValueSafe, AfterSafe, AdvanceDoneSafe, AdvanceLostSafe, ReleaseSafe, LookSafe, GcSafe
<1>7. ASSUME UNCHANGED vars
      PROVE  SafeInv'
  <2>1. UNCHANGED <<write_pos, read_pos, mem, live, hazard, retired, pc, local, at, calls,
                    pushed, popped, before, older>>
    BY <1>7 DEF vars, queue, history
  <2>2. Retired' = Retired /\ Unlinked' = Unlinked /\ Private' = Private
    BY <2>1 DEF Retired, Unlinked, Private, Node
  <2>3. Gone' = Gone /\ Linked' = Linked
    BY <2>1, <2>2 DEF Gone, Linked
  <2>4. TypeInv'
    BY <2>1 DEF SafeInv, TypeInv
  <2>5. KnowInv'
    BY <2>1 DEF SafeInv, KnowInv, WriterKnows, ReaderKnows, Node
  <2>6. OwnInv'
    BY <2>1, <2>2 DEF SafeInv, OwnInv, Node
  <2>7. LinkInv'
    BY <2>1, <2>3 DEF SafeInv, LinkInv
  <2>8. ReadInv' /\ ScanInv'
    BY <2>1, <2>2, <2>3 DEF SafeInv, ReadInv, Protected, ScanInv, Overlooked, Node
  <2>9. DataInv'
    BY <2>1 DEF SafeInv, DataInv, Arg
  <2> QED
    BY <2>4, <2>5, <2>6, <2>7, <2>8, <2>9 DEF SafeInv
<1> QED
  BY <1>1, <1>2, <1>3, <1>4, <1>5, <1>6, <1>7 DEF Next

\* The readers are safe, whatever the writers do.
LEMMA AlwaysSafe == Spec => []SafeInv
BY InitSafe, NextSafe, PTL DEF Spec

\* Every pointer is to a node or null, counters count, and what was popped was pushed:
\* the types of MpmcQueue.h's and HazardPointers.h's fields, as MCMpmcQueue checks them.
THEOREM TypeCorrect == Spec => []TypeOK
<1>1. SafeInv => TypeOK
  <2> SUFFICES ASSUME SafeInv PROVE TypeOK
    OBVIOUS
  <2>1. \A n \in Nodes :
          /\ mem[n].next \in Nodes \cup {Null} /\ {mem[n].wpos, mem[n].rpos} \subseteq Nat
          /\ \A i \in 0 .. Size - 1 : mem[n].data[i] \in Values \cup {Empty, Taken}
    <3>1. ASSUME NEW n \in Nodes
          PROVE  /\ mem[n].next \in Nodes \cup {Null} /\ mem[n].wpos \in Nat /\ mem[n].rpos \in Nat
                 /\ \A i \in Slots : mem[n].data[i] \in Values \cup {Empty, Taken}
      <4>1. mem[n] \in NodeType
        BY DEF SafeInv, TypeInv
      <4> QED
        BY <4>1 DEF NodeType
    <3> QED
      BY <3>1 DEF Slots
  <2>2. \A t \in Threads :
          /\ {hazard[t], Node(t), local[t].target} \subseteq Nodes \cup {Null}
          /\ local[t].pos \in Nat
          /\ retired[t] \in Seq(Nodes) /\ calls[t] \in 0 .. Calls
    BY DEF SafeInv, TypeInv, LocalType, Node
  <2> QED
    BY <2>1, <2>2 DEF SafeInv, TypeInv, DataInv, TypeOK
<1> QED
  BY <1>1, AlwaysSafe, PTL

\* No reader is ever in a node that was deleted: the hazard pointer that protect
\* announces and reads again, and the retire that asks every thread for its pointer,
\* keep it alive, for any number of readers and writers and also after a writer
\* has used a deleted node.
THEOREM ReadersAlive == Spec => []ReadersSafe
<1>1. SafeInv => ReadersSafe
  <2>1. ASSUME SafeInv PROVE read_pos \in live
    BY <2>1 DEF SafeInv, LinkInv, Linked
  <2>2. ASSUME SafeInv, NEW r \in Readers, pc[r] \in InNode PROVE Node(r) \in live
    <3>1. pc[r] \in HeldR
      BY <2>2 DEF SafeInv, KnowInv, ReaderKnows, ReaderSteps, Entering, HeldR, InNode
    <3> QED
      BY <2>2, <3>1 DEF SafeInv, ReadInv, Protected
  <2> QED
    BY <2>1, <2>2 DEF ReadersSafe
<1> QED
  BY <1>1, AlwaysSafe, PTL

-----------------------------------------------------------------------------
(* The writers' half, as long as no writer has used a deleted node.        *)

\* A node as NextNode makes it.
Fresh(v) == [Blank EXCEPT !.wpos = 1, !.data[0] = v]

\* The node after the one that write_pos_ is to.
Last == mem[write_pos].next

\* Writers are at the last node or behind it, in nodes that were linked.
WriterAt(w) ==
  /\ pc[w] \in HeldW => Node(w) \notin Private /\ (Last # Null => Node(w) # Last)
  /\ pc[w] \in {"swing", "finish"} /\ Node(w) \in live => local[w].target = Here(w).next

\* write_pos_ is one behind at most.
TailInv ==
  /\ write_pos \notin Private
  /\ Last # Null => Last \in Linked /\ mem[Last].next = Null
  /\ \A w \in Writers : WriterAt(w)

\* The linked nodes are the chain from read_pos_ on, and from each on to the last.
ChainInv ==
  /\ \A S \in SUBSET Linked : read_pos \in S /\ Closed(S) => S = Linked
  /\ \A m, n \in Linked : mem[m].next = Null => m \in ChainFrom(n)

\* Nobody has written to a node that is not there or not linked yet.
BlankInv ==
  /\ \A n \in Nodes \ live : mem[n] = Blank
  /\ \A w \in Writers : pc[w] = "link" => mem[local[w].target] = Fresh(Arg(w))

WriterCounts(w) ==
  /\ pc[w] \in {"next", "link"} /\ Node(w) \in live => Here(w).wpos >= Size
  /\ pc[w] = "set" /\ Node(w) \in live => local[w].pos < Here(w).wpos /\ Slot(w) \notin Values

ReaderCounts(r) ==
  /\ pc[r] = "get" => local[r].pos < Here(r).rpos
  /\ pc[r] \in {"after", "advance"} => Here(r).rpos >= Size

\* A node is left when its slots are claimed.
CountInv ==
  /\ \A n \in Nodes : mem[n].next # Null => mem[n].wpos >= Size
  /\ \A n \in Gone : mem[n].rpos >= Size
  /\ \A n \in Nodes : \A i \in Slots : i >= mem[n].wpos => mem[n].data[i] \notin Values
  /\ \A w \in Writers : WriterCounts(w)
  /\ \A r \in Readers : ReaderCounts(r)

\* Thread t is at slot i of node n.
IsAt(t, n, i) == pc[t] \in {"set", "get"} /\ Node(t) = n /\ local[t].pos = i

\* A slot is one writer's and one reader's, who leaves it Taken.
SlotInv ==
  /\ \A w, x \in Writers : \A n \in live : \A i \in Slots : IsAt(w, n, i) /\ IsAt(x, n, i) => w = x
  /\ \A r, s \in Readers : \A n \in live : \A i \in Slots : IsAt(r, n, i) /\ IsAt(s, n, i) => r = s
  /\ \A n \in live : \A i \in Slots : i < mem[n].rpos =>
       mem[n].data[i] = Taken \/ \E r \in Readers : IsAt(r, n, i)

\* A writer's k-th value has not been pushed.
Unpushed(w, k) == k > calls[w] \/ (k = calls[w] /\ pc[w] \notin {"idle", "done", "finish"})

\* Value u waits in slot i of node n.
Waits(u, n, i) == n \in Linked /\ i \in Slots /\ i >= mem[n].rpos /\ mem[n].data[i] = u

\* Value v is where a reader will get to, or where one is.
Kept(v) ==
  \E n \in Nodes : \E i \in Slots :
    mem[n].data[i] = v /\ (Waits(v, n, i) \/ \E r \in Readers : IsAt(r, n, i))

\* A value is in no more than one slot, in none once it is popped, and in one before.
OneSlotInv ==
  \A m, n \in Nodes : \A i, j \in Slots :
    mem[m].data[i] \in Values /\ mem[m].data[i] = mem[n].data[j] => m = n /\ i = j

ValueInv ==
  /\ \A w \in Writers : \A k \in 1 .. Calls : Unpushed(w, k) => <<w, k>> \notin pushed
  /\ OneSlotInv
  /\ \A v \in popped : \A n \in Nodes : \A i \in Slots : mem[n].data[i] # v
  /\ \A v \in pushed \ popped : Kept(v)

\* What reader r has found out of the values that were in the queue when it began.
Finds(r) ==
  /\ before[r] \subseteq pushed
  /\ pc[r] = "compare" => \A i \in Slots : Here(r).data[i] \in before[r] => i < local[r].pos
  /\ pc[r] = "last" => \A i \in Slots : Here(r).data[i] \in before[r] => i < Here(r).rpos
  /\ pc[r] = "empty" => \A v \in before[r] : \A n \in Nodes : \A i \in Slots : ~Waits(v, n, i)

EmptyInv == \A r \in Readers : Finds(r)

\* A writer is behind the values that were there before it began, and so is its value.
Behind(w) ==
  pc[w] = "set" =>
    \A u \in older[Arg(w)] : \A n \in Nodes : \A i \in Slots : Waits(u, n, i) =>
      Node(w) \in ChainFrom(n) /\ (Node(w) = n => i < local[w].pos)

Ordered(v) ==
  \A u \in older[v] : \A n \in Nodes : \A i \in Slots : Waits(u, n, i) =>
    \E m \in ChainFrom(n) : \E j \in Slots : Waits(v, m, j) /\ (m = n => i < j)

OrderInv ==
  /\ \A v \in Values : older[v] \subseteq pushed
  /\ \A w \in Writers : Behind(w)
  /\ \A v \in pushed : Ordered(v)

-----------------------------------------------------------------------------
(* Steps that change no node.                                              *)

SameWriter(w) ==
  /\ pc'[w] = pc[w] /\ local'[w] = local[w] /\ calls'[w] = calls[w]
  /\ Node(w)' = Node(w) /\ Arg(w)' = Arg(w)

SameReader(r) ==
  pc'[r] = pc[r] /\ local'[r] = local[r] /\ Node(r)' = Node(r) /\ before'[r] = before[r]

Others(t) ==
  (\A w \in Writers : w # t => SameWriter(w)) /\ \A r \in Readers : r # t => SameReader(r)

SameSets == Private' = Private /\ Gone' = Gone /\ Linked' = Linked /\ live' = live

Rest == {"idle", "done", "finish"}

\* The writer comes to the node of write_pos_, or has seen the next one, or moves
\* write_pos_ to it.
Enters(t) ==
  pc'[t] \in HeldW =>
    \/ pc'[t] = "claim" /\ Node(t)' = write_pos
    \/ /\ pc'[t] = "swing" /\ pc[t] = "next" /\ Node(t)' = Node(t)
       /\ local'[t].target = Here(t).next

Swings(t) ==
  /\ t \in Writers /\ pc[t] \in {"swing", "finish"} /\ Node(t) = write_pos
  /\ write_pos' = local[t].target /\ pc'[t] \notin HeldW

Counts(t) ==
  \/ t \in Writers /\ Push(t) /\ calls'[t] = calls[t] + 1
  \/ older' = older /\ (t \in Writers => calls'[t] = calls[t] /\ (pc[t] \in Rest => pc'[t] \in Rest))

Looks(r) ==
  /\ pc'[r] \in {"after", "advance"} => pc[r] = "after" /\ Node(r)' = Node(r)
  /\ pc'[r] \in {"compare", "last", "empty"} =>
       before'[r] = before[r] /\ (ReadWritePos(r) \/ Compare(r) \/ LastNode(r) \/ After(r))
  /\ before'[r] \in {before[r], {}, pushed \ popped}

Still(t) ==
  /\ Others(t) /\ SameSets /\ UNCHANGED <<read_pos, mem, pushed, popped>>
  /\ pc[t] \notin {"get", "link"} /\ pc'[t] \notin {"set", "get", "link"}
  /\ t \in Writers => Enters(t)
  /\ write_pos' = write_pos \/ Swings(t)
  /\ t \in Readers => Looks(t)
  /\ Counts(t)

\* The other threads stay as they are.
LEMMA OthersSame ==
  ASSUME NEW t \in Threads, Alone(t), \A r \in Readers : r # t => before'[r] = before[r]
  PROVE  Others(t)
BY OthersOwn, ThreadIds DEF Others, SameWriter, SameReader, Node, Arg, Alone

\* Protect changes no node.
LEMMA ProtectStill ==
  ASSUME SafeInv, NEW t \in Threads, Protect(t)
  PROVE  SafeInv' /\ Still(t)
<1>1. /\ t \in Threads /\ SafeInv' /\ Quiet(t) /\ Alone(t)
      /\ Moved(t, "announce", At(Root(t)))
  BY ThreadIds, ProtectSafe, ProtectEffect DEF SafeInv
<1>2. SameSets /\ UNCHANGED <<read_pos, mem, pushed, popped>>
  BY <1>1, QuietSets DEF Quiet, SameSets, Protect, queue, history
<1>3. Others(t)
  <2>1. \A r \in Readers : r # t => before'[r] = before[r]
    BY DEF Protect, history
  <2> QED
    BY <1>1, <2>1, OthersSame
<1>4. pc[t] \notin {"get", "link"} /\ pc'[t] \notin {"set", "get", "link"}
  BY <1>1 DEF Moved, Protect, Go
<1>5. t \in Writers => Enters(t)
  BY <1>1, AtNode
  DEF Moved, Protect, Go, Enters, HeldW, Node, Root, SafeInv, TypeInv, KnowInv, WriterKnows,
      LocalType
<1>6. write_pos' = write_pos
  BY <1>1 DEF Moved, Protect, Go, queue, Swings, HeldW
<1>7. t \in Readers => Looks(t)
  BY <1>1, AtNode, ThreadIds
  DEF Moved, Protect, Go, Looks, Node, Root, SafeInv, TypeInv, KnowInv, ReaderKnows, LocalType,
      history
<1>8. Counts(t)
  BY <1>1, ThreadIds DEF Moved, Protect, Go, Counts, Rest, SafeInv, TypeInv, Begin, history
<1> QED
  BY <1>1, <1>2, <1>3, <1>4, <1>5, <1>6, <1>7, <1>8 DEF Still

\* Announce changes no node.
LEMMA AnnounceStill ==
  ASSUME SafeInv, NEW t \in Threads, Announce(t)
  PROVE  SafeInv' /\ Still(t)
<1>1. /\ t \in Threads /\ SafeInv' /\ Quiet(t) /\ Alone(t)
      /\ Moved(t, "recheck", local[t])
  BY ThreadIds, AnnounceSafe, AnnounceEffect DEF SafeInv
<1>2. SameSets /\ UNCHANGED <<read_pos, mem, pushed, popped>>
  BY <1>1, QuietSets DEF Quiet, SameSets, Announce, queue, history
<1>3. Others(t)
  <2>1. \A r \in Readers : r # t => before'[r] = before[r]
    BY DEF Announce, history
  <2> QED
    BY <1>1, <2>1, OthersSame
<1>4. pc[t] \notin {"get", "link"} /\ pc'[t] \notin {"set", "get", "link"}
  BY <1>1 DEF Moved, Announce, Go
<1>5. t \in Writers => Enters(t)
  BY <1>1, AtNode
  DEF Moved, Announce, Go, Enters, HeldW, Node, Root, SafeInv, TypeInv, KnowInv, WriterKnows,
      LocalType
<1>6. write_pos' = write_pos
  BY <1>1 DEF Moved, Announce, Go, queue, Swings, HeldW
<1>7. t \in Readers => Looks(t)
  BY <1>1, AtNode, ThreadIds
  DEF Moved, Announce, Go, Looks, Node, Root, SafeInv, TypeInv, KnowInv, ReaderKnows, LocalType,
      history
<1>8. Counts(t)
  BY <1>1, ThreadIds DEF Moved, Announce, Go, Counts, Rest, SafeInv, TypeInv, Begin, history
<1> QED
  BY <1>1, <1>2, <1>3, <1>4, <1>5, <1>6, <1>7, <1>8 DEF Still

\* Recheck changes no node.
LEMMA RecheckStill ==
  ASSUME SafeInv, NEW t \in Threads, Recheck(t)
  PROVE  SafeInv' /\ Still(t)
<1>1. /\ t \in Threads /\ SafeInv' /\ Quiet(t) /\ Alone(t)
      /\ Moved(t, Rechecked(t), At(Root(t)))
  BY ThreadIds, RecheckSafe, RecheckEffect DEF SafeInv
<1>2. SameSets /\ UNCHANGED <<read_pos, mem, pushed, popped>>
  BY <1>1, QuietSets DEF Quiet, SameSets, Recheck, queue, history
<1>3. Others(t)
  <2>1. \A r \in Readers : r # t => before'[r] = before[r]
    BY DEF Recheck, history
  <2> QED
    BY <1>1, <2>1, OthersSame
<1>4. pc[t] \notin {"get", "link"} /\ pc'[t] \notin {"set", "get", "link"}
  BY <1>1 DEF Moved, Recheck, Go, Rechecked
<1>5. t \in Writers => Enters(t)
  BY <1>1, AtNode
  DEF Moved, Recheck, Go, Rechecked, Enters, HeldW, Node, Root, SafeInv, TypeInv, KnowInv,
      WriterKnows, LocalType
<1>6. write_pos' = write_pos
  BY <1>1 DEF Moved, Recheck, Go, Rechecked, queue, Swings, HeldW
<1>7. t \in Readers => Looks(t)
  BY <1>1, AtNode, ThreadIds
  DEF Moved, Recheck, Go, Rechecked, Looks, Node, Root, SafeInv, TypeInv, KnowInv, ReaderKnows,
      LocalType, history
<1>8. Counts(t)
  BY <1>1, ThreadIds
  DEF Moved, Recheck, Go, Rechecked, Counts, Rest, SafeInv, TypeInv, Begin, history
<1> QED
  BY <1>1, <1>2, <1>3, <1>4, <1>5, <1>6, <1>7, <1>8 DEF Still

\* Clear changes no node.
LEMMA ClearStill ==
  ASSUME SafeInv, NEW t \in Threads, Clear(t)
  PROVE  SafeInv' /\ Still(t)
<1>1. /\ t \in Threads /\ SafeInv' /\ Quiet(t) /\ Alone(t)
      /\ Moved(t, "idle", At(Null))
  BY ThreadIds, ClearSafe, ClearEffect DEF SafeInv
<1>2. SameSets /\ UNCHANGED <<read_pos, mem, pushed, popped>>
  BY <1>1, QuietSets DEF Quiet, SameSets, Clear, queue, history
<1>3. Others(t)
  <2>1. \A r \in Readers : r # t => before'[r] = before[r]
    BY DEF Clear, history
  <2> QED
    BY <1>1, <2>1, OthersSame
<1>4. pc[t] \notin {"get", "link"} /\ pc'[t] \notin {"set", "get", "link"}
  BY <1>1 DEF Moved, Clear, Go
<1>5. t \in Writers => Enters(t)
  BY <1>1, AtNode
  DEF Moved, Clear, Go, Enters, HeldW, Node, Root, SafeInv, TypeInv, KnowInv, WriterKnows, LocalType
<1>6. write_pos' = write_pos
  BY <1>1 DEF Moved, Clear, Go, queue, Swings, HeldW
<1>7. t \in Readers => Looks(t)
  BY <1>1, AtNode, ThreadIds
  DEF Moved, Clear, Go, Looks, Node, Root, SafeInv, TypeInv, KnowInv, ReaderKnows, LocalType,
      history
<1>8. Counts(t)
  BY <1>1, ThreadIds DEF Moved, Clear, Go, Counts, Rest, SafeInv, TypeInv, Begin, history
<1> QED
  BY <1>1, <1>2, <1>3, <1>4, <1>5, <1>6, <1>7, <1>8 DEF Still

\* Gc changes no node.
LEMMA GcStill ==
  ASSUME SafeInv, NEW r \in Readers, Gc(r)
  PROVE  SafeInv' /\ Still(r)
<1>1. /\ r \in Threads /\ SafeInv' /\ Quiet(r) /\ Alone(r)
      /\ Moved(r, "gc", local[r])
  BY ThreadIds, GcSafe, GcEffect DEF SafeInv
<1>2. SameSets /\ UNCHANGED <<read_pos, mem, pushed, popped>>
  BY <1>1, QuietSets DEF Quiet, SameSets, Gc, queue, history
<1>3. Others(r)
  <2>1. \A s \in Readers : s # r => before'[s] = before[s]
    BY DEF Gc, history, SafeInv, TypeInv
  <2> QED
    BY <1>1, <2>1, OthersSame
<1>4. pc[r] \notin {"get", "link"} /\ pc'[r] \notin {"set", "get", "link"}
  BY <1>1 DEF Moved, Gc, Go
<1>6. write_pos' = write_pos
  BY <1>1 DEF Moved, Gc, Go, queue, Swings, HeldW
<1>7. Looks(r)
  BY <1>1, AtNode, ThreadIds
  DEF Moved, Gc, Go, Looks, Node, Root, SafeInv, TypeInv, KnowInv, ReaderKnows, LocalType, history
<1>8. Counts(r)
  BY <1>1, ThreadIds DEF Moved, Gc, Go, Counts, Rest, SafeInv, TypeInv, Begin, history
<1> QED
  BY <1>1, <1>2, <1>3, <1>4, <1>6, <1>7, <1>8, ThreadIds DEF Still

\* Push changes no node.
LEMMA PushStill ==
  ASSUME SafeInv, NEW w \in Writers, Push(w)
  PROVE  SafeInv' /\ Still(w)
<1>1. /\ w \in Threads /\ SafeInv' /\ Quiet(w) /\ Alone(w)
      /\ Moved(w, "protect", local[w])
  BY ThreadIds, PushSafe, PushEffect DEF SafeInv
<1>2. SameSets /\ UNCHANGED <<read_pos, mem, pushed, popped>>
  BY <1>1, QuietSets DEF Quiet, SameSets, Push, queue, history
<1>3. Others(w)
  <2>1. \A r \in Readers : r # w => before'[r] = before[r]
    BY DEF Push, history
  <2> QED
    BY <1>1, <2>1, OthersSame
<1>4. pc[w] \notin {"get", "link"} /\ pc'[w] \notin {"set", "get", "link"}
  BY <1>1 DEF Moved, Push, Go
<1>5. Enters(w)
  BY <1>1, AtNode
  DEF Moved, Push, Go, Enters, HeldW, Node, Root, SafeInv, TypeInv, KnowInv, WriterKnows, LocalType
<1>6. write_pos' = write_pos
  BY <1>1 DEF Moved, Push, Go, queue, Swings, HeldW
<1>8. Counts(w)
  BY <1>1, ThreadIds DEF Moved, Push, Go, Counts, Rest, SafeInv, TypeInv, Begin, history
<1> QED
  BY <1>1, <1>2, <1>3, <1>4, <1>5, <1>6, <1>8, ThreadIds DEF Still

\* TryPop changes no node.
LEMMA TryPopStill ==
  ASSUME SafeInv, NEW r \in Readers, TryPop(r)
  PROVE  SafeInv' /\ Still(r)
<1>1. /\ r \in Threads /\ SafeInv' /\ Quiet(r) /\ Alone(r)
      /\ Moved(r, "protect", local[r])
  BY ThreadIds, TryPopSafe, TryPopEffect DEF SafeInv
<1>2. SameSets /\ UNCHANGED <<read_pos, mem, pushed, popped>>
  BY <1>1, QuietSets DEF Quiet, SameSets, TryPop, queue, history
<1>3. Others(r)
  <2>1. \A s \in Readers : s # r => before'[s] = before[s]
    BY DEF TryPop, history, SafeInv, TypeInv
  <2> QED
    BY <1>1, <2>1, OthersSame
<1>4. pc[r] \notin {"get", "link"} /\ pc'[r] \notin {"set", "get", "link"}
  BY <1>1 DEF Moved, TryPop, Go
<1>6. write_pos' = write_pos
  BY <1>1 DEF Moved, TryPop, Go, queue, Swings, HeldW
<1>7. Looks(r)
  BY <1>1, AtNode, ThreadIds
  DEF Moved, TryPop, Go, Looks, Node, Root, SafeInv, TypeInv, KnowInv, ReaderKnows, LocalType,
      history
<1>8. Counts(r)
  BY <1>1, ThreadIds DEF Moved, TryPop, Go, Counts, Rest, SafeInv, TypeInv, Begin, history
<1> QED
  BY <1>1, <1>2, <1>3, <1>4, <1>6, <1>7, <1>8, ThreadIds DEF Still

\* ReadWritePos changes no node.
LEMMA ReadWritePosStill ==
  ASSUME SafeInv, NEW r \in Readers, ReadWritePos(r)
  PROVE  SafeInv' /\ Still(r)
<1>1. /\ r \in Threads /\ SafeInv' /\ Quiet(r) /\ Alone(r)
      /\ Moved(r, "compare", [local[r] EXCEPT !.pos = Here(r).wpos])
  BY ThreadIds, ReadWritePosSafe, ReadWritePosEffect DEF SafeInv
<1>2. SameSets /\ UNCHANGED <<read_pos, mem, pushed, popped>>
  BY <1>1, QuietSets DEF Quiet, SameSets, ReadWritePos, queue, history
<1>3. Others(r)
  <2>1. \A s \in Readers : s # r => before'[s] = before[s]
    BY DEF ReadWritePos, history, SafeInv, TypeInv
  <2> QED
    BY <1>1, <2>1, OthersSame
<1>4. pc[r] \notin {"get", "link"} /\ pc'[r] \notin {"set", "get", "link"}
  BY <1>1 DEF Moved, ReadWritePos, Go
<1>6. write_pos' = write_pos
  BY <1>1 DEF Moved, ReadWritePos, Go, queue, Swings, HeldW
<1>7. Looks(r)
  BY <1>1, AtNode, ThreadIds
  DEF Moved, ReadWritePos, Go, Looks, Node, Root, SafeInv, TypeInv, KnowInv, ReaderKnows,
      LocalType, history
<1>8. Counts(r)
  BY <1>1, ThreadIds DEF Moved, ReadWritePos, Go, Counts, Rest, SafeInv, TypeInv, Begin, history
<1> QED
  BY <1>1, <1>2, <1>3, <1>4, <1>6, <1>7, <1>8, ThreadIds DEF Still

\* Compare changes no node.
LEMMA CompareStill ==
  ASSUME SafeInv, NEW r \in Readers, Compare(r)
  PROVE  SafeInv' /\ Still(r)
<1>1. /\ r \in Threads /\ SafeInv' /\ Quiet(r) /\ Alone(r)
      /\ Moved(r, IF local[r].pos <= Here(r).rpos THEN "last" ELSE "take", At(Node(r)))
  BY ThreadIds, CompareSafe, CompareEffect DEF SafeInv
<1>2. SameSets /\ UNCHANGED <<read_pos, mem, pushed, popped>>
  BY <1>1, QuietSets DEF Quiet, SameSets, Compare, queue, history
<1>3. Others(r)
  <2>1. \A s \in Readers : s # r => before'[s] = before[s]
    BY DEF Compare, history, SafeInv, TypeInv
  <2> QED
    BY <1>1, <2>1, OthersSame
<1>4. pc[r] \notin {"get", "link"} /\ pc'[r] \notin {"set", "get", "link"}
  BY <1>1 DEF Moved, Compare, Go
<1>6. write_pos' = write_pos
  BY <1>1 DEF Moved, Compare, Go, queue, Swings, HeldW
<1>7. Looks(r)
  BY <1>1, AtNode, ThreadIds
  DEF Moved, Compare, Go, Looks, Node, Root, SafeInv, TypeInv, KnowInv, ReaderKnows, LocalType,
      history
<1>8. Counts(r)
  BY <1>1, ThreadIds DEF Moved, Compare, Go, Counts, Rest, SafeInv, TypeInv, Begin, history
<1> QED
  BY <1>1, <1>2, <1>3, <1>4, <1>6, <1>7, <1>8, ThreadIds DEF Still

\* LastNode changes no node.
LEMMA LastNodeStill ==
  ASSUME SafeInv, NEW r \in Readers, LastNode(r)
  PROVE  SafeInv' /\ Still(r)
<1>1. /\ r \in Threads /\ SafeInv' /\ Quiet(r) /\ Alone(r)
      /\ Moved(r, IF Here(r).next = Null THEN "empty" ELSE "take", local[r])
  BY ThreadIds, LastNodeSafe, LastNodeEffect DEF SafeInv
<1>2. SameSets /\ UNCHANGED <<read_pos, mem, pushed, popped>>
  BY <1>1, QuietSets DEF Quiet, SameSets, LastNode, queue, history
<1>3. Others(r)
  <2>1. \A s \in Readers : s # r => before'[s] = before[s]
    BY DEF LastNode, history, SafeInv, TypeInv
  <2> QED
    BY <1>1, <2>1, OthersSame
<1>4. pc[r] \notin {"get", "link"} /\ pc'[r] \notin {"set", "get", "link"}
  BY <1>1 DEF Moved, LastNode, Go
<1>6. write_pos' = write_pos
  BY <1>1 DEF Moved, LastNode, Go, queue, Swings, HeldW
<1>7. Looks(r)
  BY <1>1, AtNode, ThreadIds
  DEF Moved, LastNode, Go, Looks, Node, Root, SafeInv, TypeInv, KnowInv, ReaderKnows, LocalType,
      history
<1>8. Counts(r)
  BY <1>1, ThreadIds DEF Moved, LastNode, Go, Counts, Rest, SafeInv, TypeInv, Begin, history
<1> QED
  BY <1>1, <1>2, <1>3, <1>4, <1>6, <1>7, <1>8, ThreadIds DEF Still

\* After changes no node.
LEMMA AfterStill ==
  ASSUME SafeInv, NEW r \in Readers, After(r)
  PROVE  SafeInv' /\ Still(r)
<1>1. /\ r \in Threads /\ SafeInv' /\ Quiet(r) /\ Alone(r)
      /\ Moved(r, IF Here(r).next = Null THEN "empty" ELSE "advance",
               [local[r] EXCEPT !.target = Here(r).next])
  BY ThreadIds, AfterSafe, AfterEffect DEF SafeInv
<1>2. SameSets /\ UNCHANGED <<read_pos, mem, pushed, popped>>
  BY <1>1, QuietSets DEF Quiet, SameSets, After, queue, history
<1>3. Others(r)
  <2>1. \A s \in Readers : s # r => before'[s] = before[s]
    BY DEF After, history, SafeInv, TypeInv
  <2> QED
    BY <1>1, <2>1, OthersSame
<1>4. pc[r] \notin {"get", "link"} /\ pc'[r] \notin {"set", "get", "link"}
  BY <1>1 DEF Moved, After, Go
<1>6. write_pos' = write_pos
  BY <1>1 DEF Moved, After, Go, queue, Swings, HeldW
<1>7. Looks(r)
  BY <1>1, AtNode, ThreadIds
  DEF Moved, After, Go, Looks, Node, Root, SafeInv, TypeInv, KnowInv, ReaderKnows, LocalType,
      history
<1>8. Counts(r)
  BY <1>1, ThreadIds DEF Moved, After, Go, Counts, Rest, SafeInv, TypeInv, Begin, history
<1> QED
  BY <1>1, <1>2, <1>3, <1>4, <1>6, <1>7, <1>8, ThreadIds DEF Still

\* SetValue of a slot that its reader gave up changes no node.
LEMMA SetValueLostStill ==
  ASSUME SafeInv, NEW w \in Writers, SetValue(w), Slot(w) # Empty
  PROVE  SafeInv' /\ Still(w)
<1>1. /\ w \in Threads /\ SafeInv' /\ Quiet(w) /\ Alone(w)
      /\ Moved(w, "protect", At(Null))
  BY ThreadIds, SetValueLostSafe, SetValueLostEffect DEF SafeInv
<1>2. SameSets /\ UNCHANGED <<read_pos, mem, pushed, popped>>
  BY <1>1, QuietSets DEF Quiet, SameSets, SetValue, queue, history
<1>3. Others(w)
  <2>1. \A r \in Readers : r # w => before'[r] = before[r]
    BY DEF SetValue, history
  <2> QED
    BY <1>1, <2>1, OthersSame
<1>4. pc[w] \notin {"get", "link"} /\ pc'[w] \notin {"set", "get", "link"}
  BY <1>1 DEF Moved, SetValue, Go
<1>5. Enters(w)
  BY <1>1, AtNode
  DEF Moved, SetValue, Go, Enters, HeldW, Node, Root, SafeInv, TypeInv, KnowInv, WriterKnows,
      LocalType
<1>6. write_pos' = write_pos
  BY <1>1 DEF Moved, SetValue, Go, queue, Swings, HeldW
<1>8. Counts(w)
  BY <1>1, ThreadIds DEF Moved, SetValue, Go, Counts, Rest, SafeInv, TypeInv, Begin, history
<1> QED
  BY <1>1, <1>2, <1>3, <1>4, <1>5, <1>6, <1>8, ThreadIds DEF Still

\* NextNode with a next node changes no node.
LEMMA NextNodeFoundStill ==
  ASSUME SafeInv, NEW w \in Writers, NextNode(w), Here(w).next # Null
  PROVE  SafeInv' /\ Still(w)
<1>1. /\ w \in Threads /\ SafeInv' /\ Quiet(w) /\ Alone(w)
      /\ Moved(w, "swing", [local[w] EXCEPT !.target = Here(w).next])
  BY ThreadIds, NextNodeFoundSafe, NextNodeFoundEffect DEF SafeInv
<1>2. SameSets /\ UNCHANGED <<read_pos, mem, pushed, popped>>
  BY <1>1, QuietSets DEF Quiet, SameSets, NextNode, queue, history
<1>3. Others(w)
  <2>1. \A r \in Readers : r # w => before'[r] = before[r]
    BY DEF NextNode, history
  <2> QED
    BY <1>1, <2>1, OthersSame
<1>4. pc[w] \notin {"get", "link"} /\ pc'[w] \notin {"set", "get", "link"}
  BY <1>1 DEF Moved, NextNode, Go
<1>5. Enters(w)
  BY <1>1, AtNode
  DEF Moved, NextNode, Go, Enters, HeldW, Node, Root, SafeInv, TypeInv, KnowInv, WriterKnows,
      LocalType
<1>6. write_pos' = write_pos
  BY <1>1 DEF Moved, NextNode, Go, queue, Swings, HeldW
<1>8. Counts(w)
  BY <1>1, ThreadIds DEF Moved, NextNode, Go, Counts, Rest, SafeInv, TypeInv, Begin, history
<1> QED
  BY <1>1, <1>2, <1>3, <1>4, <1>5, <1>6, <1>8, ThreadIds DEF Still

\* Swing changes no node.
LEMMA SwingStill ==
  ASSUME SafeInv, NEW w \in Writers, Swing(w)
  PROVE  SafeInv' /\ Still(w)
<1>1. /\ w \in Threads /\ SafeInv' /\ Quiet(w) /\ Alone(w)
      /\ Moved(w, IF pc[w] = "swing" THEN "protect" ELSE "done", At(Null))
  BY ThreadIds, SwingSafe, SwingEffect DEF SafeInv
<1>2. SameSets /\ UNCHANGED <<read_pos, mem, pushed, popped>>
  BY <1>1, QuietSets DEF Quiet, SameSets, Swing, queue, history
<1>3. Others(w)
  <2>1. \A r \in Readers : r # w => before'[r] = before[r]
    BY DEF Swing, history
  <2> QED
    BY <1>1, <2>1, OthersSame
<1>4. pc[w] \notin {"get", "link"} /\ pc'[w] \notin {"set", "get", "link"}
  BY <1>1 DEF Moved, Swing, Go
<1>5. Enters(w)
  BY <1>1, AtNode
  DEF Moved, Swing, Go, Enters, HeldW, Node, Root, SafeInv, TypeInv, KnowInv, WriterKnows, LocalType
<1>6. write_pos' = write_pos \/ Swings(w)
  BY <1>1 DEF Moved, Swing, Go, queue, Swings, HeldW
<1>8. Counts(w)
  BY <1>1, ThreadIds DEF Moved, Swing, Go, Counts, Rest, SafeInv, TypeInv, Begin, history
<1> QED
  BY <1>1, <1>2, <1>3, <1>4, <1>5, <1>6, <1>8, ThreadIds DEF Still

\* Advance where another reader was first changes no node.
LEMMA AdvanceLostStill ==
  ASSUME SafeInv, NEW r \in Readers, Advance(r), read_pos # Node(r)
  PROVE  SafeInv' /\ Still(r)
<1>1. /\ r \in Threads /\ SafeInv' /\ Quiet(r) /\ Alone(r)
      /\ Moved(r, "protect", At(Null))
  BY ThreadIds, AdvanceLostSafe, AdvanceLostEffect DEF SafeInv
<1>2. SameSets /\ UNCHANGED <<read_pos, mem, pushed, popped>>
  BY <1>1, QuietSets DEF Quiet, SameSets, Advance, queue, history
<1>3. Others(r)
  <2>1. \A s \in Readers : s # r => before'[s] = before[s]
    BY DEF Advance, history, SafeInv, TypeInv
  <2> QED
    BY <1>1, <2>1, OthersSame
<1>4. pc[r] \notin {"get", "link"} /\ pc'[r] \notin {"set", "get", "link"}
  BY <1>1 DEF Moved, Advance, Go
<1>6. write_pos' = write_pos
  BY <1>1 DEF Moved, Advance, Go, queue, Swings, HeldW
<1>7. Looks(r)
  BY <1>1, AtNode, ThreadIds
  DEF Moved, Advance, Go, Looks, Node, Root, SafeInv, TypeInv, KnowInv, ReaderKnows, LocalType,
      history
<1>8. Counts(r)
  BY <1>1, ThreadIds DEF Moved, Advance, Go, Counts, Rest, SafeInv, TypeInv, Begin, history
<1> QED
  BY <1>1, <1>2, <1>3, <1>4, <1>6, <1>7, <1>8, ThreadIds DEF Still

\* Look at the pointer that keeps the node changes no node.
LEMMA LookKeepStill ==
  ASSUME SafeInv, NEW r \in Readers, Look(r), hazard[Asked(r)] = Sought(r)
  PROVE  SafeInv' /\ Still(r)
<1>1. /\ r \in Threads /\ SafeInv' /\ Quiet(r) /\ Alone(r)
      /\ Moved(r, LookEnd(r), At(Null)) /\ UNCHANGED (<<queue, history>>)
  BY ThreadIds, LookKeepSafe, LookKeepEffect DEF SafeInv
<1>2. SameSets /\ UNCHANGED <<read_pos, mem, pushed, popped>>
  BY <1>1, QuietSets DEF Quiet, SameSets, Look, queue, history
<1>3. Others(r)
  <2>1. \A s \in Readers : s # r => before'[s] = before[s]
    BY DEF Look, history, SafeInv, TypeInv
  <2> QED
    BY <1>1, <2>1, OthersSame
<1>4. pc[r] \notin {"get", "link"} /\ pc'[r] \notin {"set", "get", "link"}
  BY <1>1 DEF Moved, Look, Go, LookEnd
<1>6. write_pos' = write_pos
  BY <1>1 DEF Moved, Look, Go, LookEnd, queue, Swings, HeldW
<1>7. Looks(r)
  BY <1>1, AtNode, ThreadIds
  DEF Moved, Look, Go, LookEnd, Looks, Node, Root, SafeInv, TypeInv, KnowInv, ReaderKnows,
      LocalType, history
<1>8. Counts(r)
  BY <1>1, ThreadIds DEF Moved, Look, Go, LookEnd, Counts, Rest, SafeInv, TypeInv, Begin, history
<1> QED
  BY <1>1, <1>2, <1>3, <1>4, <1>6, <1>7, <1>8, ThreadIds DEF Still

\* Look at another pointer changes no node.
LEMMA LookNextStill ==
  ASSUME SafeInv, NEW r \in Readers, Look(r), hazard[Asked(r)] # Sought(r), Asked(r) # LastThread
  PROVE  SafeInv' /\ Still(r)
<1>1. /\ r \in Threads /\ SafeInv' /\ Quiet(r) /\ Alone(r)
      /\ Moved(r, pc[r], At(Null)) /\ UNCHANGED (<<queue, history>>)
  BY ThreadIds, LookNextSafe, LookNextEffect DEF SafeInv
<1>2. SameSets /\ UNCHANGED <<read_pos, mem, pushed, popped>>
  BY <1>1, QuietSets DEF Quiet, SameSets, Look, queue, history
<1>3. Others(r)
  <2>1. \A s \in Readers : s # r => before'[s] = before[s]
    BY DEF Look, history, SafeInv, TypeInv
  <2> QED
    BY <1>1, <2>1, OthersSame
<1>4. pc[r] \notin {"get", "link"} /\ pc'[r] \notin {"set", "get", "link"}
  BY <1>1 DEF Moved, Look, Go
<1>6. write_pos' = write_pos
  BY <1>1 DEF Moved, Look, Go, queue, Swings, HeldW
<1>7. Looks(r)
  BY <1>1, AtNode, ThreadIds
  DEF Moved, Look, Go, Looks, Node, Root, SafeInv, TypeInv, KnowInv, ReaderKnows, LocalType, history
<1>8. Counts(r)
  BY <1>1, ThreadIds DEF Moved, Look, Go, Counts, Rest, SafeInv, TypeInv, Begin, history
<1> QED
  BY <1>1, <1>2, <1>3, <1>4, <1>6, <1>7, <1>8, ThreadIds DEF Still

\* Release changes no node.
LEMMA ReleaseStill ==
  ASSUME SafeInv, NEW r \in Readers, Release(r)
  PROVE  SafeInv' /\ Still(r)
<1>1. /\ r \in Threads /\ SafeInv' /\ Alone(r)
      /\ Moved(r, "retire", At(Null))
  BY ThreadIds, ReleaseSafe, ReleaseEffect DEF SafeInv
<1>2. SameSets /\ UNCHANGED <<read_pos, mem, pushed, popped>>
  BY <1>1, ReleaseSafe DEF SameSets, Release, queue, history
<1>3. Others(r)
  <2>1. \A s \in Readers : s # r => before'[s] = before[s]
    BY DEF Release, history, SafeInv, TypeInv
  <2> QED
    BY <1>1, <2>1, OthersSame
<1>4. pc[r] \notin {"get", "link"} /\ pc'[r] \notin {"set", "get", "link"}
  BY <1>1 DEF Moved, Release, Go
<1>6. write_pos' = write_pos
  BY <1>1 DEF Moved, Release, Go, queue, Swings, HeldW
<1>7. Looks(r)
  BY <1>1, AtNode, ThreadIds
  DEF Moved, Release, Go, Looks, Node, Root, SafeInv, TypeInv, KnowInv, ReaderKnows, LocalType,
      history
<1>8. Counts(r)
  BY <1>1, ThreadIds DEF Moved, Release, Go, Counts, Rest, SafeInv, TypeInv, Begin, history
<1> QED
  BY <1>1, <1>2, <1>3, <1>4, <1>6, <1>7, <1>8, ThreadIds DEF Still

-----------------------------------------------------------------------------
(* The other steps, by what they change.                                   *)

\* The types of what is in a node.
LEMMA Fields ==
  ASSUME SafeInv, NEW n \in Nodes
  PROVE  /\ mem[n].next \in Nodes \cup {Null} /\ mem[n].wpos \in Nat /\ mem[n].rpos \in Nat
         /\ \A i \in Slots : mem[n].data[i] \in Values \cup {Empty, Taken}
<1>1. mem[n] \in NodeType
  BY DEF SafeInv, TypeInv
<1> QED
  BY <1>1 DEF NodeType

\* Constants of a node, and what a null pointer is not.
LEMMA Places ==
  /\ Size \in Nat /\ Size > 0 /\ 0 \in Slots /\ Null \notin Nodes
  /\ \A i \in Slots : i \in Nat /\ i < Size
BY MpmcQueueAssumption DEF Slots

\* The types of what a thread remembers.
LEMMA LocalFields ==
  ASSUME SafeInv, NEW t \in Threads
  PROVE  local[t] \in LocalType /\ local[t].pos \in Nat
BY DEF SafeInv, TypeInv, LocalType

\* ClaimWrite: what the invariants of the writers' half need of it.
LEMMA ClaimWriteStep ==
  ASSUME SafeInv, NEW w \in Writers, ClaimWrite(w)
  PROVE  /\ SafeInv' /\ Others(w) /\ SameSets /\ pc[w] = "claim"
         /\ UNCHANGED <<write_pos, read_pos, calls, pushed, popped, before, older>>
         /\ Node(w) \in Nodes /\ Node(w)' = Node(w) /\ Arg(w)' = Arg(w) /\ WposGrown(Node(w))
         /\ IF Here(w).wpos < Size THEN pc'[w] = "set" /\ local'[w].pos = Here(w).wpos
                                   ELSE pc'[w] = "next"
<1>1. /\ w \in Threads /\ SafeInv' /\ Quiet(w) /\ Alone(w) /\ pc[w] = "claim"
      /\ Claims(w, Here(w).wpos, "set", "next") /\ Node(w) \in Nodes
      /\ Changed(Node(w), [Here(w) EXCEPT !.wpos = @ + 1])
  BY ThreadIds, ClaimWriteSafe, ClaimWriteEffect DEF SafeInv, ClaimWrite
<1>2. UNCHANGED <<write_pos, read_pos, live, calls, pushed, popped, before, older>>
  BY DEF ClaimWrite, history
<1>3. Others(w)
  BY <1>1, <1>2, OthersSame
<1>4. SameSets
  BY <1>1, <1>2, QuietSets DEF SameSets
<1>5. WposGrown(Node(w))
  <2>1. TypeInv /\ Changed(Node(w), [mem[Node(w)] EXCEPT !.wpos = @ + 1])
    BY <1>1 DEF SafeInv, Here
  <2> QED
    BY <1>1, <2>1, WposChanged
<1>6. local[w] \in LocalType
  BY <1>1, LocalFields
<1>7. /\ Node(w)' = Node(w)
      /\ IF Here(w).wpos < Size THEN pc'[w] = "set" /\ local'[w].pos = Here(w).wpos
                                ELSE pc'[w] = "next"
  BY <1>1, <1>6 DEF Claims, Moved, Node, LocalType
<1> QED
  BY <1>1, <1>2, <1>3, <1>4, <1>5, <1>7 DEF Arg

\* ClaimRead: what the invariants of the writers' half need of it.
LEMMA ClaimReadStep ==
  ASSUME SafeInv, NEW r \in Readers, ClaimRead(r)
  PROVE  /\ SafeInv' /\ Others(r) /\ SameSets /\ pc[r] = "take"
         /\ UNCHANGED <<write_pos, read_pos, calls, pushed, popped, before, older>>
         /\ Node(r) \in Nodes /\ Node(r)' = Node(r) /\ RposGrown(Node(r))
         /\ Node(r) \in live \ Private /\ (Node(r) \in Linked => Node(r) = read_pos)
         /\ IF Here(r).rpos < Size THEN pc'[r] = "get" /\ local'[r].pos = Here(r).rpos
                                   ELSE pc'[r] = "after"
<1>1. /\ r \in Threads /\ SafeInv' /\ Quiet(r) /\ Alone(r) /\ pc[r] = "take"
      /\ Claims(r, Here(r).rpos, "get", "after") /\ Node(r) \in Nodes
      /\ Changed(Node(r), [Here(r) EXCEPT !.rpos = @ + 1])
  BY ThreadIds, ClaimReadSafe, ClaimReadEffect DEF SafeInv, ClaimRead
<1>2. UNCHANGED <<write_pos, read_pos, live, calls, pushed, popped, before, older>>
  BY DEF ClaimRead, history
<1>3. Others(r)
  BY <1>1, <1>2, OthersSame
<1>4. SameSets
  BY <1>1, <1>2, QuietSets DEF SameSets
<1>5. RposGrown(Node(r))
  <2>1. TypeInv /\ Changed(Node(r), [mem[Node(r)] EXCEPT !.rpos = @ + 1])
    BY <1>1 DEF SafeInv, Here
  <2> QED
    BY <1>1, <2>1, RposChanged
<1>6. local[r] \in LocalType
  BY <1>1, LocalFields
<1>7. /\ Node(r)' = Node(r)
      /\ IF Here(r).rpos < Size THEN pc'[r] = "get" /\ local'[r].pos = Here(r).rpos
                                ELSE pc'[r] = "after"
  BY <1>1, <1>6 DEF Claims, Moved, Node, LocalType
<1>8. Node(r) \in live \ Private /\ (Node(r) \in Linked => Node(r) = read_pos)
  BY <1>1 DEF SafeInv, ReadInv, Protected, HeldR
<1> QED
  BY <1>1, <1>2, <1>3, <1>4, <1>5, <1>7, <1>8

\* SetValue into an empty slot: what the invariants of the writers' half need of it.
LEMMA SetValueDoneStep ==
  ASSUME SafeInv, NEW w \in Writers, SetValue(w), Slot(w) = Empty
  PROVE  /\ SafeInv' /\ Others(w) /\ SameSets /\ pc[w] = "set" /\ pc'[w] = "done"
         /\ UNCHANGED <<write_pos, read_pos, calls, popped, before, older>>
         /\ pushed' = pushed \cup {Arg(w)} /\ Arg(w) \in Values
         /\ Node(w) \in Nodes /\ local[w].pos \in Slots /\ calls[w] \in 1 .. Calls
         /\ mem[Node(w)].data[local[w].pos] = Empty
         /\ SlotSet(Node(w), local[w].pos, Arg(w))
<1>1. /\ w \in Threads /\ SafeInv' /\ Quiet(w) /\ Alone(w) /\ pc[w] = "set"
      /\ Moved(w, "done", At(Null)) /\ Node(w) \in Nodes /\ local[w].pos \in Slots
      /\ Arg(w) \in Values /\ pushed' = pushed \cup {Arg(w)}
      /\ Changed(Node(w), [Here(w) EXCEPT !.data[local[w].pos] = Arg(w)])
  BY ThreadIds, SetValueDoneSafe, SetValueDoneEffect DEF SafeInv, SetValue
<1>2. UNCHANGED <<write_pos, read_pos, live, calls, popped, before, older>>
  BY DEF SetValue
<1>3. Others(w)
  BY <1>1, <1>2, OthersSame
<1>4. SameSets
  BY <1>1, <1>2, QuietSets DEF SameSets
<1>a. \A m \in Nodes \ {Node(w)} : mem'[m] = mem[m]
  BY <1>1 DEF Changed
<1>5. SlotSet(Node(w), local[w].pos, Arg(w))
  <2>1. TypeInv /\ Changed(Node(w), [mem[Node(w)] EXCEPT !.data[local[w].pos] = Arg(w)])
    BY <1>1 DEF SafeInv, Here
  <2> QED
    BY <1>1, <2>1, DataChanged
<1>6. calls[w] \in 1 .. Calls
  BY <1>1, MpmcQueueAssumption DEF SafeInv, TypeInv, KnowInv, WriterKnows
<1> QED
  BY <1>1, <1>2, <1>3, <1>4, <1>5, <1>6 DEF Moved, Slot, Here

\* GetValue: what the invariants of the writers' half need of it.
LEMMA GetValueStep ==
  ASSUME SafeInv, NEW r \in Readers, GetValue(r)
  PROVE  /\ SafeInv' /\ Others(r) /\ SameSets /\ pc[r] = "get" /\ pc'[r] \in {"done", "protect"}
         /\ UNCHANGED <<write_pos, read_pos, calls, pushed, before, older>>
         /\ Node(r) \in Nodes /\ local[r].pos \in Slots /\ Node(r) \in live \ Private
         /\ Slot(r) = mem[Node(r)].data[local[r].pos]
         /\ popped' = IF Slot(r) \in Values THEN popped \cup {Slot(r)} ELSE popped
         /\ SlotSet(Node(r), local[r].pos, Taken)
<1>1. /\ r \in Threads /\ SafeInv' /\ Quiet(r) /\ Alone(r) /\ pc[r] = "get"
      /\ Moved(r, IF Slot(r) \in Values THEN "done" ELSE "protect", At(Null))
      /\ Node(r) \in Nodes /\ local[r].pos \in Slots
      /\ Changed(Node(r), [Here(r) EXCEPT !.data[local[r].pos] = Taken])
  BY ThreadIds, GetValueSafe, GetValueEffect DEF SafeInv, GetValue
<1>2. /\ UNCHANGED <<write_pos, read_pos, live, calls, pushed, before, older>>
      /\ popped' = IF Slot(r) \in Values THEN popped \cup {Slot(r)} ELSE popped
  BY DEF GetValue
<1>3. Others(r)
  BY <1>1, <1>2, OthersSame
<1>4. SameSets
  BY <1>1, <1>2, QuietSets DEF SameSets
<1>a. \A m \in Nodes \ {Node(r)} : mem'[m] = mem[m]
  BY <1>1 DEF Changed
<1>5. SlotSet(Node(r), local[r].pos, Taken)
  <2>1. TypeInv /\ Changed(Node(r), [mem[Node(r)] EXCEPT !.data[local[r].pos] = Taken])
    BY <1>1 DEF SafeInv, Here
  <2> QED
    BY <1>1, <2>1, DataChanged
<1>6. Node(r) \in live \ Private
  BY <1>1 DEF SafeInv, ReadInv, Protected, HeldR
<1> QED
  BY <1>1, <1>2, <1>3, <1>4, <1>5, <1>6 DEF Moved, Slot, Here

\* NextNode that makes a node: what the invariants of the writers' half need of it.
LEMMA MakesStep ==
  ASSUME SafeInv, NEW w \in Writers, NEW n \in Nodes \ live, Makes(w, n)
  PROVE  /\ SafeInv' /\ Others(w) /\ pc[w] = "next" /\ pc'[w] = "link"
         /\ Private' = Private \cup {n} /\ Gone' = Gone /\ Linked' = Linked /\ live' = live \cup {n}
         /\ UNCHANGED <<write_pos, read_pos, calls, pushed, popped, before, older>>
         /\ Node(w) \in Nodes /\ Node(w)' = Node(w) /\ local'[w].target = n
         /\ Arg(w) \in Values /\ Arg(w)' = Arg(w) /\ calls[w] \in 1 .. Calls
         /\ Changed(n, [mem[n] EXCEPT !.wpos = 1, !.data[0] = Arg(w)]) /\ Made(n, Arg(w))
<1>1. /\ w \in Threads /\ SafeInv' /\ Alone(w) /\ pc[w] = "next"
      /\ Private' = Private \cup {n} /\ Gone' = Gone /\ Linked' = Linked /\ live' = live \cup {n}
      /\ Moved(w, "link", [local[w] EXCEPT !.target = n])
      /\ Node(w) \in Nodes /\ Arg(w) \in Values
      /\ Changed(n, [mem[n] EXCEPT !.wpos = 1, !.data[0] = Arg(w)])
  BY ThreadIds, MakesSafe, MakesEffect DEF SafeInv, Makes
<1>2. UNCHANGED <<write_pos, read_pos, calls, pushed, popped, before, older>>
  BY DEF Makes, history
<1>3. Others(w)
  BY <1>1, <1>2, OthersSame
<1>4. local[w] \in LocalType
  BY <1>1, LocalFields
<1>5. pc'[w] = "link" /\ local'[w].target = n /\ Node(w)' = Node(w)
  BY <1>1, <1>4 DEF Moved, Node, LocalType
<1>6. calls[w] \in 1 .. Calls
  BY <1>1, MpmcQueueAssumption DEF SafeInv, TypeInv, KnowInv, WriterKnows
<1>7. Made(n, Arg(w))
  <2>1. TypeInv /\ n \in Nodes
    BY DEF SafeInv
  <2> QED
    BY <1>1, <2>1, MadeChanged
<1> QED
  BY <1>1, <1>2, <1>3, <1>5, <1>6, <1>7 DEF Arg

\* Link of a last node: what the invariants of the writers' half need of it.
LEMMA LinkDoneStep ==
  ASSUME SafeInv, NEW w \in Writers, Link(w), Here(w).next = Null
  PROVE  /\ SafeInv' /\ Others(w) /\ pc[w] = "link" /\ pc'[w] = "finish"
         /\ local[w].target \in Private /\ local[w].target \in Nodes
         /\ Private' = Private \ {local[w].target} /\ Gone' = Gone
         /\ Linked' = Linked \cup {local[w].target} /\ live' = live
         /\ UNCHANGED <<write_pos, read_pos, calls, popped, before, older>>
         /\ pushed' = pushed \cup {Arg(w)} /\ Arg(w) \in Values /\ calls[w] \in 1 .. Calls
         /\ Node(w) \in Nodes /\ local'[w] = local[w] /\ Node(w)' = Node(w) /\ Arg(w)' = Arg(w)
         /\ NextSet(Node(w), local[w].target)
<1>1. /\ w \in Threads /\ SafeInv' /\ Alone(w) /\ pc[w] = "link"
      /\ Private' = Private \ {local[w].target} /\ Gone' = Gone /\ local[w].target \in Private
      /\ Linked' = Linked \cup {local[w].target} /\ live' = live
      /\ Moved(w, "finish", local[w]) /\ local[w].target \in Nodes
      /\ Node(w) \in Nodes /\ Arg(w) \in Values /\ pushed' = pushed \cup {Arg(w)}
      /\ Changed(Node(w), [Here(w) EXCEPT !.next = local[w].target])
  BY ThreadIds, LinkDoneSafe, LinkDoneEffect DEF SafeInv, Link
<1>2. UNCHANGED <<write_pos, read_pos, calls, popped, before, older>>
  BY DEF Link
<1>3. Others(w)
  BY <1>1, <1>2, OthersSame
<1>4. NextSet(Node(w), local[w].target)
  <2>1. TypeInv /\ Changed(Node(w), [mem[Node(w)] EXCEPT !.next = local[w].target])
    BY <1>1 DEF SafeInv, Here
  <2> QED
    BY <1>1, <2>1, NextChanged
<1>5. calls[w] \in 1 .. Calls
  BY <1>1, MpmcQueueAssumption DEF SafeInv, TypeInv, KnowInv, WriterKnows
<1> QED
  BY <1>1, <1>2, <1>3, <1>4, <1>5 DEF Moved, Node, Arg

\* Link where another writer was first: what the invariants of the writers' half need of it.
LEMMA LinkLostStep ==
  ASSUME SafeInv, NEW w \in Writers, Link(w), Here(w).next # Null
  PROVE  /\ SafeInv' /\ Others(w) /\ pc[w] = "link" /\ pc'[w] = "protect"
         /\ local[w].target \in Private /\ local[w].target \in Nodes
         /\ Private' = Private \ {local[w].target} /\ Gone' = Gone
         /\ Linked' = Linked /\ live' = live \ {local[w].target}
         /\ UNCHANGED <<write_pos, read_pos, calls, pushed, popped, before, older>>
         /\ Changed(local[w].target, Blank)
<1>1. /\ w \in Threads /\ SafeInv' /\ Alone(w) /\ pc[w] = "link"
      /\ Private' = Private \ {local[w].target} /\ Gone' = Gone /\ local[w].target \in Private
      /\ Linked' = Linked /\ live' = live \ {local[w].target} /\ pushed' = pushed
      /\ Moved(w, "protect", At(Null)) /\ local[w].target \in Nodes
      /\ Changed(local[w].target, Blank)
  BY ThreadIds, LinkLostSafe, LinkLostEffect DEF SafeInv, Link
<1>2. UNCHANGED <<write_pos, read_pos, calls, popped, before, older>>
  BY DEF Link
<1>3. Others(w)
  BY <1>1, <1>2, OthersSame
<1> QED
  BY <1>1, <1>2, <1>3 DEF Moved

\* Advance that moves read_pos_: what the invariants of the writers' half need of it.
LEMMA AdvanceDoneStep ==
  ASSUME SafeInv, NEW r \in Readers, Advance(r), read_pos = Node(r)
  PROVE  /\ SafeInv' /\ Others(r) /\ pc[r] = "advance" /\ pc'[r] = "release"
         /\ Private' = Private /\ Gone' = Gone \cup {read_pos} /\ Linked' = Linked \ {read_pos}
         /\ UNCHANGED <<write_pos, mem, live, calls, pushed, popped, before, older>>
         /\ read_pos' = mem[read_pos].next /\ read_pos' \in Linked \ {read_pos}
         /\ read_pos \in Linked
<1>1. /\ r \in Threads /\ SafeInv' /\ pc[r] = "advance" /\ read_pos \in Linked
      /\ Private' = Private /\ Gone' = Gone \cup {read_pos} /\ Linked' = Linked \ {read_pos}
      /\ read_pos' = mem[read_pos].next /\ read_pos' \in Linked \ {read_pos}
  BY ThreadIds, AdvanceDoneSafe DEF SafeInv, Advance, LinkInv
<1>2. UNCHANGED <<write_pos, mem, live, calls, pushed, popped, before, older>>
  BY DEF Advance, history
<1>3. local[r].target # Null
  BY <1>1 DEF SafeInv, ReadInv, Protected, HeldR
<1>4. Alone(r) /\ Moved(r, "release", At(Node(r)))
  BY <1>3, AdvanceDoneEffect DEF SafeInv
<1>5. Others(r)
  BY <1>1, <1>2, <1>4, OthersSame
<1> QED
  BY <1>1, <1>2, <1>4, <1>5 DEF Moved

\* Look at the last of the pointers: what the invariants of the writers' half need of it.
LEMMA LookFreeStep ==
  ASSUME SafeInv, NEW r \in Readers, Look(r), hazard[Asked(r)] # Sought(r), Asked(r) = LastThread
  PROVE  /\ SafeInv' /\ Others(r)
         /\ pc[r] \in {"retire", "gc"} /\ pc'[r] \in {"retire", "gc", "idle", "protect"}
         /\ Sought(r) \in Nodes /\ Sought(r) \in live /\ Sought(r) \in Gone /\ Sought(r) \notin Private
         /\ Private' = Private /\ Gone' = Gone \ {Sought(r)} /\ Linked' = Linked
         /\ live' = live \ {Sought(r)}
         /\ UNCHANGED <<write_pos, read_pos, calls, pushed, popped, before, older>>
         /\ Changed(Sought(r), Blank)
         /\ \A s \in Readers : pc[s] \in HeldR => Node(s) # Sought(r)
<1>1. /\ r \in Threads /\ SafeInv' /\ Sought(r) \in live /\ Sought(r) \in Gone
      /\ Sought(r) \notin Private
      /\ Private' = Private /\ Gone' = Gone \ {Sought(r)} /\ Linked' = Linked
      /\ live' = live \ {Sought(r)}
  BY ThreadIds, LookFreeSafe, LookFreeSets DEF SafeInv, Gone
<1>2. /\ Alone(r) /\ Moved(r, LookEnd(r), At(Null)) /\ Sought(r) \in Nodes
      /\ Changed(Sought(r), Blank) /\ pc[r] \in {"retire", "gc"}
  BY LookFreeEffect, LookType DEF SafeInv
<1>3. UNCHANGED <<write_pos, read_pos, calls, pushed, popped, before, older>>
  BY DEF Look, history
<1>4. Others(r)
  BY <1>1, <1>2, <1>3, OthersSame
<1>5. pc'[r] \in {"retire", "gc", "idle", "protect"}
  BY <1>2 DEF Moved, LookEnd
<1>6. \A s \in Readers : pc[s] \in HeldR => Node(s) # Sought(r)
  BY LookFreeUnused
<1> QED
  BY <1>1, <1>2, <1>3, <1>4, <1>5, <1>6

\* Every step is one of these.
LEMMA StepCases ==
  ASSUME SafeInv, [Next]_vars
  PROVE  \/ \E t \in Threads : Still(t)
         \/ \E w \in Writers : ClaimWrite(w)
         \/ \E w \in Writers : SetValue(w) /\ Slot(w) = Empty
         \/ \E w \in Writers : \E n \in Nodes \ live : Makes(w, n)
         \/ \E w \in Writers : Link(w) /\ Here(w).next = Null
         \/ \E w \in Writers : Link(w) /\ Here(w).next # Null
         \/ \E r \in Readers : ClaimRead(r)
         \/ \E r \in Readers : GetValue(r)
         \/ \E r \in Readers : Advance(r) /\ read_pos = Node(r)
         \/ \E r \in Readers : Look(r) /\ hazard[Asked(r)] # Sought(r) /\ Asked(r) = LastThread
         \/ UNCHANGED vars
<1>1. Writers \subseteq Threads /\ Readers \subseteq Threads
  BY ThreadIds
<1>2. ASSUME NEW t \in Threads, Protect(t) \/ Announce(t) \/ Recheck(t) \/ Clear(t)
      PROVE  Still(t)
  BY <1>2, ProtectStill, AnnounceStill, RecheckStill, ClearStill
<1>3. ASSUME NEW w \in Writers, Push(w) \/ Swing(w)
      PROVE  Still(w)
  BY <1>3, PushStill, SwingStill
<1>4. ASSUME NEW w \in Writers, SetValue(w), Slot(w) # Empty
      PROVE  Still(w)
  BY <1>4, SetValueLostStill
<1>5. ASSUME NEW w \in Writers, NextNode(w)
      PROVE  Still(w) \/ \E n \in Nodes \ live : Makes(w, n)
  BY <1>5, NextNodeFoundStill, NextNodeCases
<1>6. ASSUME NEW r \in Readers,
             TryPop(r) \/ ReadWritePos(r) \/ Compare(r) \/ LastNode(r) \/ After(r)
      PROVE  Still(r)
  BY <1>6, TryPopStill, ReadWritePosStill, CompareStill, LastNodeStill, AfterStill
<1>7. ASSUME NEW r \in Readers, Release(r) \/ Gc(r)
      PROVE  Still(r)
  BY <1>7, ReleaseStill, GcStill
<1>8. ASSUME NEW r \in Readers, Advance(r), read_pos # Node(r)
      PROVE  Still(r)
  BY <1>8, AdvanceLostStill
<1>9. ASSUME NEW r \in Readers, Look(r), hazard[Asked(r)] = Sought(r) \/ Asked(r) # LastThread
      PROVE  Still(r)
  BY <1>9, LookKeepStill, LookNextStill
<1> QED
  BY <1>1, <1>2, <1>3, <1>4, <1>5, <1>6, <1>7, <1>8, <1>9 DEF Next

\* A stuttering step moves no thread and no set of nodes.
LEMMA Unmoved ==
  ASSUME UNCHANGED vars
  PROVE  /\ UNCHANGED <<write_pos, read_pos, mem, live, hazard, retired, pc, local, at, calls,
                        pushed, popped, before, older>>
         /\ SameSets /\ (\A w \in Writers : SameWriter(w)) /\ \A r \in Readers : SameReader(r)
<1>1. UNCHANGED <<write_pos, read_pos, mem, live, hazard, retired, pc, local, at, calls,
                  pushed, popped, before, older>>
  BY DEF vars, queue, history
<1>2. Retired' = Retired /\ Unlinked' = Unlinked /\ Private' = Private
  BY <1>1 DEF Retired, Unlinked, Private, Node
<1>3. Gone' = Gone /\ Linked' = Linked
  BY <1>1, <1>2 DEF Gone, Linked
<1> QED
  BY <1>1, <1>2, <1>3 DEF SameSets, SameWriter, SameReader, Node, Arg

-----------------------------------------------------------------------------
(* The chain, and where the writers are on it.                             *)

\* No writer is in a deleted node.
LEMMA DefinedAlive ==
  ASSUME Defined
  PROVE  write_pos \in live /\ \A w \in Writers : pc[w] \in HeldW => Node(w) \in live
BY DEF Defined, InNode, HeldW

\* The sets of nodes, and what is in them.
LEMMA SetFacts ==
  ASSUME SafeInv
  PROVE  /\ Gone \subseteq live /\ Private \subseteq live /\ live \subseteq Nodes
         /\ Linked \subseteq live /\ Linked \cap Gone = {} /\ Linked \cap Private = {}
         /\ write_pos \in Nodes /\ read_pos \in Linked /\ Null \notin Nodes
         /\ \A n \in Linked : mem[n].next # Null => mem[n].next \in Linked \ {read_pos}
         /\ \A n \in Gone : mem[n].next # Null
         /\ \A n \in Nodes : n \in live /\ n \notin Private /\ mem[n].next = Null => n \in Linked
<1>1. Gone \subseteq live /\ Private \subseteq live /\ live \subseteq Nodes
  BY OwnedAlive DEF SafeInv
<1>2. Linked \subseteq live /\ Linked \cap Gone = {} /\ Linked \cap Private = {}
  BY DEF Linked
<1>3. write_pos \in Nodes /\ read_pos \in Linked
  BY DEF SafeInv, TypeInv, LinkInv
<1>4. \A n \in Gone : mem[n].next # Null
  BY DEF SafeInv, LinkInv
<1>5. \A n \in Linked : mem[n].next # Null => mem[n].next \in Linked \ {read_pos}
  BY <1>1, <1>2 DEF SafeInv, LinkInv
<1>6. \A n \in Nodes : n \in live /\ n \notin Private /\ mem[n].next = Null => n \in Linked
  BY <1>4 DEF Linked
<1> QED
  BY <1>1, <1>2, <1>3, <1>4, <1>5, <1>6, MpmcQueueAssumption

\* A writer's target is its own while it is to be linked.
LEMMA Targets ==
  ASSUME SafeInv, NEW w \in Writers
  PROVE  /\ pc[w] \in {"link", "swing", "finish"} => local[w].target \in Nodes
         /\ pc[w] = "link" => local[w].target \in Private
         /\ pc[w] \in HeldW => Node(w) \in Nodes
         /\ \A x \in Writers : pc[w] = "link" /\ pc[x] = "link" /\ local[w].target = local[x].target
              => x = w
BY DEF SafeInv, KnowInv, WriterKnows, OwnInv, Private

\* A step that changes no node keeps the end of the chain.
LEMMA StillTail ==
  ASSUME SafeInv, TailInv, Defined, NEW t \in Threads, Still(t)
  PROVE  TailInv'
<1>1. /\ (\A w \in Writers : w # t => SameWriter(w)) /\ mem' = mem /\ live' = live
      /\ Private' = Private /\ Linked' = Linked
      /\ (write_pos' = write_pos \/ Swings(t))
  BY DEF Still, Others, SameSets
<1>2. \A w \in Writers : WriterAt(w)
  BY DEF TailInv
<1>3. t \in Writers /\ pc[t] \in HeldW => Node(t) \in live
  BY DefinedAlive
<1>4. CASE write_pos' = write_pos
  <2>1. Last' = Last
    BY <1>1, <1>4 DEF Last
  <2>2. Last # Null => write_pos # Last
    BY DEF TailInv, Last
  <2>3. ASSUME NEW w \in Writers, w # t PROVE WriterAt(w)'
    BY <1>1, <1>2, <2>1, <2>3 DEF SameWriter, WriterAt, Here
  <2>4. ASSUME t \in Writers PROVE WriterAt(t)'
    <3>1. pc'[t] \in HeldW => Enters(t)
      BY <2>4 DEF Still
    <3>2. CASE pc'[t] = "claim" /\ Node(t)' = write_pos
      BY <1>1, <2>1, <2>2, <3>2 DEF WriterAt, TailInv
    <3>3. CASE pc'[t] = "swing" /\ pc[t] = "next" /\ Node(t)' = Node(t) /\ local'[t].target = Here(t).next
      BY <1>1, <1>2, <2>1, <2>4, <3>3 DEF WriterAt, Here, HeldW
    <3>4. CASE pc'[t] \notin HeldW
      BY <3>4 DEF WriterAt, HeldW
    <3> QED
      BY <3>1, <3>2, <3>3, <3>4 DEF Enters
  <2> QED
    BY <1>1, <1>4, <2>1, <2>3, <2>4 DEF TailInv
<1>5. CASE write_pos' # write_pos
  <2>1. /\ t \in Writers /\ pc[t] \in {"swing", "finish"} /\ Node(t) = write_pos
        /\ write_pos' = local[t].target /\ pc'[t] \notin HeldW
    BY <1>5 DEF Still, Swings
  <2>2. local[t].target = Last
    BY <1>2, <1>3, <2>1 DEF WriterAt, Last, Here, HeldW
  <2>3. Last # Null
    BY <2>1, <2>2, Targets, SetFacts
  <2>4. write_pos' = Last /\ Last \in Linked /\ mem[Last].next = Null
    BY <2>1, <2>2, <2>3 DEF TailInv
  <2>5. Last' = Null
    BY <1>1, <2>4 DEF Last
  <2>6. ASSUME NEW w \in Writers, w # t PROVE WriterAt(w)'
    BY <1>1, <1>2, <2>5, <2>6 DEF SameWriter, WriterAt, Here
  <2>7. WriterAt(t)'
    BY <2>1 DEF WriterAt, HeldW
  <2> QED
    BY <1>1, <2>4, <2>5, <2>6, <2>7, SetFacts DEF TailInv
<1> QED
  BY <1>4, <1>5

\* A step that changes no link, nor where another writer is.
LEMMA SameTail ==
  ASSUME SafeInv, TailInv, SameSets, write_pos' = write_pos,
         \A n \in Nodes : mem'[n].next = mem[n].next,
         \A w \in Writers : \/ SameWriter(w)
                            \/ pc'[w] \notin HeldW
                            \/ /\ pc[w] \in HeldW /\ Node(w)' = Node(w)
                               /\ pc'[w] \notin {"swing", "finish"}
  PROVE  TailInv'
<1>1. Last' = Last
  BY SetFacts DEF Last
<1>2. ASSUME NEW w \in Writers PROVE WriterAt(w)'
  <2>1. WriterAt(w) /\ (pc[w] \in HeldW => Node(w) \in Nodes)
    BY Targets DEF TailInv
  <2>2. CASE SameWriter(w)
    BY <1>1, <2>1, <2>2 DEF WriterAt, SameWriter, SameSets, Here, HeldW
  <2>3. CASE pc'[w] \notin HeldW
    BY <2>3 DEF WriterAt, HeldW
  <2>4. CASE pc[w] \in HeldW /\ Node(w)' = Node(w) /\ pc'[w] \notin {"swing", "finish"}
    BY <1>1, <2>1, <2>4 DEF WriterAt, SameSets
  <2> QED
    BY <2>2, <2>3, <2>4
<1>3. Last # Null => Last \in Linked /\ mem'[Last].next = Null
  BY SetFacts DEF TailInv
<1> QED
  BY <1>1, <1>2, <1>3 DEF TailInv, SameSets

\* NextNode that makes a node keeps the end of the chain.
LEMMA MakesTail ==
  ASSUME SafeInv, TailInv, Defined, NEW w \in Writers, NEW n \in Nodes \ live, Makes(w, n)
  PROVE  TailInv'
<1>1. /\ Others(w) /\ pc[w] = "next" /\ pc'[w] = "link"
      /\ Private' = Private \cup {n} /\ Linked' = Linked /\ live' = live \cup {n}
      /\ write_pos' = write_pos /\ Node(w)' = Node(w)
      /\ \A m \in Nodes : mem'[m].next = mem[m].next
  <2>1. Made(n, Arg(w))
    BY MakesStep
  <2> QED
    BY <2>1, MakesStep DEF Made
<1>2. write_pos \in live /\ \A x \in Writers : pc[x] \in HeldW => Node(x) \in live
  BY DefinedAlive
<1>3. Last' = Last
  BY <1>1, SetFacts DEF Last
<1>4. ASSUME NEW x \in Writers PROVE WriterAt(x)'
  <2>1. WriterAt(x)
    BY DEF TailInv
  <2>2. CASE x = w
    BY <1>1, <1>2, <1>3, <2>1, <2>2 DEF WriterAt, HeldW
  <2>3. CASE x # w
    <3>1. SameWriter(x) /\ (pc[x] \in HeldW => Node(x) \in Nodes)
      BY <1>1, <2>3, Targets DEF Others
    <3> QED
      BY <1>1, <1>2, <1>3, <2>1, <3>1 DEF WriterAt, SameWriter, Here, HeldW
  <2> QED
    BY <2>2, <2>3
<1>5. Last # Null => Last \in Linked /\ mem'[Last].next = Null
  BY <1>1, SetFacts DEF TailInv
<1> QED
  BY <1>1, <1>2, <1>3, <1>4, <1>5 DEF TailInv

\* Link of a last node keeps the end of the chain.
LEMMA LinkDoneTail ==
  ASSUME SafeInv, TailInv, BlankInv, Defined, NEW w \in Writers, Link(w), Here(w).next = Null
  PROVE  TailInv' /\ Node(w) \in Linked
<1> DEFINE p == local[w].target
<1>1. /\ Others(w) /\ pc[w] = "link" /\ pc'[w] = "finish"
      /\ p \in Private /\ p \in Nodes
      /\ Private' = Private \ {p} /\ Linked' = Linked \cup {p} /\ live' = live
      /\ write_pos' = write_pos /\ Node(w) \in Nodes /\ local'[w] = local[w] /\ Node(w)' = Node(w)
      /\ mem'[Node(w)].next = p
      /\ \A m \in Nodes : m # Node(w) => mem'[m].next = mem[m].next
  BY LinkDoneStep DEF NextSet
<1>2. write_pos \in live /\ \A x \in Writers : pc[x] \in HeldW => Node(x) \in live
  BY DefinedAlive
<1>3. \A x \in Writers : WriterAt(x)
  BY DEF TailInv
<1>4. Node(w) \notin Private /\ (Last # Null => Node(w) # Last)
  BY <1>1, <1>3 DEF WriterAt, HeldW
<1>5. Node(w) \in Linked
  BY <1>1, <1>2, <1>4, SetFacts DEF Here, HeldW
<1>6. p # Node(w) /\ mem[p].next = Null
  <2>1. mem[p] = Fresh(Arg(w))
    BY <1>1 DEF BlankInv
  <2> QED
    BY <1>1, <1>4, <2>1 DEF Fresh, Blank
<1>7. mem'[p].next = Null
  BY <1>1, <1>6
<1>8. Last' = IF write_pos = Node(w) THEN p ELSE Last
  BY <1>1, SetFacts DEF Last
<1>9. Last' # Null => Last' \in Linked' /\ mem'[Last'].next = Null
  <2>1. CASE write_pos = Node(w)
    BY <1>1, <1>7, <1>8, <2>1
  <2>2. CASE write_pos # Node(w)
    <3>1. Last # Null => Last \in Linked /\ mem[Last].next = Null /\ Last # Node(w)
      BY <1>4 DEF TailInv
    <3> QED
      BY <1>1, <1>8, <2>2, <3>1, SetFacts
  <2> QED
    BY <2>1, <2>2
<1>10. ASSUME NEW x \in Writers PROVE WriterAt(x)'
  <2>1. WriterAt(x) /\ (pc[x] \in HeldW => Node(x) \in Nodes)
    BY <1>3, Targets
  <2>2. CASE x = w
    <3>1. Node(w) \notin Private' /\ (Last' # Null => Node(w) # Last')
      BY <1>1, <1>4, <1>6, <1>8
    <3> QED
      BY <1>1, <2>2, <3>1 DEF WriterAt, Here
  <2>3. CASE x # w
    <3>1. SameWriter(x)
      BY <1>1, <2>3 DEF Others
    <3>2. pc[x] \in HeldW => Node(x) \notin Private' /\ (Last' # Null => Node(x) # Last')
      BY <1>1, <1>8, <2>1 DEF WriterAt
    <3>3. pc[x] \in {"swing", "finish"} /\ Node(x) \in live => Node(x) # Node(w)
      BY <2>1, Targets, SetFacts DEF WriterAt, Here
    <3> QED
      BY <1>1, <2>1, <3>1, <3>2, <3>3 DEF WriterAt, SameWriter, Here, HeldW
  <2> QED
    BY <2>2, <2>3
<1>11. write_pos' \notin Private'
  BY <1>1 DEF TailInv
<1> QED
  BY <1>5, <1>9, <1>10, <1>11 DEF TailInv

\* A step by which a node is deleted that is not linked, and in which no writer
\* has anything more to do.
LEMMA DeletedTail ==
  ASSUME SafeInv, TailInv, NEW p \in Nodes, Changed(p, Blank), p \notin Linked,
         Linked' = Linked, Private' \subseteq Private, live' = live \ {p}, write_pos' = write_pos,
         \A w \in Writers : SameWriter(w) \/ pc'[w] \notin HeldW
  PROVE  TailInv'
<1>1. mem'[p].next = Null /\ \A n \in Nodes \ {p} : mem'[n] = mem[n]
  BY BlankNode DEF Changed
<1>2. Last' = IF write_pos = p THEN Null ELSE Last
  BY <1>1, SetFacts DEF Last
<1>3. ASSUME NEW w \in Writers PROVE WriterAt(w)'
  <2>1. WriterAt(w) /\ (pc[w] \in HeldW => Node(w) \in Nodes)
    BY Targets DEF TailInv
  <2>2. CASE pc'[w] \notin HeldW
    BY <2>2 DEF WriterAt, HeldW
  <2>3. CASE SameWriter(w)
    <3>1. pc[w] \in HeldW => Node(w) \notin Private' /\ (Last' # Null => Node(w) # Last')
      BY <1>2, <2>1 DEF WriterAt
    <3>2. pc[w] \in {"swing", "finish"} /\ Node(w) \in live' => local[w].target = mem'[Node(w)].next
      BY <1>1, <2>1 DEF WriterAt, Here, HeldW
    <3> QED
      BY <2>3, <3>1, <3>2 DEF WriterAt, SameWriter, Here
  <2> QED
    BY <2>2, <2>3
<1>4. Last' # Null => Last' \in Linked' /\ mem'[Last'].next = Null
  BY <1>1, <1>2, SetFacts DEF TailInv
<1> QED
  BY <1>3, <1>4 DEF TailInv

\* Advance that moves read_pos_ keeps the end of the chain.
LEMMA AdvanceDoneTail ==
  ASSUME SafeInv, TailInv, NEW r \in Readers, Advance(r), read_pos = Node(r)
  PROVE  TailInv'
<1>1. /\ Others(r) /\ Private' = Private /\ Linked' = Linked \ {read_pos}
      /\ UNCHANGED <<write_pos, mem, live>> /\ mem[read_pos].next \in Linked
  BY AdvanceDoneStep
<1>2. Last' = Last
  BY <1>1 DEF Last
<1>3. ASSUME NEW w \in Writers PROVE WriterAt(w)'
  <2>1. WriterAt(w) /\ SameWriter(w)
    BY <1>1, ThreadIds DEF TailInv, Others
  <2> QED
    BY <1>1, <1>2, <2>1 DEF WriterAt, SameWriter, Here
<1>4. Last # Null => Last # read_pos
  BY <1>1, SetFacts DEF TailInv
<1> QED
  BY <1>1, <1>2, <1>3, <1>4 DEF TailInv

\* Only a node that is neither somebody's own nor deleted is written to.
LEMMA SameBlank ==
  ASSUME SafeInv, BlankInv, live' = live, NEW n \in Nodes, n \in live, n \notin Private,
         \A m \in Nodes \ {n} : mem'[m] = mem[m],
         \A w \in Writers : SameWriter(w) \/ pc'[w] # "link"
  PROVE  BlankInv'
<1>1. ASSUME NEW w \in Writers, pc'[w] = "link"
      PROVE  mem'[local'[w].target] = Fresh(Arg(w)')
  <2>1. SameWriter(w) /\ pc[w] = "link"
    BY <1>1 DEF SameWriter
  <2>2. local[w].target \in Private /\ local[w].target \in Nodes
    BY <2>1, Targets
  <2> QED
    BY <2>1, <2>2 DEF BlankInv, SameWriter
<1>2. \A m \in Nodes \ live' : mem'[m] = Blank
  BY DEF BlankInv
<1> QED
  BY <1>1, <1>2 DEF BlankInv, Arg

\* NextNode that makes a node keeps new nodes as they were made.
LEMMA MakesBlank ==
  ASSUME SafeInv, BlankInv, NEW w \in Writers, NEW n \in Nodes \ live, Makes(w, n)
  PROVE  BlankInv'
<1>1. /\ Others(w) /\ pc'[w] = "link" /\ live' = live \cup {n} /\ local'[w].target = n
      /\ Arg(w)' = Arg(w) /\ Changed(n, [mem[n] EXCEPT !.wpos = 1, !.data[0] = Arg(w)])
  BY MakesStep
<1>2. mem'[n] = Fresh(Arg(w))
  BY <1>1 DEF Changed, BlankInv, Fresh
<1>3. ASSUME NEW x \in Writers, pc'[x] = "link"
      PROVE  mem'[local'[x].target] = Fresh(Arg(x)')
  <2>1. CASE x = w
    BY <1>1, <1>2, <2>1
  <2>2. CASE x # w
    <3>1. SameWriter(x) /\ pc[x] = "link"
      BY <1>1, <1>3, <2>2 DEF Others, SameWriter
    <3>2. local[x].target \in Nodes /\ local[x].target # n
      BY <3>1, Targets, SetFacts
    <3> QED
      BY <1>1, <3>1, <3>2 DEF BlankInv, SameWriter, Changed
  <2> QED
    BY <2>1, <2>2
<1>4. \A m \in Nodes \ live' : mem'[m] = Blank
  BY <1>1 DEF BlankInv, Changed
<1> QED
  BY <1>3, <1>4 DEF BlankInv, Arg

\* A deleted node is blank.
LEMMA DeletedBlank ==
  ASSUME SafeInv, BlankInv, NEW p \in Nodes, Changed(p, Blank), live' = live \ {p},
         \A w \in Writers : pc'[w] = "link" => SameWriter(w) /\ local[w].target # p
  PROVE  BlankInv'
<1>1. ASSUME NEW w \in Writers, pc'[w] = "link"
      PROVE  mem'[local'[w].target] = Fresh(Arg(w)')
  <2>1. SameWriter(w) /\ pc[w] = "link" /\ local[w].target # p
    BY <1>1 DEF SameWriter
  <2>2. local[w].target \in Nodes
    BY <2>1, Targets
  <2> QED
    BY <2>1, <2>2 DEF BlankInv, SameWriter, Changed
<1>2. \A m \in Nodes \ live' : mem'[m] = Blank
  BY DEF BlankInv, Changed
<1> QED
  BY <1>1, <1>2 DEF BlankInv, Arg

\* A step that changes no node keeps new nodes as they were made.
LEMMA UnchangedBlank ==
  ASSUME SafeInv, BlankInv, live' = live, mem' = mem,
         \A w \in Writers : SameWriter(w) \/ pc'[w] # "link"
  PROVE  BlankInv'
BY DEF BlankInv, SameWriter, Arg

\* A closed set of linked nodes that has one of them has all from there on.
LEMMA LinkedClosed ==
  ASSUME SafeInv, NEW n \in Linked
  PROVE  /\ Closed(Linked) /\ ChainFrom(n) \subseteq Linked /\ n \in ChainFrom(n)
         /\ Linked \in SUBSET Nodes
<1>1. Linked \in SUBSET Nodes /\ Closed(Linked)
  BY SetFacts DEF Closed
<1> QED
  BY <1>1 DEF ChainFrom

\* A link is set once, until the node is unlinked.
LinksKept == \A n \in Linked : mem'[n].next = mem[n].next \/ mem[n].next = Null

\* A set that is closed after the step was closed in the chain.
LEMMA ClosedKept ==
  ASSUME SafeInv, LinksKept, NEW S \in SUBSET Nodes, Closed(S)'
  PROVE  Closed(S \cap Linked)
<1> SUFFICES ASSUME NEW n \in S \cap Linked, mem[n].next # Null
             PROVE  mem[n].next \in S \cap Linked
  BY DEF Closed
<1>1. mem'[n].next = mem[n].next
  BY DEF LinksKept
<1>2. mem'[n].next \in S \cup {Null}
  BY DEF Closed
<1>3. mem[n].next \in Linked
  BY SetFacts
<1> QED
  BY <1>1, <1>2, <1>3

\* What is in the chain behind a node stays there.
LEMMA ChainKept ==
  ASSUME SafeInv, LinksKept, NEW n \in Linked
  PROVE  \A m \in ChainFrom(n) : m \in (ChainFrom(n))'
<1> SUFFICES ASSUME NEW m \in ChainFrom(n), NEW S \in SUBSET Nodes, n \in S, Closed(S)'
             PROVE  m \in S
  BY DEF ChainFrom
<1>1. Closed(S \cap Linked) /\ n \in S \cap Linked /\ S \cap Linked \in SUBSET Nodes
  BY ClosedKept
<1> QED
  BY <1>1 DEF ChainFrom

\* Nothing is linked to the node that the readers are at.
LEMMA FirstOfChain ==
  ASSUME SafeInv, NEW n \in Linked, read_pos \in ChainFrom(n)
  PROVE  n = read_pos
<1> DEFINE S == {n} \cup (Linked \ {read_pos})
<1>1. Closed(S) /\ S \in SUBSET Nodes
  BY SetFacts DEF Closed
<1> QED
  BY <1>1 DEF ChainFrom

\* A step that changes no link keeps the chain whole.
LEMMA SameChain ==
  ASSUME SafeInv, ChainInv, Linked' = Linked, read_pos' = read_pos,
         \A n \in Linked : mem'[n].next = mem[n].next
  PROVE  ChainInv'
<1>1. LinksKept
  BY DEF LinksKept
<1>2. ASSUME NEW S \in SUBSET Linked, read_pos \in S, Closed(S)'
      PROVE  S = Linked
  <2>1. Closed(S)
    BY <1>2 DEF Closed
  <2> QED
    BY <1>2, <2>1 DEF ChainInv
<1>3. ASSUME NEW m \in Linked, NEW n \in Linked, mem'[m].next = Null
      PROVE  m \in (ChainFrom(n))'
  <2>1. m \in ChainFrom(n)
    BY <1>3 DEF ChainInv
  <2> QED
    BY <1>1, <2>1, ChainKept
<1> QED
  BY <1>2, <1>3 DEF ChainInv

\* The last node is the only one, and every node leads to it.
LEMMA OneLast ==
  ASSUME SafeInv, ChainInv, NEW m \in Linked, mem[m].next = Null
  PROVE  /\ \A n \in Linked : m \in ChainFrom(n)
         /\ \A n \in Linked : mem[n].next = Null => n = m
<1>1. \A n \in Linked : m \in ChainFrom(n)
  BY DEF ChainInv
<1>2. ASSUME NEW n \in Linked, mem[n].next = Null PROVE n = m
  <2>1. Closed({n}) /\ {n} \in SUBSET Nodes
    BY <1>2, SetFacts DEF Closed
  <2> QED
    BY <1>1, <2>1 DEF ChainFrom
<1> QED
  BY <1>1, <1>2

\* Link of a last node keeps the chain whole.
LEMMA LinkDoneChain ==
  ASSUME SafeInv, TailInv, ChainInv, BlankInv, Defined,
         NEW w \in Writers, Link(w), Here(w).next = Null
  PROVE  ChainInv' /\ LinksKept
<1> DEFINE p == local[w].target
           q == Node(w)
<1>1. /\ p \in Private /\ p \in Nodes /\ Linked' = Linked \cup {p} /\ read_pos' = read_pos
      /\ mem'[q].next = p /\ SafeInv'
      /\ \A m \in Nodes : m # q => mem'[m].next = mem[m].next
  BY LinkDoneStep DEF NextSet
<1>2. q \in Linked /\ mem[q].next = Null /\ p \notin Linked /\ Linked \subseteq Nodes
  BY <1>1, LinkDoneTail, SetFacts DEF Here
<1>3. LinksKept
  BY <1>1, <1>2 DEF LinksKept
<1>4. ASSUME NEW S \in SUBSET Linked', read_pos \in S, Closed(S)'
      PROVE  S = Linked'
  <2>1. S \in SUBSET Nodes
    BY <1>1, <1>2
  <2>2. Closed(S \cap Linked) /\ read_pos \in S \cap Linked
    BY <1>3, <1>4, <2>1, ClosedKept, SetFacts
  <2>3. S \cap Linked = Linked
    BY <2>2 DEF ChainInv
  <2>4. q \in S
    BY <1>2, <2>3
  <2>5. p \in S
    <3>1. mem'[q].next \in S \cup {Null}
      BY <1>4, <2>4 DEF Closed
    <3> QED
      BY <1>1, <3>1, SetFacts
  <2> QED
    BY <1>1, <2>3, <2>5
<1>5. \A n \in Linked : q \in ChainFrom(n)
  BY <1>2, OneLast
<1>6. \A n \in Linked : mem[n].next = Null => n = q
  BY <1>2, OneLast
<1>7. ASSUME NEW m \in Linked', NEW n \in Linked', mem'[m].next = Null
      PROVE  m \in (ChainFrom(n))'
  <2>1. m = p
    <3>1. CASE m \in Linked
      <4>1. m # q
        BY <1>1, <1>7, SetFacts
      <4>2. mem[m].next = Null
        BY <1>1, <1>2, <1>7, <3>1, <4>1
      <4> QED
        BY <1>6, <3>1, <4>1, <4>2
    <3> QED
      BY <1>1, <3>1
  <2>2. CASE n = p
    BY <2>1, <2>2, <1>1, LinkedClosed DEF ChainFrom
  <2>3. CASE n \in Linked
    <3>1. q \in (ChainFrom(n))'
      BY <1>3, <1>5, <2>3, ChainKept
    <3> SUFFICES ASSUME NEW S \in SUBSET Nodes, n \in S, Closed(S)'
                 PROVE  p \in S
      BY <1>1, <2>1 DEF ChainFrom
    <3>2. q \in S
      BY <3>1 DEF ChainFrom
    <3>3. mem'[q].next \in S \cup {Null}
      BY <3>2 DEF Closed
    <3> QED
      BY <1>1, <3>3, SetFacts
  <2> QED
    BY <1>1, <2>2, <2>3
<1> QED
  BY <1>1, <1>3, <1>4, <1>7 DEF ChainInv

\* Advance that moves read_pos_ keeps the chain whole.
LEMMA AdvanceDoneChain ==
  ASSUME SafeInv, ChainInv, NEW r \in Readers, Advance(r), read_pos = Node(r)
  PROVE  ChainInv'
<1>1. /\ Linked' = Linked \ {read_pos} /\ mem' = mem /\ read_pos' = mem[read_pos].next
      /\ read_pos' \in Linked \ {read_pos} /\ read_pos \in Linked
  BY AdvanceDoneStep
<1>2. ASSUME NEW S \in SUBSET Linked', read_pos' \in S, Closed(S)'
      PROVE  S = Linked'
  <2> DEFINE U == S \cup {read_pos}
  <2>1. U \in SUBSET Linked /\ read_pos \in U
    BY <1>1
  <2>2. Closed(U)
    BY <1>1, <1>2 DEF Closed
  <2>3. U = Linked
    BY <2>1, <2>2 DEF ChainInv
  <2> QED
    BY <1>1, <2>3
<1>3. ASSUME NEW m \in Linked', NEW n \in Linked', mem'[m].next = Null
      PROVE  m \in (ChainFrom(n))'
  <2>1. m \in ChainFrom(n)
    BY <1>1, <1>3 DEF ChainInv
  <2>2. LinksKept
    BY <1>1 DEF LinksKept
  <2> QED
    BY <1>1, <1>3, <2>1, <2>2, ChainKept
<1> QED
  BY <1>2, <1>3 DEF ChainInv

ShapeInv == TailInv /\ ChainInv /\ BlankInv

\* A writer's node, while no deleted node was used.
LEMMA WriterNode ==
  ASSUME SafeInv, TailInv, Defined, NEW w \in Writers, pc[w] \in HeldW
  PROVE  /\ Node(w) \in live /\ Node(w) \notin Private /\ Node(w) \in Nodes
         /\ Here(w).next = Null => Node(w) \in Linked
<1>1. Node(w) \in live /\ Node(w) \notin Private
  BY DefinedAlive DEF TailInv, WriterAt
<1> QED
  BY <1>1, SetFacts DEF Here

\* A step in a node that is there and linked, which changes no link.
LEMMA SameShape ==
  ASSUME SafeInv, ShapeInv, SameSets, UNCHANGED <<write_pos, read_pos>>,
         NEW n \in live \ Private, \A m \in Nodes \ {n} : mem'[m] = mem[m],
         \A m \in Nodes : mem'[m].next = mem[m].next,
         \A w \in Writers : \/ SameWriter(w)
                            \/ pc'[w] \notin HeldW
                            \/ /\ pc[w] \in HeldW /\ Node(w)' = Node(w)
                               /\ pc'[w] \notin {"link", "swing", "finish"}
  PROVE  ShapeInv'
<1>1. TailInv'
  BY SameTail DEF ShapeInv
<1>2. BlankInv'
  <2>1. \A w \in Writers : SameWriter(w) \/ pc'[w] # "link"
    BY DEF HeldW
  <2>2. n \in Nodes
    BY SetFacts
  <2> QED
    BY <2>1, <2>2, SameBlank DEF ShapeInv, SameSets
<1>3. ChainInv'
  BY SameChain, SetFacts DEF ShapeInv, SameSets
<1> QED
  BY <1>1, <1>2, <1>3 DEF ShapeInv

\* A step that changes no node keeps the shape of the chain.
LEMMA StillShape ==
  ASSUME SafeInv, ShapeInv, Defined, NEW t \in Threads, Still(t)
  PROVE  ShapeInv'
<1>1. TailInv'
  BY StillTail DEF ShapeInv
<1>2. BlankInv'
  BY UnchangedBlank DEF Still, ShapeInv, Others, SameSets
<1>3. ChainInv'
  BY SameChain DEF ShapeInv, SameSets, Still
<1> QED
  BY <1>1, <1>2, <1>3 DEF ShapeInv

\* ClaimWrite keeps the shape of the chain.
LEMMA ClaimWriteShape ==
  ASSUME SafeInv, ShapeInv, Defined, NEW w \in Writers, ClaimWrite(w)
  PROVE  ShapeInv'
<1>1. /\ Others(w) /\ SameSets /\ pc[w] = "claim" /\ UNCHANGED <<write_pos, read_pos>>
      /\ Node(w)' = Node(w) /\ WposGrown(Node(w)) /\ pc'[w] \in {"set", "next"}
  BY ClaimWriteStep
<1>2. Node(w) \in live \ Private
  BY <1>1, WriterNode DEF HeldW, ShapeInv
<1>3. \A x \in Writers : \/ SameWriter(x)
                         \/ /\ pc[x] \in HeldW /\ Node(x)' = Node(x)
                            /\ pc'[x] \notin {"link", "swing", "finish"}
  BY <1>1 DEF Others, HeldW
<1> QED
  BY <1>1, <1>2, <1>3, SameShape DEF WposGrown

\* SetValue into an empty slot keeps the shape of the chain.
LEMMA SetValueDoneShape ==
  ASSUME SafeInv, ShapeInv, Defined, NEW w \in Writers, SetValue(w), Slot(w) = Empty
  PROVE  ShapeInv'
<1>1. /\ Others(w) /\ SameSets /\ pc[w] = "set" /\ pc'[w] = "done"
      /\ UNCHANGED <<write_pos, read_pos>> /\ SlotSet(Node(w), local[w].pos, Arg(w))
  BY SetValueDoneStep
<1>2. Node(w) \in live \ Private
  BY <1>1, WriterNode DEF HeldW, ShapeInv
<1>3. \A x \in Writers : SameWriter(x) \/ pc'[x] \notin HeldW
  BY <1>1 DEF Others, HeldW
<1> QED
  BY <1>1, <1>2, <1>3, SameShape DEF SlotSet

\* ClaimRead keeps the shape of the chain.
LEMMA ClaimReadShape ==
  ASSUME SafeInv, ShapeInv, NEW r \in Readers, ClaimRead(r)
  PROVE  ShapeInv'
<1>1. /\ Others(r) /\ SameSets /\ UNCHANGED <<write_pos, read_pos>>
      /\ RposGrown(Node(r)) /\ Node(r) \in live \ Private
  BY ClaimReadStep
<1>2. \A x \in Writers : SameWriter(x)
  BY <1>1, ThreadIds DEF Others
<1> QED
  BY <1>1, <1>2, SameShape DEF RposGrown

\* GetValue keeps the shape of the chain.
LEMMA GetValueShape ==
  ASSUME SafeInv, ShapeInv, NEW r \in Readers, GetValue(r)
  PROVE  ShapeInv'
<1>1. /\ Others(r) /\ SameSets /\ UNCHANGED <<write_pos, read_pos>>
      /\ SlotSet(Node(r), local[r].pos, Taken) /\ Node(r) \in live \ Private
  BY GetValueStep
<1>2. \A x \in Writers : SameWriter(x)
  BY <1>1, ThreadIds DEF Others
<1> QED
  BY <1>1, <1>2, SameShape DEF SlotSet

\* NextNode that makes a node keeps the shape of the chain.
LEMMA MakesShape ==
  ASSUME SafeInv, ShapeInv, Defined, NEW w \in Writers, NEW n \in Nodes \ live, Makes(w, n)
  PROVE  ShapeInv'
<1>1. /\ Linked' = Linked /\ read_pos' = read_pos
      /\ \A m \in Nodes : mem'[m].next = mem[m].next
  <2>1. Made(n, Arg(w))
    BY MakesStep
  <2> QED
    BY <2>1, MakesStep DEF Made
<1>2. ChainInv'
  BY <1>1, SameChain, SetFacts DEF ShapeInv
<1> QED
  BY <1>2, MakesTail, MakesBlank DEF ShapeInv

\* Link of a last node keeps the shape of the chain.
LEMMA LinkDoneShape ==
  ASSUME SafeInv, ShapeInv, Defined, NEW w \in Writers, Link(w), Here(w).next = Null
  PROVE  ShapeInv'
<1>1. /\ Others(w) /\ live' = live /\ pc'[w] = "finish" /\ NextSet(Node(w), local[w].target)
  BY LinkDoneStep
<1>2. Node(w) \in Linked
  BY LinkDoneTail DEF ShapeInv
<1>3. Node(w) \in live /\ Node(w) \notin Private /\ Node(w) \in Nodes
  BY <1>2, SetFacts
<1>4. BlankInv'
  BY <1>1, <1>3, SameBlank DEF ShapeInv, NextSet, Others
<1> QED
  BY <1>4, LinkDoneTail, LinkDoneChain DEF ShapeInv

\* A node that is not linked is deleted.
LEMMA DeletedShape ==
  ASSUME SafeInv, ShapeInv, NEW p \in Nodes, Changed(p, Blank), p \notin Linked,
         Linked' = Linked, Private' \subseteq Private, live' = live \ {p},
         UNCHANGED <<write_pos, read_pos>>,
         \A w \in Writers : SameWriter(w) \/ pc'[w] \notin HeldW,
         \A w \in Writers : pc'[w] = "link" => SameWriter(w) /\ local[w].target # p
  PROVE  ShapeInv'
<1>1. TailInv'
  BY DeletedTail DEF ShapeInv
<1>2. BlankInv'
  BY DeletedBlank DEF ShapeInv
<1>3. ChainInv'
  BY SameChain, SetFacts DEF ShapeInv, Changed
<1> QED
  BY <1>1, <1>2, <1>3 DEF ShapeInv

\* Link where another writer was first keeps the shape of the chain.
LEMMA LinkLostShape ==
  ASSUME SafeInv, ShapeInv, NEW w \in Writers, Link(w), Here(w).next # Null
  PROVE  ShapeInv'
<1> DEFINE p == local[w].target
<1>1. /\ Others(w) /\ pc[w] = "link" /\ pc'[w] = "protect" /\ p \in Private /\ p \in Nodes
      /\ Private' = Private \ {p} /\ Linked' = Linked /\ live' = live \ {p}
      /\ UNCHANGED <<write_pos, read_pos>> /\ Changed(p, Blank)
  BY LinkLostStep
<1>2. \A x \in Writers : SameWriter(x) \/ pc'[x] \notin HeldW
  BY <1>1 DEF Others, HeldW
<1>3. \A x \in Writers : pc'[x] = "link" => SameWriter(x) /\ local[x].target # p
  BY <1>1, Targets DEF Others, SameWriter
<1>4. p \notin Linked /\ Private' \subseteq Private
  BY <1>1, SetFacts
<1> QED
  BY <1>1, <1>2, <1>3, <1>4, DeletedShape

\* Look at the last of the pointers keeps the shape of the chain.
LEMMA LookFreeShape ==
  ASSUME SafeInv, ShapeInv, NEW r \in Readers, Look(r), hazard[Asked(r)] # Sought(r),
         Asked(r) = LastThread
  PROVE  ShapeInv'
<1> DEFINE p == Sought(r)
<1>1. /\ Others(r) /\ p \in Nodes /\ p \in Gone /\ p \notin Private
      /\ Private' = Private /\ Linked' = Linked /\ live' = live \ {p}
      /\ UNCHANGED <<write_pos, read_pos>> /\ Changed(p, Blank)
  BY LookFreeStep
<1>2. \A x \in Writers : SameWriter(x)
  BY <1>1, ThreadIds DEF Others
<1>3. \A x \in Writers : pc'[x] = "link" => SameWriter(x) /\ local[x].target # p
  BY <1>1, <1>2, Targets DEF SameWriter
<1>4. p \notin Linked
  BY <1>1, SetFacts
<1> QED
  BY <1>1, <1>2, <1>3, <1>4, DeletedShape

\* Advance that moves read_pos_ keeps the shape of the chain.
LEMMA AdvanceDoneShape ==
  ASSUME SafeInv, ShapeInv, NEW r \in Readers, Advance(r), read_pos = Node(r)
  PROVE  ShapeInv'
<1>1. Others(r) /\ mem' = mem /\ live' = live
  BY AdvanceDoneStep
<1>2. BlankInv'
  BY <1>1, UnchangedBlank, ThreadIds DEF ShapeInv, Others
<1> QED
  BY <1>2, AdvanceDoneTail, AdvanceDoneChain DEF ShapeInv

\* The initial state keeps the shape of the chain.
LEMMA InitShape == Init => ShapeInv
<1> SUFFICES ASSUME Init PROVE ShapeInv
  OBVIOUS
<1>1. SafeInv
  BY InitSafe
<1>2. \A w \in Writers : pc[w] = "idle"
  BY ThreadIds DEF Init
<1>3. \A n \in Nodes : mem[n] = Blank /\ mem[n].next = Null
  BY BlankNode DEF Init
<1>4. Gone = {} /\ Private = {} /\ Linked = {read_pos} /\ read_pos = write_pos
  <2>1. \A r \in Readers : pc[r] = "idle" /\ retired[r] = <<>>
    BY ThreadIds DEF Init
  <2> QED
    BY <1>2, <2>1 DEF Init, Gone, Retired, Unlinked, Private, Linked
<1>5. TailInv
  BY <1>1, <1>2, <1>3, <1>4, SetFacts DEF TailInv, WriterAt, Last, HeldW
<1>6. BlankInv
  BY <1>2, <1>3 DEF BlankInv
<1>7. ChainInv
  BY <1>1, <1>4, LinkedClosed DEF ChainInv
<1> QED
  BY <1>5, <1>6, <1>7 DEF ShapeInv

\* A stuttering step keeps the shape of the chain.
LEMMA UnchangedShape ==
  ASSUME SafeInv, ShapeInv, UNCHANGED vars
  PROVE  ShapeInv'
<1>1. SameSets /\ UNCHANGED <<write_pos, read_pos, mem, live>> /\ \A w \in Writers : SameWriter(w)
  BY Unmoved
<1> QED
  BY <1>1, SameTail, UnchangedBlank, SameChain DEF ShapeInv, SameSets

\* Every step keeps the shape of the chain.
LEMMA NextShape ==
  ASSUME SafeInv, ShapeInv, Defined, [Next]_vars
  PROVE  ShapeInv'
BY UnchangedShape, StepCases, StillShape, ClaimWriteShape, SetValueDoneShape, ClaimReadShape,
   GetValueShape,
     MakesShape, LinkDoneShape, LinkLostShape, LookFreeShape, AdvanceDoneShape

\* The nodes of the chain are those that are linked.
LEMMA ChainIsLinked ==
  ASSUME SafeInv, ShapeInv
  PROVE  ChainFrom(read_pos) = Linked
<1>1. read_pos \in Linked
  BY SetFacts
<1>2. Closed(Linked) /\ ChainFrom(read_pos) \subseteq Linked /\ Linked \in SUBSET Nodes
  BY <1>1, LinkedClosed
<1>3. ASSUME NEW n \in Linked, NEW S \in SUBSET Nodes, read_pos \in S, Closed(S)
      PROVE  n \in S
  <2> DEFINE U == S \cap Linked
  <2>1. U \in SUBSET Linked /\ read_pos \in U
    BY <1>1, <1>3
  <2>2. Closed(U)
    BY <1>2, <1>3 DEF Closed
  <2>3. U = Linked
    BY <2>1, <2>2 DEF ShapeInv, ChainInv
  <2> QED
    BY <2>3
<1> QED
  BY <1>2, <1>3 DEF ChainFrom

-----------------------------------------------------------------------------
(* The slots, and whose they are.                                          *)

SlotsInv == CountInv /\ SlotInv

\* Where a thread that is at a slot is.
LEMMA ReaderNode ==
  ASSUME SafeInv, NEW r \in Readers, pc[r] \in HeldR
  PROVE  Node(r) \in live /\ Node(r) \notin Private /\ Node(r) \in Nodes
BY DEF SafeInv, ReadInv, Protected, KnowInv, ReaderKnows

\* A writer is at a slot in order to set it, a reader in order to get it.
LEMMA AtSlots ==
  ASSUME SafeInv
  PROVE  /\ \A w \in Writers : \A n, i : IsAt(w, n, i) => pc[w] = "set"
         /\ \A r \in Readers : \A n, i : IsAt(r, n, i) => pc[r] = "get"
BY DEF SafeInv, KnowInv, WriterKnows, ReaderKnows, WriterSteps, ReaderSteps, Entering, HeldW, HeldR,
       IsAt

\* A thread that stays is at the same slot.
LEMMA SameAt ==
  /\ \A w \in Writers : SameWriter(w) => \A n, i : IsAt(w, n, i)' <=> IsAt(w, n, i)
  /\ \A r \in Readers : SameReader(r) => \A n, i : IsAt(r, n, i)' <=> IsAt(r, n, i)
BY DEF SameWriter, SameReader, IsAt, Node

\* Threads that stay where they are, or go to no slot.
LEMMA SameOwners ==
  ASSUME SafeInv, SlotInv, live' \subseteq live,
         \A w \in Writers : SameWriter(w) \/ pc'[w] \notin {"set", "get"},
         \A r \in Readers : SameReader(r) \/ pc'[r] \notin {"set", "get"}
  PROVE  /\ \A w, x \in Writers : \A n \in live' : \A i \in Slots :
              IsAt(w, n, i)' /\ IsAt(x, n, i)' => w = x
         /\ \A r, s \in Readers : \A n \in live' : \A i \in Slots :
              IsAt(r, n, i)' /\ IsAt(s, n, i)' => r = s
<1>1. \A w \in Writers : \A n, i : IsAt(w, n, i)' => IsAt(w, n, i)
  BY SameAt DEF IsAt
<1>2. \A r \in Readers : \A n, i : IsAt(r, n, i)' => IsAt(r, n, i)
  BY SameAt DEF IsAt
<1>3. /\ \A w, x \in Writers : \A n \in live : \A i \in Slots :
           IsAt(w, n, i) /\ IsAt(x, n, i) => w = x
      /\ \A r, s \in Readers : \A n \in live : \A i \in Slots :
           IsAt(r, n, i) /\ IsAt(s, n, i) => r = s
  BY DEF SlotInv
<1> QED
  BY ONLY <1>1, <1>2, <1>3, live' \subseteq live

\* A step that changes no node keeps the slots.
LEMMA StillSlots ==
  ASSUME SafeInv, SlotsInv, NEW t \in Threads, Still(t)
  PROVE  SlotsInv'
<1>1. /\ Others(t) /\ SameSets /\ mem' = mem
      /\ pc[t] \notin {"get", "link"} /\ pc'[t] \notin {"set", "get", "link"}
  BY DEF Still
<1>2. ASSUME NEW w \in Writers PROVE WriterCounts(w)'
  <2>1. WriterCounts(w)
    BY DEF SlotsInv, CountInv
  <2>2. CASE w = t
    <3>1. pc'[t] \notin {"next", "link", "set"}
      BY <2>2, <1>1 DEF Still, Enters, HeldW
    <3> QED
      BY <2>2, <3>1 DEF WriterCounts
  <2>3. CASE w # t
    BY <1>1, <2>1, <2>3 DEF Others, SameWriter, SameSets, WriterCounts, Here, Slot
  <2> QED
    BY <2>2, <2>3
<1>3. ASSUME NEW r \in Readers PROVE ReaderCounts(r)'
  <2>1. ReaderCounts(r)
    BY DEF SlotsInv, CountInv
  <2>2. CASE r = t
    <3>1. pc'[t] \in {"after", "advance"} => pc[t] = "after" /\ Node(t)' = Node(t)
      BY <2>2 DEF Still, Looks
    <3> QED
      BY <1>1, <2>1, <2>2, <3>1 DEF ReaderCounts, Here
  <2>3. CASE r # t
    BY <1>1, <2>1, <2>3 DEF Others, SameReader, ReaderCounts, Here
  <2> QED
    BY <2>2, <2>3
<1>4. CountInv'
  BY <1>1, <1>2, <1>3 DEF SlotsInv, CountInv, SameSets
<1>5. \A w \in Writers : SameWriter(w) \/ pc'[w] \notin {"set", "get"}
  BY <1>1 DEF Others
<1>6. \A r \in Readers : SameReader(r) \/ pc'[r] \notin {"set", "get"}
  BY <1>1 DEF Others
<1>7. \A r \in Readers : \A n, i : IsAt(r, n, i) => IsAt(r, n, i)'
  <2>1. \A r \in Readers : r = t => pc[r] # "get"
    BY <1>1
  <2> QED
    BY <1>1, <2>1, AtSlots, SameAt DEF Others
<1>8. SlotInv'
  <2>1. live' \subseteq live /\ live' = live
    BY <1>1 DEF SameSets
  <2>2. \A n \in live : \A i \in Slots : i < mem[n].rpos =>
          mem[n].data[i] = Taken \/ \E r \in Readers : IsAt(r, n, i)
    BY DEF SlotsInv, SlotInv
  <2>3. \A n \in live' : \A i \in Slots : i < mem'[n].rpos =>
          mem'[n].data[i] = Taken \/ \E r \in Readers : IsAt(r, n, i)'
    BY ONLY <1>1, <1>7, <2>1, <2>2
  <2> QED
    BY <1>5, <1>6, <2>1, <2>3, SameOwners DEF SlotsInv, SlotInv
<1> QED
  BY <1>4, <1>8 DEF SlotsInv

\* ClaimWrite keeps the slots.
LEMMA ClaimWriteSlots ==
  ASSUME SafeInv, ShapeInv, SlotsInv, Defined, NEW w \in Writers, ClaimWrite(w)
  PROVE  SlotsInv'
<1> DEFINE q == Node(w)
<1>1. /\ SafeInv' /\ Others(w) /\ SameSets /\ pc[w] = "claim" /\ q \in Nodes /\ q' = q /\ WposGrown(q)
      /\ IF mem[q].wpos < Size THEN pc'[w] = "set" /\ local'[w].pos = mem[q].wpos ELSE pc'[w] = "next"
  BY ClaimWriteStep DEF Here
<1>2. \A r \in Readers : SameReader(r)
  BY <1>1, ThreadIds DEF Others
<1>3. \A n \in Nodes : /\ mem[n].wpos \in Nat /\ mem'[n].next = mem[n].next
                       /\ mem'[n].rpos = mem[n].rpos /\ mem'[n].data = mem[n].data
                       /\ mem'[n].wpos = IF n = q THEN mem[n].wpos + 1 ELSE mem[n].wpos
  BY <1>1, Fields DEF WposGrown
<1>4. /\ \A n \in Nodes : mem[n].next # Null => mem[n].wpos >= Size
      /\ \A n \in Gone : mem[n].rpos >= Size
      /\ \A n \in Nodes : \A i \in Slots : i >= mem[n].wpos => mem[n].data[i] \notin Values
      /\ \A x \in Writers : WriterCounts(x)
      /\ \A r \in Readers : ReaderCounts(r)
  BY DEF SlotsInv, CountInv
<1>5. Size \in Nat /\ (\A i \in Slots : i \in Nat) /\ Slots = 0 .. Size - 1
  BY Places DEF Slots
<1>6. ASSUME NEW x \in Writers PROVE WriterCounts(x)'
  <2>1. CASE x = w
    <3>1. CASE mem[q].wpos < Size
      <4>1. mem[q].data[mem[q].wpos] \notin Values
        BY <1>1, <1>3, <1>4, <1>5, <3>1
      <4> QED
        BY <1>1, <1>3, <2>1, <3>1, <4>1 DEF WriterCounts, Here, Slot
    <3>2. CASE ~(mem[q].wpos < Size)
      <4>1. pc'[w] = "next" /\ mem'[q].wpos >= Size
        BY <1>1, <1>3, <1>5, <3>2
      <4> QED
        BY <1>1, <2>1, <4>1 DEF WriterCounts, Here
    <3> QED
      BY <3>1, <3>2
  <2>2. CASE x # w
    <3>1. SameWriter(x) /\ WriterCounts(x) /\ (pc[x] \in HeldW => Node(x) \in Nodes)
      BY <1>1, <1>4, <2>2, Targets DEF Others
    <3>2. x \in Threads
      BY ThreadIds
    <3>3. local[x].pos \in Nat
      BY <3>2, LocalFields
    <3> QED
      BY <1>1, <1>3, <1>5, <3>1, <3>3 DEF WriterCounts, SameWriter, SameSets, Here, Slot, HeldW
  <2> QED
    BY <2>1, <2>2
<1>7. ASSUME NEW r \in Readers PROVE ReaderCounts(r)'
  <2>1. ReaderCounts(r) /\ SameReader(r) /\ (pc[r] \in HeldR => Node(r) \in Nodes)
    BY <1>2, <1>4, ReaderNode
  <2> QED
    BY <1>3, <2>1 DEF ReaderCounts, SameReader, Here, HeldR
<1>8. CountInv'
  <2>1. \A n \in Nodes : mem'[n].next # Null => mem'[n].wpos >= Size
    BY ONLY <1>3, <1>4, <1>5
  <2>2. \A n \in Nodes : \A i \in Slots : i >= mem'[n].wpos => mem'[n].data[i] \notin Values
    BY ONLY <1>3, <1>4, <1>5
  <2>3. \A n \in Gone' : mem'[n].rpos >= Size
    BY <1>1, <1>3, <1>4, SetFacts DEF SameSets
  <2> QED
    BY <1>6, <1>7, <2>1, <2>2, <2>3 DEF CountInv
<1>9. SlotInv'
  <2>1. /\ \A x, y \in Writers : \A n \in live : \A i \in Slots :
             IsAt(x, n, i) /\ IsAt(y, n, i) => x = y
        /\ \A r, s \in Readers : \A n \in live : \A i \in Slots :
             IsAt(r, n, i) /\ IsAt(s, n, i) => r = s
        /\ \A n \in live : \A i \in Slots : i < mem[n].rpos =>
             mem[n].data[i] = Taken \/ \E r \in Readers : IsAt(r, n, i)
    BY DEF SlotsInv, SlotInv
  <2>2. \A r \in Readers : \A n, i : IsAt(r, n, i)' <=> IsAt(r, n, i)
    BY <1>2, SameAt
  <2>3. \A x \in Writers \ {w} : \A n, i : IsAt(x, n, i)' <=> IsAt(x, n, i)
    BY <1>1, SameAt DEF Others
  <2>4. ASSUME NEW x \in Writers \ {w}, NEW n \in live, NEW i \in Slots, IsAt(x, n, i)', IsAt(w,
               n, i)'
        PROVE  FALSE
    <3>1. IsAt(x, n, i) /\ pc[x] = "set"
      BY <2>3, <2>4, AtSlots
    <3>2. n = q /\ i = mem[q].wpos
      BY <1>1, <2>4 DEF IsAt
    <3>3. local[x].pos < Here(x).wpos /\ Node(x) = n /\ local[x].pos = i
      BY <1>4, <3>1 DEF WriterCounts, IsAt
    <3> QED
      BY <1>3, <1>1, <3>2, <3>3 DEF Here
  <2>5. \A x, y \in Writers : \A n \in live' : \A i \in Slots :
          IsAt(x, n, i)' /\ IsAt(y, n, i)' => x = y
    BY <1>1, <2>1, <2>3, <2>4 DEF SameSets
  <2>6. live' = live /\ live \subseteq Nodes
    BY <1>1, SetFacts DEF SameSets
  <2>7. \A n \in live' : \A i \in Slots : i < mem'[n].rpos =>
          mem'[n].data[i] = Taken \/ \E r \in Readers : IsAt(r, n, i)'
    BY ONLY <1>3, <2>1, <2>2, <2>6
  <2>8. \A r, s \in Readers : \A n \in live' : \A i \in Slots :
          IsAt(r, n, i)' /\ IsAt(s, n, i)' => r = s
    BY ONLY <2>1, <2>2, <2>6
  <2> QED
    BY <2>5, <2>7, <2>8 DEF SlotInv
<1> QED
  BY <1>8, <1>9 DEF SlotsInv

\* What the invariant says, in one place.
LEMMA SlotsFacts ==
  ASSUME SlotsInv
  PROVE  /\ \A n \in Nodes : mem[n].next # Null => mem[n].wpos >= Size
         /\ \A n \in Gone : mem[n].rpos >= Size
         /\ \A n \in Nodes : \A i \in Slots : i >= mem[n].wpos => mem[n].data[i] \notin Values
         /\ \A x \in Writers : WriterCounts(x)
         /\ \A r \in Readers : ReaderCounts(r)
         /\ \A x, y \in Writers : \A n \in live : \A i \in Slots :
              IsAt(x, n, i) /\ IsAt(y, n, i) => x = y
         /\ \A r, s \in Readers : \A n \in live : \A i \in Slots :
              IsAt(r, n, i) /\ IsAt(s, n, i) => r = s
         /\ \A n \in live : \A i \in Slots : i < mem[n].rpos =>
              mem[n].data[i] = Taken \/ \E r \in Readers : IsAt(r, n, i)
BY DEF SlotsInv, CountInv, SlotInv

\* SetValue into an empty slot keeps the slots.
LEMMA SetValueDoneSlots ==
  ASSUME SafeInv, ShapeInv, SlotsInv, Defined, NEW w \in Writers, SetValue(w), Slot(w) = Empty
  PROVE  SlotsInv'
<1> DEFINE q == Node(w)
           k == local[w].pos
<1>1. /\ SafeInv' /\ Others(w) /\ SameSets /\ pc[w] = "set" /\ pc'[w] = "done" /\ q \in Nodes
      /\ k \in Slots /\ mem[q].data[k] = Empty /\ SlotSet(q, k, Arg(w)) /\ Arg(w) \in Values
  BY SetValueDoneStep
<1>2. \A r \in Readers : SameReader(r)
  BY <1>1, ThreadIds DEF Others
<1>3. /\ \A n \in Nodes :
           /\ mem[n].wpos \in Nat /\ mem[n].rpos \in Nat /\ mem'[n].next = mem[n].next
                          /\ mem'[n].rpos = mem[n].rpos /\ mem'[n].wpos = mem[n].wpos
      /\ \A n \in Nodes : \A j \in Slots : n # q \/ j # k => mem'[n].data[j] = mem[n].data[j]
  BY <1>1, Fields DEF SlotSet
<1>4. q \in live /\ live \subseteq Nodes /\ live' = live
  BY <1>1, WriterNode, SetFacts DEF ShapeInv, HeldW, SameSets
<1>5. k < mem[q].wpos
  BY <1>1, <1>4, SlotsFacts DEF WriterCounts, Here
<1>6. ASSUME NEW x \in Writers PROVE WriterCounts(x)'
  <2>1. CASE x = w
    BY <1>1, <2>1 DEF WriterCounts
  <2>2. CASE x # w
    <3>1. SameWriter(x) /\ WriterCounts(x) /\ (pc[x] \in HeldW => Node(x) \in Nodes)
      BY <1>1, <2>2, Targets, SlotsFacts DEF Others
    <3>2. pc[x] = "set" /\ Node(x) \in live => local[x].pos \in Slots /\ ~(Node(x) = q /\ local[x].pos = k)
      <4> SUFFICES ASSUME pc[x] = "set", Node(x) \in live
                   PROVE  local[x].pos \in Slots /\ ~(Node(x) = q /\ local[x].pos = k)
        OBVIOUS
      <4>1. local[x].pos \in Slots
        BY LocalFields, ThreadIds, Places DEF SafeInv, KnowInv, WriterKnows, Slots
      <4>2. IsAt(x, Node(x), local[x].pos) /\ IsAt(w, q, k)
        BY <1>1 DEF IsAt
      <4> QED
        BY <1>1, <1>4, <2>2, <4>1, <4>2, SlotsFacts
    <3> QED
      BY <1>1, <1>3, <3>1, <3>2 DEF WriterCounts, SameWriter, SameSets, Here, Slot, HeldW
  <2> QED
    BY <2>1, <2>2
<1>7. ASSUME NEW r \in Readers PROVE ReaderCounts(r)'
  <2>1. ReaderCounts(r) /\ SameReader(r) /\ (pc[r] \in HeldR => Node(r) \in Nodes)
    BY <1>2, ReaderNode, SlotsFacts
  <2> QED
    BY <1>3, <2>1 DEF ReaderCounts, SameReader, Here, HeldR
<1>8. CountInv'
  <2>1. \A n \in Nodes : \A i \in Slots : i >= mem'[n].wpos => mem'[n].data[i] \notin Values
    <3>1. ASSUME NEW n \in Nodes, NEW i \in Slots, i >= mem'[n].wpos
          PROVE  mem'[n].data[i] \notin Values
      <4>1. ~(n = q /\ i = k)
        BY <1>3, <1>5, <3>1, Places
      <4> QED
        BY <1>3, <3>1, <4>1, SlotsFacts
    <3> QED
      BY <3>1
  <2>2. \A n \in Nodes : mem'[n].next # Null => mem'[n].wpos >= Size
    BY <1>3, SlotsFacts
  <2>3. \A n \in Gone' : mem'[n].rpos >= Size
    BY <1>1, <1>3, SlotsFacts, SetFacts DEF SameSets
  <2> QED
    BY <1>6, <1>7, <2>1, <2>2, <2>3 DEF CountInv
<1>9. SlotInv'
  <2>1. \A r \in Readers : \A n, i : IsAt(r, n, i)' <=> IsAt(r, n, i)
    BY <1>2, SameAt
  <2>2. \A n \in live : \A i \in Slots : i < mem[n].rpos =>
          mem[n].data[i] = Taken \/ \E r \in Readers : IsAt(r, n, i)
    BY SlotsFacts
  <2>3. \A n \in live' : \A i \in Slots : i < mem'[n].rpos =>
          mem'[n].data[i] = Taken \/ \E r \in Readers : IsAt(r, n, i)'
    BY ONLY <1>1, <1>3, <1>4, <2>1, <2>2, Marks
  <2>4. /\ \A x \in Writers : SameWriter(x) \/ pc'[x] \notin {"set", "get"}
        /\ \A r \in Readers : SameReader(r) \/ pc'[r] \notin {"set", "get"}
    BY <1>1, <1>2 DEF Others
  <2> QED
    BY <1>4, <2>3, <2>4, SameOwners DEF SlotsInv, SlotInv
<1> QED
  BY <1>8, <1>9 DEF SlotsInv

\* ClaimRead keeps the slots.
LEMMA ClaimReadSlots ==
  ASSUME SafeInv, SlotsInv, NEW r \in Readers, ClaimRead(r)
  PROVE  SlotsInv'
<1> DEFINE q == Node(r)
<1>1. /\ SafeInv' /\ Others(r) /\ SameSets /\ pc[r] = "take" /\ q \in Nodes /\ q' = q /\ RposGrown(q)
      /\ q \in live
      /\ IF mem[q].rpos < Size THEN pc'[r] = "get" /\ local'[r].pos = mem[q].rpos ELSE pc'[r] = "after"
  BY ClaimReadStep DEF Here
<1>2. \A w \in Writers : SameWriter(w)
  BY <1>1, ThreadIds DEF Others
<1>3. \A n \in Nodes : /\ mem[n].wpos \in Nat /\ mem[n].rpos \in Nat /\ mem'[n].next = mem[n].next
                       /\ mem'[n].wpos = mem[n].wpos /\ mem'[n].data = mem[n].data
                       /\ mem'[n].rpos = IF n = q THEN mem[n].rpos + 1 ELSE mem[n].rpos
  BY <1>1, Fields DEF RposGrown
<1>4. Size \in Nat /\ (\A i \in Slots : i \in Nat) /\ live' = live /\ live \subseteq Nodes
  BY <1>1, Places, SetFacts DEF SameSets
<1>5. ASSUME NEW x \in Writers PROVE WriterCounts(x)'
  <2>1. WriterCounts(x) /\ SameWriter(x) /\ (pc[x] \in HeldW => Node(x) \in Nodes)
    BY <1>2, Targets, SlotsFacts
  <2> QED
    BY <1>1, <1>3, <2>1 DEF WriterCounts, SameWriter, SameSets, Here, Slot, HeldW
<1>6. ASSUME NEW s \in Readers PROVE ReaderCounts(s)'
  <2>1. CASE s = r
    <3>1. CASE mem[q].rpos < Size
      BY <1>1, <1>3, <2>1, <3>1 DEF ReaderCounts, Here
    <3>2. CASE ~(mem[q].rpos < Size)
      <4>1. pc'[r] = "after" /\ mem'[q].rpos >= Size
        BY <1>1, <1>3, <1>4, <3>2
      <4> QED
        BY <1>1, <2>1, <4>1 DEF ReaderCounts, Here
    <3> QED
      BY <3>1, <3>2
  <2>2. CASE s # r
    <3>1. ReaderCounts(s) /\ SameReader(s) /\ (pc[s] \in HeldR => Node(s) \in Nodes) /\ local[s].pos \in Nat
      BY <1>1, <2>2, ReaderNode, SlotsFacts, LocalFields, ThreadIds DEF Others
    <3> QED
      BY <1>3, <1>4, <3>1 DEF ReaderCounts, SameReader, Here, HeldR
  <2> QED
    BY <2>1, <2>2
<1>7. CountInv'
  <2>1. /\ \A n \in Nodes : mem[n].next # Null => mem[n].wpos >= Size
        /\ \A n \in Gone : mem[n].rpos >= Size
        /\ \A n \in Nodes : \A i \in Slots : i >= mem[n].wpos => mem[n].data[i] \notin Values
    BY SlotsFacts
  <2>2. Gone' = Gone /\ Gone \subseteq Nodes
    BY <1>1, SetFacts DEF SameSets
  <2>3. \A n \in Gone' : mem'[n].rpos >= Size
    BY ONLY <1>3, <1>4, <2>1, <2>2
  <2>4. /\ \A n \in Nodes : mem'[n].next # Null => mem'[n].wpos >= Size
        /\ \A n \in Nodes : \A i \in Slots : i >= mem'[n].wpos => mem'[n].data[i] \notin Values
    BY ONLY <1>3, <2>1
  <2> QED
    BY <1>5, <1>6, <2>3, <2>4 DEF CountInv
<1>8. SlotInv'
  <2>1. /\ \A x, y \in Writers : \A n \in live : \A i \in Slots :
             IsAt(x, n, i) /\ IsAt(y, n, i) => x = y
        /\ \A s, u \in Readers : \A n \in live : \A i \in Slots :
             IsAt(s, n, i) /\ IsAt(u, n, i) => s = u
        /\ \A n \in live : \A i \in Slots : i < mem[n].rpos =>
             mem[n].data[i] = Taken \/ \E s \in Readers : IsAt(s, n, i)
    BY SlotsFacts
  <2>2. \A x \in Writers : \A n, i : IsAt(x, n, i)' <=> IsAt(x, n, i)
    BY <1>2, SameAt
  <2>3. \A s \in Readers \ {r} : \A n, i : IsAt(s, n, i)' <=> IsAt(s, n, i)
    BY <1>1, SameAt DEF Others
  <2>4. ~ \E n, i : IsAt(r, n, i)
    BY <1>1 DEF IsAt
  <2>5. \A n, i : IsAt(r, n, i)' => n = q /\ i = mem[q].rpos
    BY <1>1 DEF IsAt
  <2>6. ASSUME NEW s \in Readers \ {r}, NEW n \in live, NEW i \in Slots, IsAt(s, n, i)', IsAt(r,
               n, i)'
        PROVE  FALSE
    <3>1. IsAt(s, n, i) /\ pc[s] = "get"
      BY <2>3, <2>6, AtSlots
    <3>2. n = q /\ i = mem[q].rpos
      BY <2>5, <2>6
    <3>3. local[s].pos < Here(s).rpos /\ Node(s) = n /\ local[s].pos = i
      BY <3>1, SlotsFacts DEF ReaderCounts, IsAt
    <3> QED
      BY <1>3, <1>1, <3>2, <3>3 DEF Here
  <2>7. \A s, u \in Readers : \A n \in live' : \A i \in Slots :
          IsAt(s, n, i)' /\ IsAt(u, n, i)' => s = u
    BY <1>4, <2>1, <2>3, <2>6
  <2>8. \A x, y \in Writers : \A n \in live' : \A i \in Slots :
          IsAt(x, n, i)' /\ IsAt(y, n, i)' => x = y
    BY ONLY <1>4, <2>1, <2>2
  <2>9. ASSUME NEW n \in live', NEW i \in Slots, i < mem'[n].rpos
        PROVE  mem'[n].data[i] = Taken \/ \E s \in Readers : IsAt(s, n, i)'
    <3>1. CASE i < mem[n].rpos
      <4>1. mem[n].data[i] = Taken \/ \E s \in Readers : IsAt(s, n, i)
        BY <1>4, <2>1, <3>1
      <4>2. ASSUME NEW s \in Readers, IsAt(s, n, i) PROVE IsAt(s, n, i)'
        BY <2>3, <2>4, <4>2
      <4> QED
        BY <1>3, <1>4, <4>1, <4>2
    <3>2. CASE ~(i < mem[n].rpos)
      <4>1. n = q /\ i = mem[q].rpos /\ mem[q].rpos < Size
        BY <1>3, <1>4, <2>9, <3>2, Places
      <4>2. IsAt(r, n, i)'
        BY <1>1, <4>1 DEF IsAt
      <4> QED
        BY <4>2
    <3> QED
      BY <3>1, <3>2
  <2> QED
    BY <2>7, <2>8, <2>9 DEF SlotInv
<1> QED
  BY <1>7, <1>8 DEF SlotsInv

\* GetValue keeps the slots.
LEMMA GetValueSlots ==
  ASSUME SafeInv, SlotsInv, NEW r \in Readers, GetValue(r)
  PROVE  SlotsInv'
<1> DEFINE q == Node(r)
           k == local[r].pos
<1>1. /\ SafeInv' /\ Others(r) /\ SameSets /\ pc[r] = "get" /\ pc'[r] \in {"done", "protect"}
      /\ q \in Nodes /\ k \in Slots /\ q \in live /\ SlotSet(q, k, Taken)
  BY GetValueStep
<1>2. \A w \in Writers : SameWriter(w)
  BY <1>1, ThreadIds DEF Others
<1>3. /\ \A n \in Nodes :
           /\ mem[n].wpos \in Nat /\ mem[n].rpos \in Nat /\ mem'[n].next = mem[n].next
                          /\ mem'[n].rpos = mem[n].rpos /\ mem'[n].wpos = mem[n].wpos
      /\ \A n \in Nodes : \A j \in Slots :
           mem'[n].data[j] = IF n = q /\ j = k THEN Taken ELSE mem[n].data[j]
  BY <1>1, Fields DEF SlotSet
<1>4. live \subseteq Nodes /\ live' = live /\ Taken \notin Values
  BY <1>1, SetFacts, Marks DEF SameSets
<1>5. ASSUME NEW x \in Writers PROVE WriterCounts(x)'
  <2>1. WriterCounts(x) /\ SameWriter(x) /\ (pc[x] \in HeldW => Node(x) \in Nodes)
    BY <1>2, Targets, SlotsFacts
  <2>2. pc[x] = "set" => local[x].pos \in Slots
    BY LocalFields, ThreadIds, Places DEF SafeInv, KnowInv, WriterKnows, Slots
  <2> QED
    BY <1>1, <1>3, <1>4, <2>1, <2>2 DEF WriterCounts, SameWriter, SameSets, Here, Slot, HeldW
<1>6. ASSUME NEW s \in Readers PROVE ReaderCounts(s)'
  <2>1. CASE s = r
    BY <1>1, <2>1 DEF ReaderCounts
  <2>2. CASE s # r
    <3>1. ReaderCounts(s) /\ SameReader(s) /\ (pc[s] \in HeldR => Node(s) \in Nodes)
      BY <1>1, <2>2, ReaderNode, SlotsFacts DEF Others
    <3> QED
      BY <1>3, <3>1 DEF ReaderCounts, SameReader, Here, HeldR
  <2> QED
    BY <2>1, <2>2
<1>7. CountInv'
  <2>1. \A n \in Nodes : \A i \in Slots : i >= mem'[n].wpos => mem'[n].data[i] \notin Values
    BY <1>3, <1>4, SlotsFacts
  <2>2. \A n \in Nodes : mem'[n].next # Null => mem'[n].wpos >= Size
    BY <1>3, SlotsFacts
  <2>3. \A n \in Gone' : mem'[n].rpos >= Size
    BY <1>1, <1>3, SlotsFacts, SetFacts DEF SameSets
  <2> QED
    BY <1>5, <1>6, <2>1, <2>2, <2>3 DEF CountInv
<1>8. SlotInv'
  <2>1. \A s \in Readers \ {r} : \A n, i : IsAt(s, n, i)' <=> IsAt(s, n, i)
    BY <1>1, SameAt DEF Others
  <2>2. \A n, i : IsAt(r, n, i) => n = q /\ i = k
    BY DEF IsAt
  <2>3. ASSUME NEW n \in live', NEW i \in Slots, i < mem'[n].rpos, mem'[n].data[i] # Taken
        PROVE  \E s \in Readers : IsAt(s, n, i)'
    <3>1. ~(n = q /\ i = k) /\ mem'[n].data[i] = mem[n].data[i] /\ i < mem[n].rpos
      BY <1>3, <1>4, <2>3
    <3>2. PICK s \in Readers : IsAt(s, n, i)
      BY <1>4, <2>3, <3>1, SlotsFacts
    <3>3. s # r
      BY <2>2, <3>1, <3>2
    <3> QED
      BY <2>1, <3>2, <3>3
  <2>4. /\ \A x \in Writers : SameWriter(x) \/ pc'[x] \notin {"set", "get"}
        /\ \A s \in Readers : SameReader(s) \/ pc'[s] \notin {"set", "get"}
    BY <1>1, <1>2 DEF Others
  <2> QED
    BY <1>4, <2>3, <2>4, SameOwners DEF SlotsInv, SlotInv
<1> QED
  BY <1>7, <1>8 DEF SlotsInv

\* A step that changes links, or makes or deletes nodes that no thread is at a slot of.
LEMMA SlotsMoved ==
  ASSUME SafeInv, SlotsInv,
         \A w \in Writers : SameWriter(w) \/ pc'[w] \notin {"set", "get"},
         \A r \in Readers : SameReader(r) \/ (pc[r] # "get" /\ pc'[r] \notin {"set", "get"}),
         \A n \in live' : n \in live \/ mem'[n].rpos = 0,
         \A n \in live' \cap live : mem'[n].rpos = mem[n].rpos /\ mem'[n].data = mem[n].data,
         \A w \in Writers : pc[w] = "set" => Node(w) \in live
  PROVE  SlotInv'
<1>1. \A w \in Writers : \A n, i : IsAt(w, n, i)' => IsAt(w, n, i) /\ n \in live
  BY SameAt, AtSlots DEF IsAt
<1>2. \A r \in Readers : \A n, i : IsAt(r, n, i)' => IsAt(r, n, i) /\ n \in live
  <2>1. \A r \in Readers : \A n, i : IsAt(r, n, i) => n \in live
    BY ReaderNode, AtSlots DEF IsAt, HeldR
  <2> QED
    BY <2>1, SameAt DEF IsAt
<1>3. \A r \in Readers : \A n, i : IsAt(r, n, i) => IsAt(r, n, i)'
  BY SameAt, AtSlots
<1>4. /\ \A w, x \in Writers : \A n \in live' : \A i \in Slots :
           IsAt(w, n, i)' /\ IsAt(x, n, i)' => w = x
      /\ \A r, s \in Readers : \A n \in live' : \A i \in Slots :
           IsAt(r, n, i)' /\ IsAt(s, n, i)' => r = s
  BY <1>1, <1>2, SlotsFacts
<1>5. ASSUME NEW n \in live', NEW i \in Slots, i < mem'[n].rpos, mem'[n].data[i] # Taken
      PROVE  \E r \in Readers : IsAt(r, n, i)'
  <2>1. n \in live
    BY <1>5, Places
  <2>2. PICK r \in Readers : IsAt(r, n, i)
    BY <1>5, <2>1, SlotsFacts
  <2> QED
    BY <1>3, <2>2
<1> QED
  BY <1>4, <1>5 DEF SlotInv

\* A new node has its writer's value in the first slot and no other.
LEMMA MakesSlots ==
  ASSUME SafeInv, ShapeInv, SlotsInv, Defined, NEW w \in Writers, NEW n \in Nodes \ live, Makes(w,
         n)
  PROVE  SlotsInv'
<1>b. /\ Others(w) /\ pc[w] = "next" /\ pc'[w] = "link" /\ Gone' = Gone /\ live' = live \cup {n}
      /\ Node(w)' = Node(w) /\ Made(n, Arg(w))
  BY MakesStep
<1>1. /\ Others(w) /\ pc[w] = "next" /\ pc'[w] = "link" /\ Gone' = Gone /\ live' = live \cup {n}
      /\ Node(w)' = Node(w) /\ mem'[n].wpos = 1
      /\ \A m \in Nodes : /\ mem'[m].next = mem[m].next /\ mem'[m].rpos = mem[m].rpos
                          /\ m # n => mem'[m].wpos = mem[m].wpos
                          /\ \A j \in Slots : m # n \/ j # 0 => mem'[m].data[j] = mem[m].data[j]
  BY ONLY <1>b DEF Made
<1>a. \A m \in Nodes \ {n} : mem'[m] = mem[m]
  BY ONLY <1>b DEF Made
<1>2. /\ mem[n].next = Null /\ mem[n].rpos = 0 /\ \A i \in Slots : mem[n].data[i] \notin Values
  BY BlankNode, Marks DEF ShapeInv, BlankInv
<1>3. /\ \A x \in Writers : pc[x] \in HeldW => Node(x) \in live
      /\ \A r \in Readers : pc[r] \in HeldR => Node(r) \in live
      /\ live \subseteq Nodes /\ Gone \subseteq live
  BY DefinedAlive, ReaderNode, SetFacts
<1>4. ASSUME NEW x \in Writers PROVE WriterCounts(x)'
  <2>1. WriterCounts(x) /\ (x = w \/ SameWriter(x))
    BY <1>1, SlotsFacts DEF Others
  <2>2. CASE x = w
    BY <1>1, <1>3, <2>1, <2>2 DEF WriterCounts, Here, HeldW
  <2>3. CASE x # w
    BY <1>a, <1>1, <1>3, <2>1, <2>3 DEF WriterCounts, SameWriter, Here, Slot, HeldW
  <2> QED
    BY <2>2, <2>3
<1>5. ASSUME NEW r \in Readers PROVE ReaderCounts(r)'
  <2>1. ReaderCounts(r) /\ SameReader(r)
    BY <1>1, SlotsFacts, ThreadIds DEF Others
  <2> QED
    BY <1>1, <1>3, <2>1 DEF ReaderCounts, SameReader, Here, HeldR
<1>6. CountInv'
  <2>1. \A m \in Nodes : mem'[m].next # Null => mem'[m].wpos >= Size
    BY <1>1, <1>2, SlotsFacts
  <2>2. \A m \in Gone' : mem'[m].rpos >= Size
    BY <1>1, <1>3, SlotsFacts
  <2>3. \A m \in Nodes : \A i \in Slots : i >= mem'[m].wpos => mem'[m].data[i] \notin Values
    BY <1>1, <1>2, SlotsFacts, Places
  <2> QED
    BY <1>4, <1>5, <2>1, <2>2, <2>3 DEF CountInv
<1>7. SlotInv'
  <2>1. \A x \in Writers : SameWriter(x) \/ pc'[x] \notin {"set", "get"}
    BY <1>1 DEF Others
  <2>2. \A r \in Readers : SameReader(r)
    BY <1>1, ThreadIds DEF Others
  <2>3. \A x \in Writers : pc[x] = "set" => Node(x) \in live
    BY <1>3 DEF HeldW
  <2>4. \A m \in live' : m \in live \/ mem'[m].rpos = 0
    BY <1>1, <1>2
  <2>5. \A m \in live' \cap live : mem'[m].rpos = mem[m].rpos /\ mem'[m].data = mem[m].data
    BY <1>a, <1>3
  <2> QED
    BY <2>1, <2>2, <2>3, <2>4, <2>5, SlotsMoved
<1> QED
  BY <1>6, <1>7 DEF SlotsInv

\* A node that is followed by another one is full.
LEMMA LinkDoneSlots ==
  ASSUME SafeInv, ShapeInv, SlotsInv, Defined, NEW w \in Writers, Link(w), Here(w).next = Null
  PROVE  SlotsInv'
<1>1. /\ Others(w) /\ pc[w] = "link" /\ pc'[w] = "finish" /\ Gone' = Gone /\ live' = live
      /\ Node(w) \in Nodes /\ NextSet(Node(w), local[w].target)
  BY LinkDoneStep
<1>2. /\ \A x \in Writers : pc[x] \in HeldW => Node(x) \in live /\ Node(x) \in Nodes
      /\ \A r \in Readers : pc[r] \in HeldR => Node(r) \in Nodes
      /\ live \subseteq Nodes /\ Gone \subseteq Nodes
  BY DefinedAlive, ReaderNode, SetFacts
<1>3. \A m \in Nodes : /\ mem'[m].wpos = mem[m].wpos /\ mem'[m].rpos = mem[m].rpos
                       /\ mem'[m].data = mem[m].data /\ (m # Node(w) => mem'[m].next = mem[m].next)
  BY <1>1 DEF NextSet
<1>4. ASSUME NEW x \in Writers PROVE WriterCounts(x)'
  <2>1. WriterCounts(x) /\ (x = w \/ SameWriter(x))
    BY <1>1, SlotsFacts DEF Others
  <2>2. CASE x = w
    BY <1>1, <2>2 DEF WriterCounts
  <2>3. CASE x # w
    BY <1>1, <1>2, <1>3, <2>1, <2>3 DEF WriterCounts, SameWriter, Here, Slot, HeldW
  <2> QED
    BY <2>2, <2>3
<1>5. ASSUME NEW r \in Readers PROVE ReaderCounts(r)'
  <2>1. ReaderCounts(r) /\ SameReader(r)
    BY <1>1, SlotsFacts, ThreadIds DEF Others
  <2> QED
    BY <1>2, <1>3, <2>1 DEF ReaderCounts, SameReader, Here, HeldR
<1>6. CountInv'
  <2>1. mem[Node(w)].wpos >= Size
    BY <1>1, <1>2, SlotsFacts DEF WriterCounts, Here, HeldW
  <2>2. \A m \in Nodes : mem'[m].next # Null => mem'[m].wpos >= Size
    BY <1>3, <2>1, SlotsFacts
  <2>3. \A m \in Gone' : mem'[m].rpos >= Size
    BY <1>1, <1>2, <1>3, SlotsFacts
  <2>4. \A m \in Nodes : \A i \in Slots : i >= mem'[m].wpos => mem'[m].data[i] \notin Values
    BY <1>3, SlotsFacts
  <2> QED
    BY <1>4, <1>5, <2>2, <2>3, <2>4 DEF CountInv
<1>7. SlotInv'
  <2>1. \A x \in Writers : SameWriter(x) \/ pc'[x] \notin {"set", "get"}
    BY <1>1 DEF Others
  <2>2. \A r \in Readers : SameReader(r)
    BY <1>1, ThreadIds DEF Others
  <2>3. \A x \in Writers : pc[x] = "set" => Node(x) \in live
    BY <1>2 DEF HeldW
  <2>4. \A m \in live' : m \in live
    BY <1>1
  <2>5. \A m \in live' \cap live : mem'[m].rpos = mem[m].rpos /\ mem'[m].data = mem[m].data
    BY <1>2, <1>3
  <2> QED
    BY <2>1, <2>2, <2>3, <2>4, <2>5, SlotsMoved
<1> QED
  BY <1>6, <1>7 DEF SlotsInv

\* A node that no reader is in is deleted.
LEMMA DeletedSlots ==
  ASSUME SafeInv, SlotsInv, Defined, NEW p \in Nodes, Changed(p, Blank), live' = live \ {p},
         Gone' \subseteq Gone \ {p},
         \A r \in Readers : pc[r] \in HeldR => Node(r) # p,
         \A w \in Writers : SameWriter(w) \/ pc'[w] \notin HeldW \cup HeldR,
         \A r \in Readers : SameReader(r) \/ (pc[r] # "get" /\ pc'[r] \notin HeldW \cup HeldR)
  PROVE  SlotsInv'
<1>1. /\ mem'[p] = Blank /\ \A m \in Nodes \ {p} : mem'[m] = mem[m]
      /\ Blank.next = Null /\ \A i \in Slots : Blank.data[i] \notin Values
  BY BlankNode, Marks DEF Changed
<1>2. /\ \A x \in Writers : pc[x] \in HeldW => Node(x) \in live /\ Node(x) \in Nodes
      /\ \A r \in Readers : pc[r] \in HeldR => Node(r) \in Nodes
      /\ live \subseteq Nodes /\ Gone \subseteq Nodes
  BY DefinedAlive, ReaderNode, SetFacts
<1>3. ASSUME NEW x \in Writers PROVE WriterCounts(x)'
  <2>1. WriterCounts(x)
    BY SlotsFacts
  <2>2. CASE pc'[x] \notin HeldW
    BY <2>2 DEF WriterCounts, HeldW
  <2>3. CASE SameWriter(x)
    BY <1>1, <1>2, <2>1, <2>3 DEF WriterCounts, SameWriter, Here, Slot, HeldW
  <2> QED
    BY <2>2, <2>3
<1>4. ASSUME NEW r \in Readers PROVE ReaderCounts(r)'
  <2>1. ReaderCounts(r)
    BY SlotsFacts
  <2>2. CASE pc'[r] \notin HeldR
    BY <2>2 DEF ReaderCounts, HeldR
  <2>3. CASE SameReader(r)
    BY <1>1, <1>2, <2>1, <2>3 DEF ReaderCounts, SameReader, Here, HeldR
  <2> QED
    BY <2>2, <2>3
<1>5. CountInv'
  <2>1. \A m \in Nodes : mem'[m].next # Null => mem'[m].wpos >= Size
    BY <1>1, SlotsFacts
  <2>2. \A m \in Gone' : mem'[m].rpos >= Size
    BY <1>1, <1>2, SlotsFacts
  <2>3. \A m \in Nodes : \A i \in Slots : i >= mem'[m].wpos => mem'[m].data[i] \notin Values
    BY <1>1, SlotsFacts
  <2> QED
    BY <1>3, <1>4, <2>1, <2>2, <2>3 DEF CountInv
<1>6. SlotInv'
  <2>1. \A x \in Writers : SameWriter(x) \/ pc'[x] \notin {"set", "get"}
    BY DEF HeldW, HeldR
  <2>2. \A r \in Readers : SameReader(r) \/ (pc[r] # "get" /\ pc'[r] \notin {"set", "get"})
    BY DEF HeldW, HeldR
  <2>3. \A x \in Writers : pc[x] = "set" => Node(x) \in live
    BY <1>2 DEF HeldW
  <2>4. \A m \in live' : m \in live
    OBVIOUS
  <2>5. \A m \in live' \cap live : mem'[m].rpos = mem[m].rpos /\ mem'[m].data = mem[m].data
    BY <1>1, <1>2
  <2> QED
    BY <2>1, <2>2, <2>3, <2>4, <2>5, SlotsMoved
<1> QED
  BY <1>5, <1>6 DEF SlotsInv

\* Link where another writer was first keeps the slots.
LEMMA LinkLostSlots ==
  ASSUME SafeInv, SlotsInv, Defined, NEW w \in Writers, Link(w), Here(w).next # Null
  PROVE  SlotsInv'
<1> DEFINE p == local[w].target
<1>1. /\ Others(w) /\ pc'[w] = "protect" /\ p \in Private /\ p \in Nodes
      /\ Gone' = Gone /\ live' = live \ {p} /\ Changed(p, Blank)
  BY LinkLostStep
<1>2. p \notin Gone /\ \A r \in Readers : pc[r] \in HeldR => Node(r) # p
  BY <1>1, ReaderNode DEF SafeInv, OwnInv, Gone, Retired, Unlinked
<1>3. \A x \in Writers : SameWriter(x) \/ pc'[x] \notin HeldW \cup HeldR
  BY <1>1 DEF Others, HeldW, HeldR
<1>4. \A r \in Readers : SameReader(r)
  BY <1>1, ThreadIds DEF Others
<1> QED
  BY <1>1, <1>2, <1>3, <1>4, DeletedSlots

\* Look at the last of the pointers keeps the slots.
LEMMA LookFreeSlots ==
  ASSUME SafeInv, SlotsInv, Defined, NEW r \in Readers, Look(r), hazard[Asked(r)] # Sought(r),
         Asked(r) = LastThread
  PROVE  SlotsInv'
<1> DEFINE p == Sought(r)
<1>1. /\ Others(r) /\ p \in Nodes /\ Gone' = Gone \ {p} /\ live' = live \ {p} /\ Changed(p, Blank)
      /\ pc[r] \in {"retire", "gc"} /\ pc'[r] \in {"retire", "gc", "idle", "protect"}
      /\ \A s \in Readers : pc[s] \in HeldR => Node(s) # p
  BY LookFreeStep
<1>2. \A x \in Writers : SameWriter(x)
  BY <1>1, ThreadIds DEF Others
<1>3. \A s \in Readers : SameReader(s) \/ (pc[s] # "get" /\ pc'[s] \notin HeldW \cup HeldR)
  BY <1>1 DEF Others, HeldW, HeldR
<1> QED
  BY <1>1, <1>2, <1>3, DeletedSlots

\* Readers leave a node when they have claimed all of it.
LEMMA AdvanceDoneSlots ==
  ASSUME SafeInv, SlotsInv, Defined, NEW r \in Readers, Advance(r), read_pos = Node(r)
  PROVE  SlotsInv'
<1>1. /\ Others(r) /\ pc[r] = "advance" /\ pc'[r] = "release" /\ Gone' = Gone \cup {read_pos}
      /\ UNCHANGED <<mem, live>>
  BY AdvanceDoneStep
<1>2. \A x \in Writers : SameWriter(x)
  BY <1>1, ThreadIds DEF Others
<1>3. ASSUME NEW x \in Writers PROVE WriterCounts(x)'
  <2>1. WriterCounts(x) /\ SameWriter(x)
    BY <1>2, SlotsFacts
  <2> QED
    BY <1>1, <2>1 DEF WriterCounts, SameWriter, Here, Slot
<1>4. ASSUME NEW s \in Readers PROVE ReaderCounts(s)'
  <2>1. ReaderCounts(s) /\ (s = r \/ SameReader(s))
    BY <1>1, SlotsFacts DEF Others
  <2> QED
    BY <1>1, <2>1 DEF ReaderCounts, SameReader, Here
<1>5. CountInv'
  <2>1. mem[read_pos].rpos >= Size
    BY <1>1, SlotsFacts DEF ReaderCounts, Here
  <2> QED
    BY <1>1, <1>3, <1>4, <2>1, SlotsFacts DEF CountInv
<1>6. SlotInv'
  <2>1. \A s \in Readers : SameReader(s) \/ (pc[s] # "get" /\ pc'[s] \notin {"set", "get"})
    BY <1>1 DEF Others
  <2>2. \A x \in Writers : pc[x] = "set" => Node(x) \in live
    BY DefinedAlive DEF HeldW
  <2> QED
    BY <1>1, <1>2, <2>1, <2>2, SlotsMoved
<1> QED
  BY <1>5, <1>6 DEF SlotsInv

\* The initial state keeps the slots.
LEMMA InitSlots == Init => SlotsInv
<1> SUFFICES ASSUME Init PROVE SlotsInv
  OBVIOUS
<1>1. \A t \in Threads : pc[t] = "idle" /\ retired[t] = <<>>
  BY DEF Init
<1>2. \A n \in Nodes : /\ mem[n].next = Null /\ mem[n].rpos = 0
                       /\ \A i \in Slots : mem[n].data[i] \notin Values
  BY BlankNode, Marks DEF Init
<1>3. Gone = {}
  BY <1>1, ThreadIds DEF Gone, Retired, Unlinked
<1>4. CountInv
  BY <1>1, <1>2, <1>3, ThreadIds DEF CountInv, WriterCounts, ReaderCounts
<1>5. SlotInv
  <2>1. \A t \in Threads : \A n, i : ~IsAt(t, n, i)
    BY <1>1 DEF IsAt
  <2>2. \A n \in live : \A i \in Slots : ~(i < mem[n].rpos)
    BY <1>2, Places DEF Init
  <2> QED
    BY <2>1, <2>2, ThreadIds DEF SlotInv
<1> QED
  BY <1>4, <1>5 DEF SlotsInv

\* A stuttering step keeps the slots.
LEMMA UnchangedSlots ==
  ASSUME SafeInv, SlotsInv, UNCHANGED vars
  PROVE  SlotsInv'
<1>1. /\ SameSets /\ mem' = mem /\ pc' = pc /\ local' = local
  BY Unmoved
<1> QED
  BY <1>1
  DEF SameSets, SlotsInv, CountInv, SlotInv, WriterCounts, ReaderCounts, IsAt, Node, Here, Slot

\* Every step keeps the slots.
LEMMA NextSlots ==
  ASSUME SafeInv, ShapeInv, SlotsInv, Defined, [Next]_vars
  PROVE  SlotsInv'
BY StepCases, StillSlots, ClaimWriteSlots, SetValueDoneSlots, ClaimReadSlots, GetValueSlots,
   MakesSlots,
   LinkDoneSlots, LinkLostSlots, LookFreeSlots, AdvanceDoneSlots, UnchangedSlots

-----------------------------------------------------------------------------
(* The values: which slots they are in.                                    *)

\* The argument of a push that has not taken effect is in no slot, but in that of the
\* node that its writer is about to link.
LEMMA ArgNew ==
  ASSUME SafeInv, ValueInv, NEW w \in Writers, pc[w] \notin Rest, calls[w] \in 1 .. Calls
  PROVE  /\ Arg(w) \notin pushed /\ Arg(w) \notin popped /\ Arg(w) \in Values
         /\ pc[w] # "link" => \A n \in Nodes : \A i \in Slots : mem[n].data[i] # Arg(w)
<1>1. Unpushed(w, calls[w])
  BY DEF Unpushed, Rest
<1>2. Arg(w) \notin pushed
  BY <1>1 DEF ValueInv, Arg
<1>3. popped \subseteq pushed /\ Arg(w) \in Values
  BY DEF SafeInv, DataInv, Arg, Values
<1>4. ASSUME pc[w] # "link", NEW n \in Nodes, NEW i \in Slots, mem[n].data[i] = Arg(w)
      PROVE  FALSE
  <2>1. PICK x \in Writers : pc[x] = "link" /\ mem[n].data[i] = Arg(x)
    BY <1>2, <1>3, <1>4 DEF SafeInv, DataInv
  <2> QED
    BY <1>4, <2>1 DEF Arg
<1> QED
  BY <1>2, <1>3, <1>4

\* A node's values are those that were pushed, if it is linked.
LEMMA PushedValues ==
  ASSUME SafeInv
  PROVE  pushed \subseteq Values /\ popped \subseteq pushed
BY DEF SafeInv, TypeInv, DataInv

\* What has not been pushed stays so.
LEMMA UnpushedKept ==
  ASSUME ValueInv, NEW t \in Threads, Others(t), pushed' = pushed,
         t \in Writers => calls'[t] = calls[t] /\ (pc[t] \in Rest => pc'[t] \in Rest)
  PROVE  \A w \in Writers : \A k \in 1 .. Calls : Unpushed(w, k)' => <<w, k>> \notin pushed'
<1>1. \A w \in Writers : calls'[w] = calls[w] /\ (pc[w] \in Rest => pc'[w] \in Rest)
  BY DEF Others, SameWriter
<1>2. \A w \in Writers : \A k \in 1 .. Calls : Unpushed(w, k)' => Unpushed(w, k)
  BY <1>1 DEF Unpushed, Rest
<1> QED
  BY <1>2 DEF ValueInv

\* The value of a push that takes effect is one of those no more.
LEMMA UnpushedPushed ==
  ASSUME ValueInv, NEW w \in Writers, Others(w), pushed' = pushed \cup {Arg(w)},
         calls'[w] = calls[w], pc'[w] \in Rest
  PROVE  \A x \in Writers : \A k \in 1 .. Calls : Unpushed(x, k)' => <<x, k>> \notin pushed'
<1> SUFFICES ASSUME NEW x \in Writers, NEW k \in 1 .. Calls, Unpushed(x, k)'
             PROVE  <<x, k>> \notin pushed'
  OBVIOUS
<1>1. CASE x = w
  <2>1. k > calls[w] /\ ~(k = calls[w])
    BY <1>1 DEF Unpushed, Rest
  <2>2. <<x, k>> # Arg(w) /\ Unpushed(x, k)
    BY <1>1, <2>1 DEF Arg, Unpushed
  <2> QED
    BY <2>2 DEF ValueInv
<1>2. CASE x # w
  <2>1. <<x, k>> # Arg(w) /\ Unpushed(x, k)
    BY <1>2 DEF Arg, Unpushed, Others, SameWriter
  <2> QED
    BY <2>1 DEF ValueInv
<1> QED
  BY <1>1, <1>2

\* No slot gets a value.
LEMMA OneSlotKept ==
  ASSUME OneSlotInv,
         \A n \in Nodes : \A i \in Slots :
           mem'[n].data[i] \in Values => mem'[n].data[i] = mem[n].data[i]
  PROVE  OneSlotInv'
BY DEF OneSlotInv

\* A slot gets a value that none had.
LEMMA OneSlotFilled ==
  ASSUME OneSlotInv, NEW p \in Nodes, NEW k \in Slots, NEW v \in Values,
         mem'[p].data[k] = v,
         \A n \in Nodes : \A i \in Slots : mem[n].data[i] # v,
         \A n \in Nodes : \A i \in Slots :
           mem'[n].data[i] \in Values => (n = p /\ i = k) \/ mem'[n].data[i] = mem[n].data[i]
  PROVE  OneSlotInv'
BY DEF OneSlotInv

\* No slot gets a value that was pushed, nor is linked with it.
NothingNew ==
  \A u \in pushed : \A n \in Nodes : \A i \in Slots :
    /\ mem'[n].data[i] = u => mem[n].data[i] = u
    /\ Waits(u, n, i)' => Waits(u, n, i)

\* What waits keeps waiting.
WaitsKept == \A v \in pushed : \A n \in Nodes : \A i \in Slots : Waits(v, n, i) => Waits(v, n, i)'

\* A step that changes no node keeps the values.
LEMMA StillValues ==
  ASSUME SafeInv, ValueInv, NEW t \in Threads, Still(t)
  PROVE  ValueInv' /\ NothingNew /\ WaitsKept
<1>1. /\ Others(t) /\ SameSets /\ UNCHANGED <<mem, pushed, popped>> /\ pc[t] # "get" /\ Counts(t)
  BY DEF Still
<1>2. NothingNew /\ WaitsKept
  BY <1>1 DEF NothingNew, WaitsKept, Waits, SameSets
<1>3. \A r \in Readers : \A n, i : IsAt(r, n, i) => IsAt(r, n, i)'
  <2>1. \A r \in Readers : r = t => pc[r] # "get"
    BY <1>1
  <2> QED
    BY <1>1, <2>1, AtSlots, SameAt DEF Others
<1>4. ASSUME NEW v \in pushed' \ popped' PROVE Kept(v)'
  <2>1. PICK n \in Nodes, i \in Slots :
          mem[n].data[i] = v /\ (Waits(v, n, i) \/ \E r \in Readers : IsAt(r, n, i))
    BY <1>1, <1>4 DEF ValueInv, Kept
  <2> QED
    BY <1>1, <1>2, <1>3, <1>4, <2>1 DEF Kept, WaitsKept
<1>5. \A w \in Writers : \A k \in 1 .. Calls : Unpushed(w, k)' => <<w, k>> \notin pushed'
  <2>1. CASE t \in Writers /\ calls'[t] = calls[t] + 1 /\ Push(t)
    <3>1. \A w \in Writers : \A k \in 1 .. Calls : Unpushed(w, k)' => Unpushed(w, k)
      <4>1. calls[t] \in Nat /\ Calls \in Nat
        BY ThreadIds, MpmcQueueAssumption DEF SafeInv, TypeInv
      <4>2. \A k \in 1 .. Calls : Unpushed(t, k)' => Unpushed(t, k)
        BY <2>1, <4>1 DEF Unpushed
      <4>3. \A w \in Writers : w # t => \A k \in 1 .. Calls : Unpushed(w, k)' => Unpushed(w, k)
        BY <1>1 DEF Unpushed, Others, SameWriter
      <4> QED
        BY <4>2, <4>3
    <3> QED
      BY <1>1, <3>1 DEF ValueInv
  <2>2. CASE t \in Writers => calls'[t] = calls[t] /\ (pc[t] \in Rest => pc'[t] \in Rest)
    BY <1>1, <2>2, UnpushedKept
  <2> QED
    BY <1>1, <2>1, <2>2 DEF Counts
<1> QED
  BY <1>1, <1>2, <1>4, <1>5 DEF ValueInv, OneSlotInv

\* A step that changes no slot, and what is linked only in nodes with nothing to wait.
LEMMA SameValues ==
  ASSUME SafeInv, ValueInv, NEW t \in Threads, Others(t), pc[t] # "get",
         UNCHANGED <<pushed, popped>>, NothingNew, WaitsKept,
         t \in Writers => calls'[t] = calls[t] /\ (pc[t] \in Rest => pc'[t] \in Rest),
         \A n \in Nodes : \A i \in Slots :
           mem'[n].data[i] \in Values => mem'[n].data[i] = mem[n].data[i],
         \A r \in Readers : pc[r] = "get" => mem'[Node(r)].data = mem[Node(r)].data
  PROVE  ValueInv'
<1>1. \A r \in Readers : \A n, i : IsAt(r, n, i) => IsAt(r, n, i)'
  <2>1. \A r \in Readers : r = t => pc[r] # "get"
    OBVIOUS
  <2> QED
    BY <2>1, AtSlots, SameAt DEF Others
<1>2. ASSUME NEW v \in pushed' \ popped' PROVE Kept(v)'
  <2>1. PICK n \in Nodes, i \in Slots :
          mem[n].data[i] = v /\ (Waits(v, n, i) \/ \E r \in Readers : IsAt(r, n, i))
    BY <1>2 DEF ValueInv, Kept
  <2>2. CASE Waits(v, n, i)
    BY <1>2, <2>2 DEF Kept, WaitsKept, Waits
  <2>3. ASSUME NEW r \in Readers, IsAt(r, n, i) PROVE Kept(v)'
    <3>1. mem'[n].data[i] = v
      BY <2>1, <2>3, AtSlots DEF IsAt
    <3> QED
      BY <1>1, <2>3, <3>1 DEF Kept
  <2> QED
    BY <2>1, <2>2, <2>3
<1>3. \A v \in popped' : \A n \in Nodes : \A i \in Slots : mem'[n].data[i] # v
  BY PushedValues DEF ValueInv, NothingNew
<1>4. OneSlotInv'
  BY OneSlotKept DEF ValueInv
<1> QED
  BY <1>2, <1>3, <1>4, UnpushedKept DEF ValueInv

\* ClaimWrite keeps the values.
LEMMA ClaimWriteValues ==
  ASSUME SafeInv, ValueInv, NEW w \in Writers, ClaimWrite(w)
  PROVE  ValueInv' /\ NothingNew /\ WaitsKept
<1>1. /\ Others(w) /\ SameSets /\ pc[w] = "claim" /\ UNCHANGED <<pushed, popped, calls>>
      /\ WposGrown(Node(w))
  BY ClaimWriteStep
<1>2. \A n \in Nodes : mem'[n].rpos = mem[n].rpos /\ mem'[n].data = mem[n].data
  BY <1>1 DEF WposGrown
<1>3. NothingNew /\ WaitsKept
  BY <1>1, <1>2 DEF NothingNew, WaitsKept, Waits, SameSets
<1>4. \A r \in Readers : pc[r] = "get" => Node(r) \in Nodes
  BY ReaderNode DEF HeldR
<1> QED
  BY <1>1, <1>2, <1>3, <1>4, SameValues, ThreadIds DEF Rest

\* SetValue into an empty slot keeps the values.
LEMMA SetValueDoneValues ==
  ASSUME SafeInv, ShapeInv, SlotsInv, ValueInv, Defined,
         NEW w \in Writers, SetValue(w), Slot(w) = Empty
  PROVE  ValueInv' /\ NothingNew /\ WaitsKept
<1> DEFINE q == Node(w)
           k == local[w].pos
<1>1. /\ Others(w) /\ SameSets /\ pc[w] = "set" /\ pc'[w] = "done" /\ UNCHANGED <<popped, calls>>
      /\ pushed' = pushed \cup {Arg(w)} /\ q \in Nodes /\ k \in Slots /\ calls[w] \in 1 .. Calls
      /\ mem[q].data[k] = Empty /\ SlotSet(q, k, Arg(w))
  BY SetValueDoneStep
<1>2. /\ Arg(w) \notin pushed /\ Arg(w) \notin popped /\ Arg(w) \in Values
      /\ \A n \in Nodes : \A i \in Slots : mem[n].data[i] # Arg(w)
  BY <1>1, ArgNew DEF Rest
<1>3. /\ mem'[q].data[k] = Arg(w)
      /\ \A n \in Nodes : /\ mem'[n].rpos = mem[n].rpos
                          /\ \A i \in Slots : n # q \/ i # k => mem'[n].data[i] = mem[n].data[i]
  BY <1>1 DEF SlotSet
<1>4. NothingNew
  BY <1>1, <1>2, <1>3 DEF NothingNew, Waits, SameSets
<1>5. WaitsKept
  <2>1. pushed \subseteq Values /\ Empty \notin Values
    BY PushedValues, Marks
  <2> QED
    BY <1>1, <1>3, <2>1 DEF WaitsKept, Waits, SameSets
<1>6. \A r \in Readers : \A n, i : IsAt(r, n, i) => IsAt(r, n, i)'
  BY <1>1, SameAt, ThreadIds DEF Others
<1>7. ASSUME NEW v, v = Arg(w) PROVE Kept(v)'
  <2>1. CASE \E r \in Readers : IsAt(r, q, k)
    BY <1>1, <1>3, <1>6, <1>7, <2>1 DEF Kept
  <2>2. CASE ~ \E r \in Readers : IsAt(r, q, k)
    <3>1. q \in live /\ q \notin Private
      BY <1>1, WriterNode DEF ShapeInv, HeldW
    <3>2. ~(k < mem[q].rpos)
      BY <1>1, <2>2, <3>1, SlotsFacts, Marks
    <3>3. k >= mem[q].rpos /\ k < Size /\ mem[q].rpos \in Nat
      BY <1>1, <3>2, Fields, Places
    <3>4. q \notin Gone
      <4>1. k \in Nat /\ Size \in Nat /\ ~(mem[q].rpos >= Size)
        BY <1>1, <3>3, Places
      <4> QED
        BY <4>1, SlotsFacts
    <3>5. mem'[q].rpos = mem[q].rpos /\ q \in Linked /\ Linked' = Linked
      BY <1>1, <1>3, <3>1, <3>4 DEF Linked, SameSets
    <3> QED
      BY <1>1, <1>3, <1>7, <3>3, <3>5 DEF Kept, Waits
  <2> QED
    BY <2>1, <2>2
<1>8. ASSUME NEW v \in pushed \ popped PROVE Kept(v)'
  <2>1. PICK n \in Nodes, i \in Slots :
          mem[n].data[i] = v /\ (Waits(v, n, i) \/ \E r \in Readers : IsAt(r, n, i))
    BY <1>8 DEF ValueInv, Kept
  <2>2. mem'[n].data[i] = v
    BY <1>1, <1>3, <2>1, PushedValues, Marks
  <2> QED
    BY <1>5, <1>6, <2>1, <2>2 DEF Kept, WaitsKept
<1>9. OneSlotInv'
  BY <1>1, <1>2, <1>3, OneSlotFilled DEF ValueInv
<1>10. \A x \in Writers : \A j \in 1 .. Calls : Unpushed(x, j)' => <<x, j>> \notin pushed'
  BY <1>1, UnpushedPushed DEF Rest
<1>11. \A v \in popped' : \A n \in Nodes : \A i \in Slots : mem'[n].data[i] # v
  BY <1>1, <1>4, PushedValues DEF ValueInv, NothingNew
<1>12. \A v \in pushed' \ popped' : Kept(v)'
  <2>1. \A v \in pushed' \ popped' : v = Arg(w) \/ v \in pushed \ popped
    BY <1>1
  <2> QED
    BY <1>7, <1>8, <2>1
<1> QED
  BY <1>4, <1>5, <1>9, <1>10, <1>11, <1>12 DEF ValueInv

\* A reader claims the slot that waited first in its node.
LEMMA ClaimReadValues ==
  ASSUME SafeInv, ValueInv, NEW r \in Readers, ClaimRead(r)
  PROVE  ValueInv' /\ NothingNew
<1> DEFINE q == Node(r)
<1>1. /\ Others(r) /\ SameSets /\ pc[r] = "take" /\ UNCHANGED <<pushed, popped, calls>>
      /\ q \in Nodes /\ Node(r)' = q /\ RposGrown(q)
      /\ mem[q].rpos < Size => pc'[r] = "get" /\ local'[r].pos = mem[q].rpos
  BY ClaimReadStep DEF Here
<1>2. \A n \in Nodes : /\ mem[n].rpos \in Nat /\ mem'[n].data = mem[n].data
                       /\ mem'[n].rpos = IF n = q THEN mem[n].rpos + 1 ELSE mem[n].rpos
  BY <1>1, Fields DEF RposGrown
<1>3. NothingNew
  <2>1. \A i \in Slots : i \in Nat
    BY Places
  <2> QED
    BY <1>1, <1>2, <2>1 DEF NothingNew, Waits, SameSets
<1>4. ASSUME NEW v \in pushed' \ popped' PROVE Kept(v)'
  <2>1. PICK n \in Nodes, i \in Slots :
          mem[n].data[i] = v /\ (Waits(v, n, i) \/ \E s \in Readers : IsAt(s, n, i))
    BY <1>1, <1>4 DEF ValueInv, Kept
  <2>2. mem'[n].data[i] = v
    BY <1>2, <2>1
  <2>3. ASSUME NEW s \in Readers, IsAt(s, n, i) PROVE Kept(v)'
    <3>1. s # r /\ IsAt(s, n, i)'
      BY <1>1, <2>3, AtSlots, SameAt DEF Others
    <3> QED
      BY <2>2, <3>1 DEF Kept
  <2>4. CASE Waits(v, n, i)
    <3>1. n \in Linked' /\ i >= mem[n].rpos /\ i \in Nat /\ i < Size
      BY <1>1, <2>4, Places DEF Waits, SameSets
    <3>2. CASE n = q /\ i = mem[q].rpos
      <4>1. IsAt(r, n, i)'
        BY <1>1, <3>1, <3>2 DEF IsAt
      <4> QED
        BY <2>2, <4>1 DEF Kept
    <3>3. CASE ~(n = q /\ i = mem[q].rpos)
      <4>1. i >= mem'[n].rpos
        BY <1>2, <3>1, <3>3
      <4> QED
        BY <2>2, <3>1, <4>1 DEF Kept, Waits
    <3> QED
      BY <3>2, <3>3
  <2> QED
    BY <2>1, <2>3, <2>4
<1>5. OneSlotInv'
  BY <1>2, OneSlotKept DEF ValueInv
<1>6. \A x \in Writers : \A j \in 1 .. Calls : Unpushed(x, j)' => <<x, j>> \notin pushed'
  BY <1>1, UnpushedKept, ThreadIds DEF Rest
<1>7. \A v \in popped' : \A n \in Nodes : \A i \in Slots : mem'[n].data[i] # v
  BY <1>1, <1>2 DEF ValueInv
<1> QED
  BY <1>3, <1>4, <1>5, <1>6, <1>7 DEF ValueInv

\* A value is popped from the slot that it was in.
LEMMA GetValueValues ==
  ASSUME SafeInv, SlotsInv, ValueInv, NEW r \in Readers, GetValue(r)
  PROVE  ValueInv' /\ NothingNew /\ WaitsKept
<1> DEFINE q == Node(r)
           k == local[r].pos
<1>1. /\ Others(r) /\ SameSets /\ pc[r] = "get" /\ UNCHANGED <<pushed, calls>>
      /\ q \in Nodes /\ k \in Slots /\ SlotSet(q, k, Taken)
      /\ popped' = IF mem[q].data[k] \in Values THEN popped \cup {mem[q].data[k]} ELSE popped
  BY GetValueStep
<1>2. /\ mem'[q].data[k] = Taken
      /\ \A n \in Nodes : /\ mem'[n].rpos = mem[n].rpos
                          /\ \A i \in Slots : n # q \/ i # k => mem'[n].data[i] = mem[n].data[i]
  BY <1>1 DEF SlotSet
<1>3. pushed \subseteq Values /\ popped \subseteq pushed /\ Taken \notin Values
  BY PushedValues, Marks
<1>4. NothingNew
  BY <1>1, <1>2, <1>3 DEF NothingNew, Waits, SameSets
<1>5. WaitsKept
  <2>1. k < mem[q].rpos /\ mem[q].rpos \in Nat /\ k \in Nat
    BY <1>1, SlotsFacts, Fields, Places DEF ReaderCounts, Here
  <2>2. \A v : ~Waits(v, q, k)
    BY <2>1 DEF Waits
  <2> QED
    BY <1>1, <1>2, <2>2 DEF WaitsKept, Waits, SameSets
<1>6. ASSUME NEW v \in pushed' \ popped' PROVE Kept(v)'
  <2>1. v \in pushed \ popped /\ v \in Values /\ mem[q].data[k] # v
    BY <1>1, <1>3, <1>6
  <2>2. PICK n \in Nodes, i \in Slots :
          mem[n].data[i] = v /\ (Waits(v, n, i) \/ \E s \in Readers : IsAt(s, n, i))
    BY <2>1 DEF ValueInv, Kept
  <2>3. mem'[n].data[i] = v
    BY <1>2, <2>1, <2>2
  <2>4. ASSUME NEW s \in Readers, IsAt(s, n, i) PROVE Kept(v)'
    <3>1. s # r
      BY <2>1, <2>2, <2>4 DEF IsAt
    <3>2. IsAt(s, n, i)'
      BY <1>1, <2>4, <3>1, SameAt DEF Others
    <3> QED
      BY <2>3, <3>2 DEF Kept
  <2>5. CASE Waits(v, n, i)
    BY <1>5, <2>1, <2>3, <2>5 DEF Kept, WaitsKept
  <2> QED
    BY <2>2, <2>4, <2>5
<1>7. OneSlotInv'
  BY <1>2, <1>3, OneSlotKept DEF ValueInv
<1>8. \A x \in Writers : \A j \in 1 .. Calls : Unpushed(x, j)' => <<x, j>> \notin pushed'
  BY <1>1, UnpushedKept, ThreadIds
<1>9. ASSUME NEW v \in popped', NEW n \in Nodes, NEW i \in Slots, mem'[n].data[i] = v
      PROVE  FALSE
  <2>1. v \in Values /\ (v \in popped \/ v = mem[q].data[k])
    BY <1>1, <1>3, <1>9
  <2>2. (n # q \/ i # k) /\ mem[n].data[i] = v
    BY <1>2, <1>3, <1>9, <2>1
  <2>3. v = mem[q].data[k]
    BY <2>1, <2>2 DEF ValueInv
  <2> QED
    BY <1>1, <2>1, <2>2, <2>3 DEF ValueInv, OneSlotInv
<1> QED
  BY <1>4, <1>5, <1>6, <1>7, <1>8, <1>9 DEF ValueInv

\* NextNode that makes a node keeps the values.
LEMMA MakesValues ==
  ASSUME SafeInv, ShapeInv, ValueInv, NEW w \in Writers, NEW n \in Nodes \ live, Makes(w, n)
  PROVE  ValueInv' /\ NothingNew /\ WaitsKept
<1>1. /\ Others(w) /\ pc[w] = "next" /\ pc'[w] = "link" /\ Linked' = Linked
      /\ UNCHANGED <<pushed, popped, calls>> /\ calls[w] \in 1 .. Calls /\ Made(n, Arg(w))
  BY MakesStep
<1>a. /\ mem'[n].data[0] = Arg(w)
      /\ \A m \in Nodes : /\ mem'[m].next = mem[m].next /\ mem'[m].rpos = mem[m].rpos
                          /\ m # n => mem'[m].wpos = mem[m].wpos
                          /\ \A j \in Slots : m # n \/ j # 0 => mem'[m].data[j] = mem[m].data[j]
  BY ONLY <1>1 DEF Made
<1>2. /\ Arg(w) \notin pushed /\ Arg(w) \notin popped /\ Arg(w) \in Values
      /\ \A m \in Nodes : \A i \in Slots : mem[m].data[i] # Arg(w)
  BY <1>1, ArgNew DEF Rest
<1>3. NothingNew
  BY <1>a, <1>1, <1>2 DEF NothingNew, Waits
<1>4. \A i \in Slots : mem[n].data[i] \notin Values
  BY BlankNode, Marks DEF ShapeInv, BlankInv
<1>5. pushed \subseteq Values /\ popped \subseteq pushed /\ 0 \in Slots
  BY PushedValues, Places
<1>6. WaitsKept
  BY <1>a, <1>1, <1>4, <1>5 DEF WaitsKept, Waits
<1>7. ASSUME NEW v \in pushed' \ popped' PROVE Kept(v)'
  <2>1. PICK m \in Nodes, i \in Slots :
          mem[m].data[i] = v /\ (Waits(v, m, i) \/ \E r \in Readers : IsAt(r, m, i))
    BY <1>1, <1>7 DEF ValueInv, Kept
  <2>2. mem'[m].data[i] = v
    BY <1>a, <1>1, <1>4, <1>5, <1>7, <2>1
  <2>3. \A r \in Readers : IsAt(r, m, i) => IsAt(r, m, i)'
    BY <1>1, SameAt, ThreadIds DEF Others
  <2> QED
    BY <1>1, <1>6, <1>7, <2>1, <2>2, <2>3 DEF Kept, WaitsKept
<1>8. OneSlotInv'
  BY <1>a, <1>1, <1>2, <1>5, OneSlotFilled DEF ValueInv
<1>9. \A x \in Writers : \A j \in 1 .. Calls : Unpushed(x, j)' => <<x, j>> \notin pushed'
  BY <1>1, UnpushedKept, ThreadIds DEF Rest
<1>10. \A v \in popped' : \A m \in Nodes : \A i \in Slots : mem'[m].data[i] # v
  BY <1>1, <1>3, <1>5 DEF ValueInv, NothingNew
<1> QED
  BY <1>3, <1>6, <1>7, <1>8, <1>9, <1>10 DEF ValueInv

\* What is in a new node.
LEMMA FreshNode ==
  ASSUME NEW v
  PROVE  /\ Fresh(v).rpos = 0 /\ Fresh(v).data[0] = v
         /\ \A i \in Slots \ {0} : Fresh(v).data[i] = Empty
BY Places DEF Fresh, Blank, Slots

\* Link of a last node keeps the values.
LEMMA LinkDoneValues ==
  ASSUME SafeInv, ShapeInv, ValueInv, NEW w \in Writers, Link(w), Here(w).next = Null
  PROVE  ValueInv' /\ NothingNew /\ WaitsKept
<1> DEFINE p == local[w].target
<1>1. /\ Others(w) /\ pc[w] = "link" /\ pc'[w] = "finish" /\ Linked' = Linked \cup {p} /\ p \in Nodes
      /\ UNCHANGED <<popped, calls>> /\ calls[w] \in 1 .. Calls
      /\ pushed' = pushed \cup {Arg(w)} /\ NextSet(Node(w), p)
  BY LinkDoneStep
<1>2. \A m \in Nodes : mem'[m].rpos = mem[m].rpos /\ mem'[m].data = mem[m].data
  BY <1>1 DEF NextSet
<1>3. Arg(w) \notin pushed /\ Arg(w) \notin popped /\ Arg(w) \in Values
  BY <1>1, ArgNew DEF Rest
<1>4. /\ mem[p].rpos = 0 /\ mem[p].data[0] = Arg(w)
      /\ \A i \in Slots \ {0} : mem[p].data[i] = Empty
  BY <1>1, BlankNode, FreshNode DEF ShapeInv, BlankInv
<1>5. pushed \subseteq Values /\ popped \subseteq pushed /\ 0 \in Slots /\ Empty \notin Values
  BY PushedValues, Places, Marks
<1>6. NothingNew
  <2>1. \A u \in pushed : \A i \in Slots : mem[p].data[i] # u
    BY <1>3, <1>4, <1>5
  <2> QED
    BY <1>1, <1>2, <2>1 DEF NothingNew, Waits
<1>7. WaitsKept
  BY <1>1, <1>2 DEF WaitsKept, Waits
<1>8. ASSUME NEW v, v = Arg(w) PROVE Kept(v)'
  <2>1. mem'[p].rpos = 0 /\ mem'[p].data[0] = v
    BY <1>1, <1>2, <1>4, <1>8
  <2>2. p \in Linked' /\ p \in Nodes /\ 0 \in Slots
    BY <1>1, <1>5
  <2>3. \A n \in Nodes : n = p => Waits(v, n, 0)'
    BY <2>1, <2>2 DEF Waits
  <2> QED
    BY <2>1, <2>2, <2>3 DEF Kept
<1>9. ASSUME NEW v \in pushed \ popped PROVE Kept(v)'
  <2>1. PICK m \in Nodes, i \in Slots :
          mem[m].data[i] = v /\ (Waits(v, m, i) \/ \E r \in Readers : IsAt(r, m, i))
    BY <1>9 DEF ValueInv, Kept
  <2>2. \A r \in Readers : IsAt(r, m, i) => IsAt(r, m, i)'
    BY <1>1, SameAt, ThreadIds DEF Others
  <2> QED
    BY <1>2, <1>7, <1>9, <2>1, <2>2 DEF Kept, WaitsKept
<1>10. OneSlotInv'
  BY <1>2, OneSlotKept DEF ValueInv
<1>11. \A x \in Writers : \A j \in 1 .. Calls : Unpushed(x, j)' => <<x, j>> \notin pushed'
  BY <1>1, UnpushedPushed DEF Rest
<1>12. \A v \in popped' : \A m \in Nodes : \A i \in Slots : mem'[m].data[i] # v
  BY <1>1, <1>6, <1>5 DEF ValueInv, NothingNew
<1>13. \A v \in pushed' \ popped' : Kept(v)'
  <2>1. \A v \in pushed' \ popped' : v = Arg(w) \/ v \in pushed \ popped
    BY <1>1
  <2> QED
    BY <1>8, <1>9, <2>1
<1> QED
  BY <1>6, <1>7, <1>10, <1>11, <1>12, <1>13 DEF ValueInv

\* A node is deleted that is not linked and that no reader is in.
LEMMA DeletedValues ==
  ASSUME SafeInv, ValueInv, NEW t \in Threads, Others(t), pc[t] # "get", NEW p \in Nodes,
         Changed(p, Blank), p \notin Linked, Linked' = Linked, UNCHANGED <<pushed, popped>>,
         t \in Writers => calls'[t] = calls[t] /\ (pc[t] \in Rest => pc'[t] \in Rest),
         \A r \in Readers : pc[r] = "get" => Node(r) # p
  PROVE  ValueInv' /\ NothingNew /\ WaitsKept
<1>1. /\ \A m \in Nodes \ {p} : mem'[m] = mem[m]
      /\ \A i \in Slots : mem'[p].data[i] \notin Values
  BY BlankNode, Marks DEF Changed
<1>2. NothingNew /\ WaitsKept
  BY <1>1, PushedValues, SetFacts DEF NothingNew, WaitsKept, Waits
<1>3. \A r \in Readers : pc[r] = "get" => mem'[Node(r)].data = mem[Node(r)].data
  BY <1>1, ReaderNode DEF HeldR
<1>4. \A n \in Nodes : \A i \in Slots :
        mem'[n].data[i] \in Values => mem'[n].data[i] = mem[n].data[i]
  BY <1>1
<1> QED
  BY <1>2, <1>3, <1>4, SameValues

\* Link where another writer was first keeps the values.
LEMMA LinkLostValues ==
  ASSUME SafeInv, ValueInv, NEW w \in Writers, Link(w), Here(w).next # Null
  PROVE  ValueInv' /\ NothingNew /\ WaitsKept
<1> DEFINE p == local[w].target
<1>1. /\ Others(w) /\ pc[w] = "link" /\ p \in Private /\ p \in Nodes /\ Linked' = Linked
      /\ UNCHANGED <<pushed, popped, calls>> /\ Changed(p, Blank)
  BY LinkLostStep
<1>2. p \notin Linked /\ \A r \in Readers : pc[r] = "get" => Node(r) # p
  BY <1>1, ReaderNode, SetFacts DEF HeldR
<1> QED
  BY <1>1, <1>2, DeletedValues, ThreadIds DEF Rest

\* Look at the last of the pointers keeps the values.
LEMMA LookFreeValues ==
  ASSUME SafeInv, ValueInv, NEW r \in Readers, Look(r), hazard[Asked(r)] # Sought(r),
         Asked(r) = LastThread
  PROVE  ValueInv' /\ NothingNew /\ WaitsKept
<1> DEFINE p == Sought(r)
<1>1. /\ Others(r) /\ pc[r] \in {"retire", "gc"} /\ p \in Gone /\ p \in Nodes /\ Linked' = Linked
      /\ UNCHANGED <<pushed, popped, calls>> /\ Changed(p, Blank)
      /\ \A s \in Readers : pc[s] \in HeldR => Node(s) # p
  BY LookFreeStep
<1>2. p \notin Linked /\ \A s \in Readers : pc[s] = "get" => Node(s) # p
  BY <1>1, SetFacts DEF HeldR
<1> QED
  BY <1>1, <1>2, DeletedValues, ThreadIds

\* Nothing waits in a node that the readers leave.
LEMMA AdvanceDoneValues ==
  ASSUME SafeInv, SlotsInv, ValueInv, NEW r \in Readers, Advance(r), read_pos = Node(r)
  PROVE  ValueInv' /\ NothingNew /\ WaitsKept
<1>1. /\ Others(r) /\ pc[r] = "advance" /\ Linked' = Linked \ {read_pos}
      /\ UNCHANGED <<mem, pushed, popped, calls>> /\ read_pos \in Nodes
  BY AdvanceDoneStep, SetFacts
<1>2. mem[read_pos].rpos >= Size
  BY <1>1, SlotsFacts DEF ReaderCounts, Here
<1>3. \A v, i : ~Waits(v, read_pos, i)
  BY <1>1, <1>2, Fields, Places DEF Waits
<1>4. NothingNew /\ WaitsKept
  BY <1>1, <1>3 DEF NothingNew, WaitsKept, Waits
<1> QED
  BY <1>1, <1>4, SameValues, ThreadIds

\* The initial state keeps the values.
LEMMA InitValues == Init => ValueInv
<1> SUFFICES ASSUME Init PROVE ValueInv
  OBVIOUS
<1>1. \A n \in Nodes : \A i \in Slots : mem[n].data[i] \notin Values
  BY BlankNode, Marks DEF Init
<1>2. pushed = {} /\ popped = {}
  BY DEF Init
<1> QED
  BY <1>1, <1>2 DEF ValueInv, OneSlotInv

\* A stuttering step keeps the values.
LEMMA UnchangedValues ==
  ASSUME ValueInv, UNCHANGED vars
  PROVE  ValueInv' /\ NothingNew
<1>1. UNCHANGED <<mem, pushed, popped, pc, local, calls>> /\ Linked' = Linked
  BY Unmoved DEF SameSets
<1>2. ValueInv'
  BY <1>1 DEF ValueInv, OneSlotInv, Kept, Waits, IsAt, Node, Unpushed
<1> QED
  BY <1>1, <1>2 DEF NothingNew, Waits

\* Every step keeps the values.
LEMMA NextValues ==
  ASSUME SafeInv, ShapeInv, SlotsInv, ValueInv, Defined, [Next]_vars
  PROVE  ValueInv' /\ NothingNew
BY UnchangedValues, StepCases, StillValues, ClaimWriteValues, SetValueDoneValues, ClaimReadValues,
   GetValueValues, MakesValues, LinkDoneValues, LinkLostValues, LookFreeValues, AdvanceDoneValues

\* The slots that Conserved counts.
LEMMA Counted ==
  ASSUME SafeInv, ShapeInv, NEW v
  PROVE  \A s : s \in Holds(Unread \cup AtReaders, v) <=>
                  \E n \in Nodes : \E i \in Slots :
                    /\ s = <<n, i>> /\ mem[n].data[i] = v
                    /\ Waits(v, n, i) \/ \E r \in Readers : IsAt(r, n, i)
<1>1. ChainFrom(read_pos) = Linked /\ Linked \subseteq Nodes
  BY ChainIsLinked, SetFacts
<1>2. \A s : s \in Unread <=>
               \E n \in Nodes : \E i \in Slots : s = <<n, i>> /\ n \in Linked /\ i >= mem[n].rpos
  BY <1>1 DEF Unread, Slots
<1>3. \A r \in Readers : pc[r] = "get" => Node(r) \in Nodes /\ local[r].pos \in Slots
  BY ReaderNode, LocalFields, ThreadIds, Places
  DEF HeldR, SafeInv, KnowInv, ReaderKnows, Slots
<1>4. \A s : s \in AtReaders <=>
               \E n \in Nodes : \E i \in Slots : s = <<n, i>> /\ \E r \in Readers : IsAt(r, n, i)
  <2>1. \A r \in Readers : \A n, i :
          IsAt(r, n, i) <=> pc[r] = "get" /\ Node(r) = n /\ local[r].pos = i
    BY AtSlots DEF IsAt
  <2> QED
    BY <1>3, <2>1 DEF AtReaders
<1> QED
  BY <1>2, <1>4 DEF Holds, Waits

-----------------------------------------------------------------------------
(* What a reader that finds nothing has seen.                              *)

\* What a reader has seen in its node stays true of it.
SeenKept ==
  \A r \in Readers : pc[r] \in HeldR =>
    \A i \in Slots : i < mem[Node(r)].rpos => i < mem'[Node(r)].rpos

\* Nothing is taken back.
LEMMA StepsKeep ==
  ASSUME SafeInv, [Next]_vars
  PROVE  SeenKept /\ pushed \subseteq pushed'
<1>1. \A r \in Readers : pc[r] \in HeldR => Node(r) \in Nodes
  BY ReaderNode
<1>2. \A n \in Nodes : mem[n].rpos \in Nat
  BY Fields
<1>3. \A i \in Slots : i \in Nat
  BY Places
<1>4. ASSUME NEW t \in Threads, Still(t) PROVE SeenKept /\ pushed \subseteq pushed'
  BY <1>4 DEF Still, SeenKept
<1>5. ASSUME NEW w \in Writers, ClaimWrite(w) PROVE SeenKept /\ pushed \subseteq pushed'
  <2>1. WposGrown(Node(w)) /\ pushed' = pushed
    BY <1>5, ClaimWriteStep
  <2> QED
    BY <1>1, <2>1 DEF SeenKept, WposGrown
<1>6. ASSUME NEW w \in Writers, SetValue(w),
             Slot(w) = Empty PROVE SeenKept /\ pushed \subseteq pushed'
  <2>1. SlotSet(Node(w), local[w].pos, Arg(w)) /\ pushed' = pushed \cup {Arg(w)}
    BY <1>6, SetValueDoneStep
  <2> QED
    BY <1>1, <2>1 DEF SeenKept, SlotSet
<1>7. ASSUME NEW w \in Writers, NEW n \in Nodes \ live, Makes(w, n)
      PROVE  SeenKept /\ pushed \subseteq pushed'
  <2>1. pushed' = pushed /\ \A m \in Nodes : mem'[m].rpos = mem[m].rpos
    BY <1>7, MakesStep DEF Made
  <2> QED
    BY <1>1, <2>1 DEF SeenKept
<1>8. ASSUME NEW w \in Writers, Link(w),
             Here(w).next = Null PROVE SeenKept /\ pushed \subseteq pushed'
  <2>1. NextSet(Node(w), local[w].target) /\ pushed' = pushed \cup {Arg(w)}
    BY <1>8, LinkDoneStep
  <2> QED
    BY <1>1, <2>1 DEF SeenKept, NextSet
<1>9. ASSUME NEW w \in Writers, Link(w),
             Here(w).next # Null PROVE SeenKept /\ pushed \subseteq pushed'
  <2>1. /\ Changed(local[w].target, Blank) /\ local[w].target \in Private /\ pushed' = pushed
    BY <1>9, LinkLostStep
  <2>2. \A r \in Readers : pc[r] \in HeldR => Node(r) # local[w].target
    BY <2>1, ReaderNode
  <2> QED
    BY <1>1, <2>1, <2>2 DEF SeenKept, Changed
<1>10. ASSUME NEW r \in Readers, ClaimRead(r) PROVE SeenKept /\ pushed \subseteq pushed'
  <2>1. RposGrown(Node(r)) /\ Node(r) \in Nodes /\ pushed' = pushed
    BY <1>10, ClaimReadStep
  <2>2. \A n \in Nodes : \A i \in Slots : i < mem[n].rpos => i < mem'[n].rpos
    BY <1>2, <1>3, <2>1 DEF RposGrown
  <2> QED
    BY <1>1, <2>1, <2>2 DEF SeenKept
<1>11. ASSUME NEW r \in Readers, GetValue(r) PROVE SeenKept /\ pushed \subseteq pushed'
  <2>1. SlotSet(Node(r), local[r].pos, Taken) /\ pushed' = pushed
    BY <1>11, GetValueStep
  <2> QED
    BY <1>1, <2>1 DEF SeenKept, SlotSet
<1>12. ASSUME NEW r \in Readers, Advance(r), read_pos = Node(r)
       PROVE  SeenKept /\ pushed \subseteq pushed'
  BY <1>12, AdvanceDoneStep DEF SeenKept
<1>13. ASSUME NEW r \in Readers, Look(r), hazard[Asked(r)] # Sought(r), Asked(r) = LastThread
       PROVE  SeenKept /\ pushed \subseteq pushed'
  <2>1. /\ Changed(Sought(r), Blank) /\ pushed' = pushed
        /\ \A s \in Readers : pc[s] \in HeldR => Node(s) # Sought(r)
    BY <1>13, LookFreeStep
  <2> QED
    BY <1>1, <2>1 DEF SeenKept, Changed
<1>14. CASE UNCHANGED vars
  BY <1>14, Unmoved DEF SeenKept
<1> QED
  BY <1>4, <1>5, <1>6, <1>7, <1>8, <1>9, <1>10, <1>11, <1>12, <1>13, <1>14, StepCases

\* What a reader that stays has found stays so.
LEMMA FindsKept ==
  ASSUME NEW r \in Readers, Finds(r), SameReader(r), SafeInv, NothingNew, SeenKept,
         pushed \subseteq pushed'
  PROVE  Finds(r)'
<1>1. before'[r] \subseteq pushed' /\ before[r] \subseteq pushed /\ before'[r] = before[r]
  BY DEF Finds, SameReader
<1>2. pc[r] \in HeldR => Node(r) \in Nodes
  BY ReaderNode
<1>3. \A u \in before[r] : \A n \in Nodes : \A i \in Slots :
        /\ mem'[n].data[i] = u => mem[n].data[i] = u
        /\ Waits(u, n, i)' => Waits(u, n, i)
  BY <1>1 DEF NothingNew
<1>4. pc'[r] = "compare" => \A i \in Slots : Here(r)'.data[i] \in before'[r] => i < local'[r].pos
  BY <1>1, <1>2, <1>3 DEF Finds, SameReader, Here, HeldR
<1>5. pc'[r] = "last" => \A i \in Slots : Here(r)'.data[i] \in before'[r] => i < Here(r)'.rpos
  <2> SUFFICES ASSUME pc'[r] = "last", NEW i \in Slots, Here(r)'.data[i] \in before'[r]
               PROVE  i < Here(r)'.rpos
    OBVIOUS
  <2>1. pc[r] = "last" /\ Here(r)' = mem'[Node(r)] /\ Node(r) \in Nodes
    BY <1>2 DEF SameReader, Here, HeldR
  <2>2. Here(r).data[i] \in before[r]
    BY <1>1, <1>3, <2>1 DEF Here
  <2>3. i < mem[Node(r)].rpos
    BY <2>1, <2>2 DEF Finds, Here
  <2> QED
    BY <2>1, <2>3 DEF SeenKept, HeldR
<1>6. pc'[r] = "empty" => \A v \in before'[r] : \A n \in Nodes : \A i \in Slots : ~Waits(v, n, i)'
  BY <1>1, <1>3 DEF Finds, SameReader
<1> QED
  BY <1>1, <1>4, <1>5, <1>6 DEF Finds

\* The reader is in the last node: it is the only one.
LEMMA OnlyNode ==
  ASSUME SafeInv, ShapeInv, NEW r \in Readers, pc[r] \in HeldR, Here(r).next = Null
  PROVE  Linked = {Node(r)}
<1>1. Node(r) \in live /\ Node(r) \notin Private /\ Node(r) \in Nodes
  BY ReaderNode
<1>2. Node(r) \in Linked
  BY <1>1, SetFacts DEF Here
<1>3. Node(r) = read_pos
  BY <1>2 DEF SafeInv, ReadInv, Protected
<1>4. Closed({read_pos}) /\ {read_pos} \in SUBSET Linked
  BY <1>2, <1>3 DEF Closed, Here
<1> QED
  BY <1>3, <1>4 DEF ShapeInv, ChainInv

\* A reader that looks on finds what it may conclude from.
LEMMA LooksFinds ==
  ASSUME SafeInv, ShapeInv, SlotsInv, NEW r \in Readers, Still(r), Finds(r)
  PROVE  Finds(r)'
<1>1. /\ mem' = mem /\ pushed' = pushed /\ SameSets
      /\ pc'[r] \in {"compare", "last", "empty"} =>
           before'[r] = before[r] /\ (ReadWritePos(r) \/ Compare(r) \/ LastNode(r) \/ After(r))
      /\ before'[r] \in {before[r], {}, pushed \ popped}
  BY ThreadIds DEF Still, Looks
<1>2. before[r] \subseteq pushed /\ before'[r] \subseteq pushed' /\ pushed \subseteq Values
  BY <1>1, PushedValues DEF Finds
<1>3. CASE pc'[r] \notin {"compare", "last", "empty"}
  BY <1>2, <1>3 DEF Finds
<1>4. CASE pc'[r] \in {"compare", "last", "empty"} /\ ReadWritePos(r)
  <2>1. /\ pc[r] = "look" /\ Moved(r, "compare", [local[r] EXCEPT !.pos = Here(r).wpos])
    BY <1>4, ReadWritePosEffect DEF SafeInv, ReadWritePos
  <2>2. Node(r) \in Nodes /\ local[r] \in LocalType
    BY <2>1, ReaderNode, LocalFields, ThreadIds DEF HeldR
  <2>3. pc'[r] = "compare" /\ local'[r].pos = Here(r).wpos /\ Node(r)' = Node(r)
    BY <2>1, <2>2 DEF Moved, Node, LocalType
  <2>4. \A i \in Slots : Here(r).data[i] \in Values => ~(i >= Here(r).wpos)
    BY <2>2, SlotsFacts DEF Here
  <2>5. \A i \in Slots : Here(r).data[i] \in Values => i < Here(r).wpos
    BY <2>2, <2>4, Fields, Places DEF Here
  <2> QED
    BY <1>1, <1>2, <1>4, <2>3, <2>5 DEF Finds, Here
<1>5. CASE pc'[r] \in {"compare", "last", "empty"} /\ Compare(r)
  <2>1. /\ pc[r] = "compare"
        /\ Moved(r, IF local[r].pos <= Here(r).rpos THEN "last" ELSE "take", At(Node(r)))
    BY <1>5, CompareEffect DEF SafeInv, Compare
  <2>2. Node(r) \in Nodes /\ local[r].pos \in Nat
    BY <2>1, ReaderNode, LocalFields, ThreadIds DEF HeldR
  <2>3. pc'[r] = "last" /\ local[r].pos <= Here(r).rpos /\ Node(r)' = Node(r)
    BY <1>5, <2>1, <2>2, AtNode DEF Moved, Node
  <2>4. \A i \in Slots : Here(r).data[i] \in before[r] => i < local[r].pos
    BY <2>1 DEF Finds
  <2>5. \A i \in Slots : Here(r).data[i] \in before[r] => i < Here(r).rpos
    BY <2>2, <2>3, <2>4, Fields, Places DEF Here
  <2> QED
    BY <1>1, <1>2, <1>5, <2>3, <2>5 DEF Finds, Here
<1>6. CASE pc'[r] \in {"compare", "last", "empty"} /\ LastNode(r)
  <2>1. /\ pc[r] = "last"
        /\ pc'[r] = IF Here(r).next = Null THEN "empty" ELSE "take"
    BY <1>6, LastNodeEffect DEF SafeInv, LastNode, Moved
  <2>2. pc'[r] = "empty" /\ Here(r).next = Null
    BY <1>6, <2>1
  <2>3. Linked = {Node(r)} /\ Node(r) \in Nodes
    BY <2>1, <2>2, OnlyNode, ReaderNode DEF HeldR
  <2>4. \A i \in Slots : Here(r).data[i] \in before[r] => i < Here(r).rpos
    BY <2>1 DEF Finds
  <2>5. \A v \in before[r] : \A n \in Nodes : \A i \in Slots : ~Waits(v, n, i)
    BY <2>3, <2>4, Fields, Places DEF Waits, Here
  <2> QED
    BY <1>1, <1>2, <1>6, <2>2, <2>5 DEF Finds, Waits, SameSets
<1>7. CASE pc'[r] \in {"compare", "last", "empty"} /\ After(r)
  <2>1. /\ pc[r] = "after"
        /\ pc'[r] = IF Here(r).next = Null THEN "empty" ELSE "advance"
    BY <1>7, AfterEffect DEF SafeInv, After, Moved
  <2>2. pc'[r] = "empty" /\ Here(r).next = Null
    BY <1>7, <2>1
  <2>3. Linked = {Node(r)} /\ Node(r) \in Nodes
    BY <2>1, <2>2, OnlyNode, ReaderNode DEF HeldR
  <2>4. Here(r).rpos >= Size
    BY <2>1, SlotsFacts DEF ReaderCounts
  <2>5. \A v \in before[r] : \A n \in Nodes : \A i \in Slots : ~Waits(v, n, i)
    BY <2>3, <2>4, Fields, Places DEF Waits, Here
  <2> QED
    BY <1>1, <1>2, <1>7, <2>2, <2>5 DEF Finds, Waits, SameSets
<1> QED
  BY <1>1, <1>3, <1>4, <1>5, <1>6, <1>7

\* A step by which a reader comes to find nothing is one of those.
LEMMA OtherFinds ==
  ASSUME NEW r \in Readers, Finds(r), before' = before, pushed \subseteq pushed',
         pc'[r] \notin {"compare", "last", "empty"}
  PROVE  Finds(r)'
BY DEF Finds

\* Every step keeps what a reader has found.
LEMMA NextEmpty ==
  ASSUME SafeInv, ShapeInv, SlotsInv, EmptyInv, NothingNew, [Next]_vars
  PROVE  EmptyInv'
<1> SUFFICES ASSUME NEW r \in Readers PROVE Finds(r)'
  BY DEF EmptyInv
<1>1. Finds(r) /\ SeenKept /\ pushed \subseteq pushed' /\ r \in Threads /\ r \notin Writers
  BY StepsKeep, ThreadIds DEF EmptyInv
<1>2. CASE SameReader(r)
  BY <1>1, <1>2, FindsKept
<1>3. CASE Still(r)
  BY <1>1, <1>3, LooksFinds
<1>4. CASE before' = before /\ pc'[r] \notin {"compare", "last", "empty"}
  BY <1>1, <1>4, OtherFinds
<1>5. SameReader(r) \/ Still(r) \/ (before' = before /\ pc'[r] \notin {"compare", "last", "empty"})
  <2>1. ASSUME NEW t \in Threads, Still(t) PROVE SameReader(r) \/ Still(r)
    BY <2>1 DEF Still, Others
  <2>2. ASSUME NEW w \in Writers, Others(w) PROVE SameReader(r)
    BY <1>1, <2>2 DEF Others
  <2>3. ASSUME NEW w \in Writers, ClaimWrite(w) PROVE SameReader(r)
    BY <2>2, <2>3, ClaimWriteStep
  <2>4. ASSUME NEW w \in Writers, SetValue(w), Slot(w) = Empty PROVE SameReader(r)
    BY <2>2, <2>4, SetValueDoneStep
  <2>5. ASSUME NEW w \in Writers, NEW n \in Nodes \ live, Makes(w, n) PROVE SameReader(r)
    BY <2>2, <2>5, MakesStep
  <2>6. ASSUME NEW w \in Writers, Link(w), Here(w).next = Null PROVE SameReader(r)
    BY <2>2, <2>6, LinkDoneStep
  <2>7. ASSUME NEW w \in Writers, Link(w), Here(w).next # Null PROVE SameReader(r)
    BY <2>2, <2>7, LinkLostStep
  <2> DEFINE Other == before' = before /\ pc'[r] \notin {"compare", "last", "empty"}
  <2>8. ASSUME NEW s \in Readers, Others(s), before' = before,
               pc'[s] \notin {"compare", "last", "empty"}
        PROVE  SameReader(r) \/ Other
    BY <2>8 DEF Others
  <2>9. ASSUME NEW s \in Readers, ClaimRead(s) PROVE SameReader(r) \/ Other
    <3>1. Others(s) /\ before' = before /\ pc'[s] \in {"get", "after"}
      BY <2>9, ClaimReadStep
    <3> QED
      BY <2>8, <3>1
  <2>10. ASSUME NEW s \in Readers, GetValue(s) PROVE SameReader(r) \/ Other
    <3>1. Others(s) /\ before' = before /\ pc'[s] \in {"done", "protect"}
      BY <2>10, GetValueStep
    <3> QED
      BY <2>8, <3>1
  <2>11. ASSUME NEW s \in Readers, Advance(s), read_pos = Node(s) PROVE SameReader(r) \/ Other
    <3>1. Others(s) /\ before' = before /\ pc'[s] = "release"
      BY <2>11, AdvanceDoneStep
    <3> QED
      BY <2>8, <3>1
  <2>12. ASSUME NEW s \in Readers, Look(s), hazard[Asked(s)] # Sought(s), Asked(s) = LastThread
         PROVE  SameReader(r) \/ Other
    <3>1. Others(s) /\ before' = before /\ pc'[s] \in {"retire", "gc", "idle", "protect"}
      BY <2>12, LookFreeStep
    <3> QED
      BY <2>8, <3>1
  <2>13. CASE UNCHANGED vars
    BY <2>13, Unmoved
  <2> QED
    BY <2>1, <2>3, <2>4, <2>5, <2>6, <2>7, <2>9, <2>10, <2>11, <2>12, <2>13, StepCases
<1> QED
  BY <1>2, <1>3, <1>4, <1>5

\* No reader has found anything at first.
LEMMA InitEmpty == Init => EmptyInv
BY ThreadIds DEF Init, EmptyInv, Finds

\* A stuttering step keeps what a reader has found.
LEMMA UnchangedEmpty ==
  ASSUME SafeInv, ShapeInv, SlotsInv, ValueInv, EmptyInv, UNCHANGED vars
  PROVE  EmptyInv'
BY UnchangedValues, NextEmpty

-----------------------------------------------------------------------------
(* The order of the values.                                                *)

\* What is older than a value was pushed.
LEMMA OlderPushed ==
  ASSUME SafeInv, OrderInv
  PROVE  /\ pushed \subseteq Values
         /\ \A v \in Values : older[v] \subseteq pushed
         /\ \A w \in Writers : pc[w] = "set" => Arg(w) \in Values
BY PushedValues, ArgValue DEF OrderInv, SafeInv, KnowInv, WriterKnows

\* What is behind another value stays so.
LEMMA BehindKept ==
  ASSUME SafeInv, OrderInv, NothingNew, LinksKept,
         NEW w \in Writers, SameWriter(w), older'[Arg(w)] = older[Arg(w)]
  PROVE  Behind(w)'
<1> SUFFICES ASSUME pc'[w] = "set", NEW u \in older'[Arg(w)'], NEW n \in Nodes, NEW i \in Slots,
                    Waits(u, n, i)'
             PROVE  Node(w)' \in ChainFrom(n)' /\ (Node(w)' = n => i < local'[w].pos)
  BY DEF Behind
<1>1. /\ pc[w] = "set" /\ Node(w)' = Node(w) /\ local'[w] = local[w] /\ Arg(w)' = Arg(w)
  BY DEF SameWriter
<1>2. u \in older[Arg(w)] /\ u \in pushed
  BY <1>1, OlderPushed
<1>3. Waits(u, n, i) /\ n \in Linked
  BY <1>2 DEF NothingNew, Waits
<1>4. Node(w) \in ChainFrom(n) /\ (Node(w) = n => i < local[w].pos)
  BY <1>1, <1>2, <1>3 DEF OrderInv, Behind
<1> QED
  BY <1>1, <1>3, <1>4, ChainKept

\* What a value is behind of stays before it.
LEMMA OrderedKept ==
  ASSUME SafeInv, OrderInv, NothingNew, WaitsKept, LinksKept,
         NEW v \in pushed, older'[v] = older[v]
  PROVE  Ordered(v)'
<1> SUFFICES ASSUME NEW u \in older[v], NEW n \in Nodes, NEW i \in Slots, Waits(u, n, i)'
             PROVE  \E m \in ChainFrom(n)' : \E j \in Slots : Waits(v, m, j)' /\ (m = n => i < j)
  BY DEF Ordered
<1>1. u \in pushed
  BY OlderPushed
<1>2. Waits(u, n, i) /\ n \in Linked
  BY <1>1 DEF NothingNew, Waits
<1>3. PICK m \in ChainFrom(n), j \in Slots : Waits(v, m, j) /\ (m = n => i < j)
  BY <1>2 DEF OrderInv, Ordered
<1>4. m \in Nodes /\ m \in ChainFrom(n)'
  BY <1>2, <1>3, ChainKept DEF ChainFrom
<1> QED
  BY <1>3, <1>4 DEF WaitsKept

\* A step that pushes nothing and brings no writer to a slot.
LEMMA SameOrder ==
  ASSUME SafeInv, OrderInv, NothingNew, WaitsKept, LinksKept, UNCHANGED <<pushed, older>>,
         \A w \in Writers : SameWriter(w) \/ pc'[w] # "set"
  PROVE  OrderInv'
<1>1. \A v \in pushed' : Ordered(v)'
  BY OrderedKept
<1>2. \A w \in Writers : Behind(w)'
  BY BehindKept DEF Behind
<1> QED
  BY <1>1, <1>2, OlderPushed DEF OrderInv

\* A push begins behind all that were pushed.
LEMMA PushOrder ==
  ASSUME SafeInv, ValueInv, OrderInv, NothingNew, WaitsKept, LinksKept, NEW w \in Writers, Push(w),
         Others(w), pushed' = pushed, pc'[w] # "set", calls'[w] = calls[w] + 1
  PROVE  OrderInv'
<1> DEFINE new == <<w, calls[w] + 1>>
<1>1. older \in [Values -> SUBSET Values] /\ older' = [older EXCEPT ![new] = pushed]
  BY DEF SafeInv, TypeInv, Push
<1>2. \A v \in Values : v # new => older'[v] = older[v]
  BY <1>1
<1>3. \A v \in Values : older'[v] \subseteq pushed
  BY <1>1, OlderPushed
<1>4. new \notin pushed
  <2>1. calls[w] \in Nat
    BY ThreadIds DEF SafeInv, TypeInv
  <2>2. new \in Values => calls[w] + 1 \in 1 .. Calls /\ Unpushed(w, calls[w] + 1)
    BY <2>1 DEF Values, Unpushed
  <2> QED
    BY <2>2, OlderPushed DEF ValueInv
<1>5. \A v \in pushed' : Ordered(v)'
  BY <1>2, <1>4, OrderedKept, OlderPushed
<1>6. ASSUME NEW x \in Writers PROVE Behind(x)'
  <2>1. CASE pc'[x] # "set"
    BY <2>1 DEF Behind
  <2>2. CASE pc'[x] = "set"
    <3>1. x # w /\ SameWriter(x)
      BY <2>2 DEF Others
    <3>2. Arg(x) \in Values /\ Arg(x) # new
      BY <2>2, <3>1, OlderPushed DEF SameWriter, Arg
    <3> QED
      BY <1>2, <3>1, <3>2, BehindKept
  <2> QED
    BY <2>1, <2>2
<1> QED
  BY <1>3, <1>5, <1>6 DEF OrderInv

\* A step that changes no node keeps the order.
LEMMA StillOrder ==
  ASSUME SafeInv, ValueInv, OrderInv, NEW t \in Threads, Still(t)
  PROVE  OrderInv'
<1>1. Others(t) /\ UNCHANGED <<mem, pushed>> /\ pc'[t] # "set" /\ Counts(t)
  BY DEF Still
<1>2. NothingNew /\ WaitsKept /\ LinksKept
  BY <1>1, StillValues DEF LinksKept
<1>3. CASE t \in Writers /\ Push(t) /\ calls'[t] = calls[t] + 1
  BY <1>1, <1>2, <1>3, PushOrder
<1>4. CASE older' = older
  <2>1. \A w \in Writers : SameWriter(w) \/ pc'[w] # "set"
    BY <1>1 DEF Others
  <2> QED
    BY <1>1, <1>2, <1>4, <2>1, SameOrder
<1> QED
  BY <1>1, <1>3, <1>4 DEF Counts

\* A writer claims a slot behind all that wait.
LEMMA ClaimWriteOrder ==
  ASSUME SafeInv, ShapeInv, SlotsInv, ValueInv, OrderInv, Defined, NEW w \in Writers, ClaimWrite(w)
  PROVE  OrderInv'
<1> DEFINE q == Node(w)
<1>1. /\ Others(w) /\ SameSets /\ pc[w] = "claim" /\ UNCHANGED <<pushed, older>>
      /\ q \in Nodes /\ Node(w)' = q /\ Arg(w)' = Arg(w) /\ WposGrown(q)
      /\ IF mem[q].wpos < Size THEN pc'[w] = "set" /\ local'[w].pos = mem[q].wpos
                               ELSE pc'[w] = "next"
  BY ClaimWriteStep DEF Here
<1>2. NothingNew /\ WaitsKept
  BY ClaimWriteValues
<1>3. LinksKept
  BY <1>1, SetFacts DEF LinksKept, WposGrown
<1>4. \A v \in pushed' : Ordered(v)'
  BY <1>1, <1>2, <1>3, OrderedKept
<1>5. ASSUME NEW x \in Writers, x # w PROVE Behind(x)'
  BY <1>1, <1>2, <1>3, <1>5, BehindKept DEF Others
<1>6. Behind(w)'
  <2> SUFFICES ASSUME pc'[w] = "set", NEW u \in older'[Arg(w)'], NEW n \in Nodes, NEW i \in Slots,
                      Waits(u, n, i)'
               PROVE  Node(w)' \in ChainFrom(n)' /\ (Node(w)' = n => i < local'[w].pos)
    BY DEF Behind
  <2>1. mem[q].wpos < Size /\ local'[w].pos = mem[q].wpos /\ mem[q].wpos \in Nat
    BY <1>1, Fields
  <2>2. Arg(w) \in Values
    BY <1>1, ArgValue DEF SafeInv, KnowInv, WriterKnows
  <2>3. u \in pushed /\ u \in Values
    BY <1>1, <2>2, OlderPushed
  <2>4. Waits(u, n, i) /\ n \in Linked /\ mem[n].data[i] = u
    BY <1>2, <2>3 DEF NothingNew, Waits
  <2>5. mem[q].next = Null
    BY <1>1, <2>1, SlotsFacts, Places
  <2>6. q \in Linked
    BY <1>1, <2>5, WriterNode DEF ShapeInv, HeldW, Here
  <2>7. q \in ChainFrom(n)
    BY <2>4, <2>5, <2>6, OneLast DEF ShapeInv
  <2>8. q = n => i < mem[q].wpos
    <3>1. q = n => ~(i >= mem[q].wpos)
      BY <1>1, <2>3, <2>4, SlotsFacts
    <3> QED
      BY <2>1, <3>1, Places
  <2>9. q \in ChainFrom(n)'
    BY <1>3, <2>4, <2>7, ChainKept
  <2> QED
    BY <1>1, <2>1, <2>8, <2>9
<1>7. \A x \in Writers : Behind(x)'
  BY <1>5, <1>6
<1> QED
  BY <1>1, <1>4, <1>7, OlderPushed DEF OrderInv

\* A value in a slot that its writer was at is behind what waits.
LEMMA SetValueDoneOrder ==
  ASSUME SafeInv, ShapeInv, SlotsInv, ValueInv, OrderInv, Defined,
         NEW w \in Writers, SetValue(w), Slot(w) = Empty
  PROVE  OrderInv'
<1> DEFINE q == Node(w)
           k == local[w].pos
<1>1. /\ Others(w) /\ SameSets /\ pc[w] = "set" /\ pc'[w] = "done" /\ older' = older
      /\ pushed' = pushed \cup {Arg(w)} /\ q \in Nodes /\ k \in Slots /\ calls[w] \in 1 .. Calls
      /\ mem[q].data[k] = Empty /\ SlotSet(q, k, Arg(w))
  BY SetValueDoneStep
<1>2. NothingNew /\ WaitsKept
  BY SetValueDoneValues
<1>3. /\ mem'[q].data[k] = Arg(w)
      /\ \A n \in Nodes : mem'[n].rpos = mem[n].rpos /\ mem'[n].next = mem[n].next
  BY <1>1 DEF SlotSet
<1>4. LinksKept
  BY <1>3, SetFacts DEF LinksKept
<1>5. \A v \in pushed : Ordered(v)'
  BY <1>1, <1>2, <1>4, OrderedKept
<1>6. \A x \in Writers : Behind(x)'
  BY <1>1, <1>2, <1>4, BehindKept DEF Others, Behind
<1>7. ASSUME NEW v, v = Arg(w) PROVE Ordered(v)'
  <2> SUFFICES ASSUME NEW u \in older[v], NEW n \in Nodes, NEW i \in Slots, Waits(u, n, i)'
               PROVE  \E m \in ChainFrom(n)' : \E j \in Slots : Waits(v, m, j)' /\ (m = n => i < j)
    BY <1>1 DEF Ordered
  <2>1. v \in Values /\ u \in pushed
    BY <1>1, <1>7, OlderPushed
  <2>2. Waits(u, n, i) /\ n \in Linked /\ i >= mem[n].rpos
    BY <1>2, <2>1 DEF NothingNew, Waits
  <2>3. q \in ChainFrom(n) /\ (q = n => i < k)
    BY <1>1, <1>7, <2>2 DEF OrderInv, Behind
  <2>4. q \in Linked
    BY <2>2, <2>3, LinkedClosed
  <2>5. k >= mem[q].rpos
    <3>1. mem[n].rpos \in Nat /\ mem[q].rpos \in Nat /\ k \in Nat /\ i \in Nat
      BY <1>1, Fields, Places
    <3>2. ASSUME k < mem[q].rpos PROVE FALSE
      <4>1. q \in live
        BY <2>4, SetFacts
      <4>2. PICK r \in Readers : IsAt(r, q, k)
        BY <1>1, <3>2, <4>1, SlotsFacts, Marks
      <4>3. q = read_pos
        BY <2>4, <4>2, AtSlots DEF IsAt, SafeInv, ReadInv, Protected, HeldR
      <4>4. n = q
        BY <2>2, <2>3, <4>3, FirstOfChain
      <4> QED
        BY <2>2, <2>3, <3>1, <3>2, <4>4
    <3> QED
      BY <3>1, <3>2
  <2>6. Linked' = Linked /\ mem'[q].rpos = mem[q].rpos /\ mem'[q].data[k] = v
    BY <1>1, <1>3, <1>7 DEF SameSets
  <2>7. \A m \in Nodes : \A j \in Slots : m = q /\ j = k => Waits(v, m, j)'
    BY <2>4, <2>5, <2>6 DEF Waits
  <2>8. q \in ChainFrom(n)'
    BY <1>4, <2>2, <2>3, ChainKept
  <2> QED
    BY <1>1, <2>3, <2>7, <2>8
<1>8. \A v \in pushed' : Ordered(v)'
  <2>1. \A v \in pushed' : v \in pushed \/ v = Arg(w)
    BY <1>1
  <2> QED
    BY <1>5, <1>7, <2>1
<1> QED
  BY <1>1, <1>6, <1>8, OlderPushed DEF OrderInv

\* The slot that a reader claims is the first of those that wait.
LEMMA ClaimReadOrder ==
  ASSUME SafeInv, ValueInv, OrderInv, NEW r \in Readers, ClaimRead(r)
  PROVE  OrderInv'
<1> DEFINE q == Node(r)
<1>1. /\ Others(r) /\ SameSets /\ UNCHANGED <<pushed, older>> /\ q \in Nodes /\ RposGrown(q)
      /\ (q \in Linked => q = read_pos)
  BY ClaimReadStep
<1>2. NothingNew
  BY ClaimReadValues
<1>3. \A n \in Nodes : /\ mem[n].rpos \in Nat /\ mem'[n].next = mem[n].next
                       /\ mem'[n].data = mem[n].data
                       /\ mem'[n].rpos = IF n = q THEN mem[n].rpos + 1 ELSE mem[n].rpos
  BY <1>1, Fields DEF RposGrown
<1>4. LinksKept
  BY <1>3, SetFacts DEF LinksKept
<1>5. \A x \in Writers : Behind(x)'
  BY <1>1, <1>2, <1>4, BehindKept, ThreadIds DEF Others
<1>6. ASSUME NEW v \in pushed PROVE Ordered(v)'
  <2> SUFFICES ASSUME NEW u \in older[v], NEW n \in Nodes, NEW i \in Slots, Waits(u, n, i)'
               PROVE  \E m \in ChainFrom(n)' : \E j \in Slots : Waits(v, m, j)' /\ (m = n => i < j)
    BY <1>1 DEF Ordered
  <2>1. u \in pushed
    BY OlderPushed
  <2>2. Waits(u, n, i) /\ n \in Linked /\ i >= mem'[n].rpos
    BY <1>2, <2>1 DEF NothingNew, Waits
  <2>3. PICK m \in ChainFrom(n), j \in Slots : Waits(v, m, j) /\ (m = n => i < j)
    BY <2>2 DEF OrderInv, Ordered
  <2>4. m \in Nodes /\ m \in Linked /\ m \in ChainFrom(n)'
    BY <1>4, <2>2, <2>3, ChainKept, LinkedClosed DEF ChainFrom
  <2>5. i \in Nat /\ j \in Nat /\ j >= mem[m].rpos /\ mem[m].data[j] = v
    BY <2>3, Places DEF Waits
  <2>6. j >= mem'[m].rpos
    <3>1. CASE m # q
      BY <1>3, <2>4, <2>5, <3>1
    <3>2. CASE m = q
      <4>1. n = m
        BY <1>1, <2>2, <2>3, <2>4, <3>2, FirstOfChain
      <4> QED
        BY <1>3, <2>2, <2>3, <2>4, <2>5, <4>1
    <3> QED
      BY <3>1, <3>2
  <2>7. Linked' = Linked /\ mem'[m].data = mem[m].data
    BY <1>1, <1>3, <2>4 DEF SameSets
  <2>8. Waits(v, m, j)'
    BY <2>4, <2>5, <2>6, <2>7 DEF Waits
  <2> QED
    BY <2>3, <2>4, <2>8
<1> QED
  BY <1>1, <1>5, <1>6, OlderPushed DEF OrderInv

\* GetValue keeps the order.
LEMMA GetValueOrder ==
  ASSUME SafeInv, SlotsInv, ValueInv, OrderInv, NEW r \in Readers, GetValue(r)
  PROVE  OrderInv'
<1>1. Others(r) /\ UNCHANGED <<pushed, older>> /\ SlotSet(Node(r), local[r].pos, Taken)
  BY GetValueStep
<1>2. NothingNew /\ WaitsKept
  BY GetValueValues
<1>3. LinksKept
  BY <1>1, SetFacts DEF LinksKept, SlotSet
<1> QED
  BY <1>1, <1>2, <1>3, SameOrder, ThreadIds DEF Others

\* NextNode that makes a node keeps the order.
LEMMA MakesOrder ==
  ASSUME SafeInv, ShapeInv, ValueInv, OrderInv, NEW w \in Writers, NEW n \in Nodes \ live,
         Makes(w, n)
  PROVE  OrderInv'
<1>1. /\ Others(w) /\ UNCHANGED <<pushed, older>> /\ pc'[w] = "link"
      /\ \A m \in Nodes : mem'[m].next = mem[m].next
  <2>1. Made(n, Arg(w))
    BY MakesStep
  <2> QED
    BY <2>1, MakesStep DEF Made
<1>2. NothingNew /\ WaitsKept
  BY MakesValues
<1>3. LinksKept
  BY <1>1, SetFacts DEF LinksKept
<1>4. \A x \in Writers : SameWriter(x) \/ pc'[x] # "set"
  BY <1>1 DEF Others
<1> QED
  BY <1>1, <1>2, <1>3, <1>4, SameOrder

\* A node is linked behind all that wait.
LEMMA LinkDoneOrder ==
  ASSUME SafeInv, ShapeInv, ValueInv, OrderInv, Defined, NEW w \in Writers, Link(w),
         Here(w).next = Null
  PROVE  OrderInv'
<1> DEFINE q == Node(w)
           p == local[w].target
<1>1. /\ Others(w) /\ SafeInv' /\ pc[w] = "link" /\ pc'[w] = "finish" /\ older' = older
      /\ Linked' = Linked \cup {p} /\ p \in Private /\ p \in Nodes
      /\ pushed' = pushed \cup {Arg(w)} /\ Arg(w) \in Values /\ q \in Nodes /\ NextSet(q, p)
  BY LinkDoneStep
<1>2. NothingNew /\ WaitsKept
  BY LinkDoneValues
<1>3. LinksKept /\ q \in Linked
  BY LinkDoneChain, LinkDoneTail DEF ShapeInv
<1>4. \A v \in pushed : Ordered(v)'
  BY <1>1, <1>2, <1>3, OrderedKept
<1>5. \A x \in Writers : Behind(x)'
  BY <1>1, <1>2, <1>3, BehindKept DEF Others, Behind
<1>6. ASSUME NEW v, v = Arg(w) PROVE Ordered(v)'
  <2> SUFFICES ASSUME NEW u \in older[v], NEW n \in Nodes, NEW i \in Slots, Waits(u, n, i)'
               PROVE  \E m \in ChainFrom(n)' : \E j \in Slots : Waits(v, m, j)' /\ (m = n => i < j)
    BY <1>1 DEF Ordered
  <2>1. u \in pushed
    BY <1>1, <1>6, OlderPushed
  <2>2. n \in Linked
    BY <1>2, <2>1 DEF NothingNew, Waits
  <2>3. q \in ChainFrom(n)
    BY <1>3, <2>2, OneLast DEF ShapeInv, Here
  <2>4. q \in ChainFrom(n)'
    BY <1>3, <2>2, <2>3, ChainKept
  <2>5. mem'[q].next = p /\ p # Null
    BY <1>1, Places DEF NextSet
  <2>6. p \in ChainFrom(n)'
    <3> SUFFICES ASSUME NEW S \in SUBSET Nodes, n \in S, \A m \in S : mem'[m].next \in S \cup {Null}
                 PROVE  p \in S
      BY <1>1 DEF ChainFrom, Closed
    <3>1. q \in S
      BY <2>4 DEF ChainFrom, Closed
    <3> QED
      BY <2>5, <3>1
  <2>7. p # n
    BY <1>1, <2>2, SetFacts
  <2>8. mem[p].rpos = 0 /\ mem[p].data[0] = v
    BY <1>1, <1>6, BlankNode, FreshNode DEF ShapeInv, BlankInv
  <2>9. mem'[p].rpos = 0 /\ mem'[p].data[0] = v /\ p \in Linked' /\ 0 \in Slots
    BY <1>1, <2>8, Places DEF NextSet
  <2>10. \A m \in Nodes : m = p => Waits(v, m, 0)'
    BY <2>9 DEF Waits
  <2> QED
    BY <1>1, <2>6, <2>7, <2>9, <2>10
<1>7. \A v \in pushed' : Ordered(v)'
  <2>1. \A v \in pushed' : v \in pushed \/ v = Arg(w)
    BY <1>1
  <2> QED
    BY <1>4, <1>6, <2>1
<1> QED
  BY <1>1, <1>5, <1>7, OlderPushed DEF OrderInv

\* A node that is not linked is deleted.
LEMMA DeletedOrder ==
  ASSUME SafeInv, OrderInv, NothingNew, WaitsKept, NEW t \in Threads, Others(t), NEW p \in Nodes,
         Changed(p, Blank), p \notin Linked, UNCHANGED <<pushed, older>>, pc'[t] # "set"
  PROVE  OrderInv'
<1>1. LinksKept
  BY SetFacts DEF LinksKept, Changed
<1>2. \A x \in Writers : SameWriter(x) \/ pc'[x] # "set"
  BY DEF Others
<1> QED
  BY <1>1, <1>2, SameOrder

\* Link where another writer was first keeps the order.
LEMMA LinkLostOrder ==
  ASSUME SafeInv, ValueInv, OrderInv, NEW w \in Writers, Link(w), Here(w).next # Null
  PROVE  OrderInv'
<1> DEFINE p == local[w].target
<1>1. /\ Others(w) /\ pc'[w] = "protect" /\ p \in Private /\ p \in Nodes
      /\ UNCHANGED <<pushed, older>> /\ Changed(p, Blank)
  BY LinkLostStep
<1>2. p \notin Linked
  BY <1>1, SetFacts
<1> QED
  BY <1>1, <1>2, LinkLostValues, DeletedOrder, ThreadIds

\* Look at the last of the pointers keeps the order.
LEMMA LookFreeOrder ==
  ASSUME SafeInv, ValueInv, OrderInv, NEW r \in Readers, Look(r), hazard[Asked(r)] # Sought(r),
         Asked(r) = LastThread
  PROVE  OrderInv'
<1> DEFINE p == Sought(r)
<1>1. /\ Others(r) /\ pc'[r] \in {"retire", "gc", "idle", "protect"} /\ p \in Gone /\ p \in Nodes
      /\ UNCHANGED <<pushed, older>> /\ Changed(p, Blank)
  BY LookFreeStep
<1>2. p \notin Linked
  BY <1>1, SetFacts
<1> QED
  BY <1>1, <1>2, LookFreeValues, DeletedOrder, ThreadIds

\* Advance that moves read_pos_ keeps the order.
LEMMA AdvanceDoneOrder ==
  ASSUME SafeInv, SlotsInv, ValueInv, OrderInv, NEW r \in Readers, Advance(r), read_pos = Node(r)
  PROVE  OrderInv'
<1>1. Others(r) /\ UNCHANGED <<mem, pushed, older>>
  BY AdvanceDoneStep
<1>2. NothingNew /\ WaitsKept
  BY AdvanceDoneValues
<1> QED
  BY <1>1, <1>2, SameOrder, ThreadIds DEF Others, LinksKept

\* A stuttering step keeps the order.
LEMMA UnchangedOrder ==
  ASSUME OrderInv, UNCHANGED vars
  PROVE  OrderInv'
<1>1. UNCHANGED <<mem, pushed, older, pc, local, calls>> /\ Linked' = Linked
  BY Unmoved DEF SameSets
<1>2. \A n : ChainFrom(n)' = ChainFrom(n)
  BY <1>1 DEF ChainFrom, Closed
<1>3. \A v, n, i : Waits(v, n, i)' <=> Waits(v, n, i)
  BY <1>1 DEF Waits
<1> QED
  BY <1>1, <1>2, <1>3 DEF OrderInv, Behind, Ordered, Node, Arg

\* Every step keeps the order.
LEMMA NextOrder ==
  ASSUME SafeInv, ShapeInv, SlotsInv, ValueInv, OrderInv, Defined, [Next]_vars
  PROVE  OrderInv'
BY UnchangedOrder, StepCases, StillOrder, ClaimWriteOrder, SetValueDoneOrder, ClaimReadOrder,
   GetValueOrder, MakesOrder, LinkDoneOrder, LinkLostOrder, LookFreeOrder, AdvanceDoneOrder

\* The initial state keeps the order.
LEMMA InitOrder == Init => OrderInv
BY ThreadIds DEF Init, OrderInv, Behind

-----------------------------------------------------------------------------
(* Always, as long as no writer has used a deleted node.                   *)

DefinedInv == SafeInv /\ ShapeInv /\ SlotsInv /\ ValueInv /\ EmptyInv /\ OrderInv

\* The steps of DefinedSpec are steps of Spec.
LEMMA DefinedIsSpec == DefinedSpec => Spec
<1>1. [Defined /\ Next]_vars => [Next]_vars
  OBVIOUS
<1> QED
  BY <1>1, PTL DEF DefinedSpec, Spec

\* At first.
LEMMA InitDefined == Init => DefinedInv
BY InitSafe, InitShape, InitSlots, InitValues, InitEmpty, InitOrder DEF DefinedInv

\* A step before which no writer has used a deleted node keeps all of it.
LEMMA DefinedStep ==
  ASSUME DefinedInv, Defined, [Next]_vars
  PROVE  DefinedInv'
<1>1. CASE UNCHANGED vars
  BY <1>1, NextSafe, UnchangedShape, UnchangedSlots, UnchangedValues, UnchangedEmpty, UnchangedOrder
  DEF DefinedInv
<1>2. CASE Next
  BY <1>2, NextSafe, NextShape, NextSlots, NextValues, NextEmpty, NextOrder DEF DefinedInv
<1> QED
  BY <1>1, <1>2

\* All of that holds, as long as no writer has used a deleted node.
LEMMA AlwaysDefined == DefinedSpec => []DefinedInv
<1>1. DefinedInv /\ [Defined /\ Next]_vars => DefinedInv'
  <2>1. CASE UNCHANGED vars
    BY <2>1, NextSafe, UnchangedShape, UnchangedSlots, UnchangedValues, UnchangedEmpty,
       UnchangedOrder
    DEF DefinedInv
  <2>2. CASE Defined /\ Next
    BY <2>2, DefinedStep
  <2> QED
    BY <2>1, <2>2
<1> QED
  BY <1>1, InitDefined, PTL DEF DefinedSpec

\* No node is leaked or deleted twice: as long as no writer has used a deleted node,
\* every node that was allocated is in the chain, or a writer's that has not linked it,
\* or unlinked by the one reader that moved read_pos_ on, in whose to_delete_ it is once.
THEOREM NoneLeaked == DefinedSpec => []NodesAccounted
<1>1. ASSUME SafeInv, ShapeInv PROVE NodesAccounted
  <2> SUFFICES ASSUME NEW n \in Nodes
               PROVE  Cardinality(Listed(n)) =
                        IF n \in live \ (ChainFrom(read_pos) \cup Private \cup Unlinked) THEN 1 ELSE 0
    BY DEF NodesAccounted
  <2>1. n \in live \ (ChainFrom(read_pos) \cup Private \cup Unlinked) <=> n \in Retired
    <3>1. ChainFrom(read_pos) = Linked
      BY <1>1, ChainIsLinked
    <3>2. Retired \subseteq live \ (Unlinked \cup Private)
      BY <1>1 DEF SafeInv, OwnInv, Retired
    <3> QED
      BY <3>1, <3>2 DEF Linked, Gone
  <2>2. \A t \in Threads : t \in Readers \/ retired[t] = <<>>
    BY <1>1, ThreadIds DEF SafeInv, KnowInv, WriterKnows
  <2>3. \A p : p \in Listed(n) <=>
                 \E t \in Readers : \E i \in DOMAIN retired[t] : retired[t][i] = n /\ p = <<t, i>>
    BY <2>2, ThreadIds DEF Listed
  <2>4. CASE n \in Retired
    <3>1. PICK t \in Readers : \E i \in DOMAIN retired[t] : retired[t][i] = n
      BY <2>4 DEF Retired
    <3>2. PICK i \in DOMAIN retired[t] : retired[t][i] = n
      BY <3>1
    <3>3. \A u \in Readers : \A j \in DOMAIN retired[u] : retired[u][j] = n => t = u /\ i = j
      BY <1>1, <3>2 DEF SafeInv, OwnInv
    <3>4. Listed(n) = {<<t, i>>}
      BY <2>3, <3>2, <3>3
    <3>5. Cardinality({<<t, i>>}) = 1
      BY FS_Singleton
    <3> QED
      BY <2>1, <2>4, <3>4, <3>5
  <2>5. CASE n \notin Retired
    <3>1. Listed(n) = {}
      BY <2>3, <2>5 DEF Retired
    <3> QED
      BY <2>1, <2>5, <3>1, FS_EmptySet
  <2> QED
    BY <2>4, <2>5
<1>2. DefinedInv => NodesAccounted
  BY <1>1 DEF DefinedInv
<1> QED
  BY <1>2, AlwaysDefined, PTL

\* No value is lost and none comes out twice: as long as no writer has used a deleted
\* node, a value that was pushed is in exactly one slot that a reader will get to or
\* is at, until one reader has popped it, and then in none.
THEOREM NothingLost == DefinedSpec => []Conserved
<1>1. ASSUME SafeInv, ShapeInv, ValueInv PROVE Conserved
  <2> SUFFICES ASSUME NEW v \in pushed
               PROVE  Cardinality(Holds(Unread \cup AtReaders, v)) = IF v \in popped THEN 0 ELSE 1
    BY DEF Conserved
  <2> DEFINE H == Holds(Unread \cup AtReaders, v)
  <2>1. \A s : s \in H <=>
                 \E n \in Nodes : \E i \in Slots :
                   /\ s = <<n, i>> /\ mem[n].data[i] = v
                   /\ Waits(v, n, i) \/ \E r \in Readers : IsAt(r, n, i)
    BY <1>1, Counted
  <2>2. CASE v \in popped
    <3>1. H = {}
      BY <1>1, <2>1, <2>2 DEF ValueInv
    <3> QED
      BY <2>2, <3>1, FS_EmptySet
  <2>3. CASE v \notin popped
    <3>1. PICK n \in Nodes, i \in Slots :
            mem[n].data[i] = v /\ (Waits(v, n, i) \/ \E r \in Readers : IsAt(r, n, i))
      BY <1>1, <2>3 DEF ValueInv, Kept
    <3>2. \A m \in Nodes : \A j \in Slots : mem[m].data[j] = v => m = n /\ j = i
      BY <1>1, <3>1, PushedValues DEF ValueInv, OneSlotInv
    <3>3. H = {<<n, i>>}
      BY <2>1, <3>1, <3>2
    <3>4. Cardinality({<<n, i>>}) = 1
      BY FS_Singleton
    <3> QED
      BY <2>3, <3>3, <3>4
  <2> QED
    BY <2>2, <2>3
<1>2. DefinedInv => Conserved
  BY <1>1 DEF DefinedInv
<1> QED
  BY <1>2, AlwaysDefined, PTL

\* The queue is found empty only if readers have got to all that was in it before the
\* call, as long as no writer has used a deleted node.
THEOREM EmptyWhenFound == DefinedSpec => []EmptyIsTrue
<1>1. ASSUME SafeInv, ShapeInv, EmptyInv PROVE EmptyIsTrue
  <2> SUFFICES ASSUME NEW r \in Readers, pc[r] = "empty", NEW v \in before[r]
               PROVE  Holds(Unread, v) = {}
    BY DEF EmptyIsTrue
  <2>1. \A n \in Nodes : \A i \in Slots : ~Waits(v, n, i)
    BY <1>1 DEF EmptyInv, Finds
  <2>2. ChainFrom(read_pos) = Linked /\ Linked \subseteq Nodes
    BY <1>1, ChainIsLinked, SetFacts
  <2> QED
    BY <2>1, <2>2 DEF Holds, Unread, Waits, Slots
<1>2. DefinedInv => EmptyIsTrue
  BY <1>1 DEF DefinedInv
<1> QED
  BY <1>2, AlwaysDefined, PTL

\* First in, first out: as long as no writer has used a deleted node, readers get to a
\* value only when they have got to all that had been pushed before its push began.
THEOREM FirstInFirstOut == DefinedSpec => []InOrder
<1>1. ASSUME SafeInv, SlotsInv, ValueInv, OrderInv PROVE InOrder
  <2> SUFFICES ASSUME NEW v \in pushed, Reached(v), NEW u \in older[v], ~Reached(u)
               PROVE  FALSE
    BY DEF InOrder
  <2>1. \A x \in Values : \A r \in Readers : \A n \in Nodes : \A i \in Slots :
          IsAt(r, n, i) /\ mem[n].data[i] = x => Reached(x)
    <3> SUFFICES ASSUME NEW x \in Values, NEW r \in Readers, NEW n \in Nodes, NEW i \in Slots,
                        IsAt(r, n, i), mem[n].data[i] = x
                 PROVE  Reached(x)
      OBVIOUS
    <3>1. pc[r] = "get" /\ Node(r) = n /\ local[r].pos = i
      BY <1>1, AtSlots DEF IsAt
    <3>2. <<n, i>> \in AtReaders
      BY <3>1 DEF AtReaders
    <3> QED
      BY <3>2 DEF Reached, Holds
  <2>2. v \in Values /\ u \in Values /\ u \in pushed \ popped
    BY <1>1, OlderPushed DEF Reached
  <2>3. PICK n \in Nodes, i \in Slots :
          mem[n].data[i] = u /\ (Waits(u, n, i) \/ \E r \in Readers : IsAt(r, n, i))
    BY <1>1, <2>2 DEF ValueInv, Kept
  <2>4. Waits(u, n, i)
    BY <2>1, <2>2, <2>3
  <2>5. PICK m \in ChainFrom(n), j \in Slots : Waits(v, m, j)
    BY <1>1, <2>4 DEF OrderInv, Ordered
  <2>6. m \in Nodes /\ mem[m].data[j] = v /\ j >= mem[m].rpos
    BY <2>5 DEF Waits, ChainFrom
  <2>7. v \notin popped
    BY <1>1, <2>6 DEF ValueInv
  <2>8. PICK r \in Readers : pc[r] = "get" /\ mem[Node(r)].data[local[r].pos] = v
    BY <2>7 DEF Reached, Holds, AtReaders
  <2>9. Node(r) \in Nodes /\ local[r].pos \in Slots /\ local[r].pos < mem[Node(r)].rpos
    BY <1>1, <2>8, ReaderNode, SlotsFacts, LocalFields, ThreadIds, Places
    DEF HeldR, SafeInv, KnowInv, ReaderKnows, ReaderCounts, Here, Slots
  <2>10. Node(r) = m /\ local[r].pos = j
    BY <1>1, <2>2, <2>6, <2>8, <2>9 DEF ValueInv, OneSlotInv
  <2> QED
    BY <1>1, <2>6, <2>9, <2>10, Fields, Places
<1>2. DefinedInv => InOrder
  BY <1>1 DEF DefinedInv
<1> QED
  BY <1>2, AlwaysDefined, PTL

-----------------------------------------------------------------------------
(* One writer.                                                             *)

\* Thread t has looked past writer w's pointer for the node that w is in.
Missed(t, w) == pc[t] \in {"retire", "gc"} /\ Sought(t) = Node(w) /\ w < Asked(t)

\* The only writer is in the node of write_pos_, and moves write_pos_ on itself once it
\* has linked the next node; who looks for its node meanwhile will find its pointer.
Ahead(w) ==
  /\ write_pos \in live
  /\ pc[w] \in {"announce", "recheck"} \cup HeldW => pc[w] # "swing" /\ Node(w) = write_pos
  /\ Last # Null => pc[w] = "finish"
  /\ pc[w] = "finish" => \A t \in Readers : ~Missed(t, w)

\* A step of the writer other than Link and Swing.
LEMMA AheadWrites ==
  ASSUME NEW w \in Writers, Ahead(w), pc[w] # "finish", pc'[w] \notin {"swing", "finish"},
         write_pos' = write_pos, write_pos \in live', mem'[write_pos].next = mem[write_pos].next,
         pc'[w] \in {"announce", "recheck"} \cup HeldW => Node(w)' = write_pos
  PROVE  Ahead(w)'
BY DEF Ahead, Last

\* A step of another thread.
LEMMA AheadReads ==
  ASSUME NEW w \in Writers, Ahead(w), pc'[w] = pc[w], local'[w] = local[w],
         write_pos' = write_pos, write_pos \in live', mem'[write_pos].next = mem[write_pos].next,
         pc[w] = "finish" => \A t \in Readers : ~Missed(t, w)'
  PROVE  Ahead(w)'
BY DEF Ahead, Last, Node

\* A reader that does not come to retire, or has just come there, has not looked past.
LEMMA MissedReads ==
  ASSUME SafeInv, NEW w \in Writers, Ahead(w), pc[w] = "finish", NEW r \in Readers, Alone(r),
         pc'[r] \in {"retire", "gc"} => Asked(r)' = 0, NEW t \in Readers
  PROVE  ~Missed(t, w)'
<1>1. /\ w \in Threads /\ t \in Threads /\ r \in Threads /\ w # r /\ w \in Nat
      /\ ~Missed(t, w)
  BY ThreadIds DEF Ahead
<1>2. Node(w)' = Node(w)
  BY <1>1 DEF Alone, Node
<1>3. CASE t = r
  BY <1>1, <1>3 DEF Missed
<1>4. CASE t # r
  BY <1>1, <1>2, <1>4 DEF Missed, Alone, Sought, Asked
<1> QED
  BY <1>3, <1>4

\* The writer's node is not one that a thread may delete: its pointer would be found.
LEMMA AheadKeeps ==
  ASSUME SafeInv, NEW w \in Writers, Ahead(w), NEW t \in Readers, Look(t),
         hazard[Asked(t)] # Sought(t), Asked(t) = LastThread
  PROVE  Sought(t) # write_pos
<1> SUFFICES ASSUME Sought(t) = write_pos
             PROVE  FALSE
  OBVIOUS
<1>1. write_pos \in Gone
  BY LookFreeSets DEF Gone
<1>2. Last # Null
  BY <1>1 DEF SafeInv, LinkInv, Last
<1>3. pc[w] = "finish" /\ Node(w) = write_pos /\ ~Missed(t, w)
  BY <1>2 DEF Ahead, HeldW
<1>4. hazard[w] = Node(w)
  BY <1>3 DEF SafeInv, KnowInv, WriterKnows, HeldW
<1>5. w # LastThread /\ w \in 0 .. LastThread /\ LastThread \in Nat
  BY <1>3, <1>4, ThreadIds
<1>6. pc[t] \in {"retire", "gc"}
  BY LookType DEF SafeInv
<1> QED
  BY <1>3, <1>5, <1>6 DEF Missed

\* Look keeps the only writer ahead.
LEMMA LookAhead ==
  ASSUME SafeInv, NEW w \in Writers, Ahead(w), NEW t \in Readers, Look(t)
  PROVE  Ahead(w)'
<1>1. Alone(t) /\ write_pos' = write_pos
  BY LookKeepEffect, LookNextEffect, LookFreeEffect DEF SafeInv, Look
<1>2. w \in Threads /\ t \in Threads /\ w # t /\ w \in Nat
  BY ThreadIds
<1>3. pc'[w] = pc[w] /\ local'[w] = local[w] /\ Node(w)' = Node(w)
  BY <1>1, <1>2 DEF Alone, Node
<1>4. write_pos \in live /\ write_pos \in Nodes
  BY DEF Ahead, SafeInv, TypeInv
<1>5. write_pos \in live' /\ mem'[write_pos] = mem[write_pos]
  <2>1. CASE hazard[Asked(t)] # Sought(t) /\ Asked(t) = LastThread
    BY <1>4, <2>1, LookFreeEffect, AheadKeeps DEF Changed, SafeInv
  <2>2. CASE hazard[Asked(t)] = Sought(t)
    BY <1>4, <2>2, LookKeepEffect DEF SafeInv, queue
  <2>3. CASE hazard[Asked(t)] # Sought(t) /\ Asked(t) # LastThread
    BY <1>4, <2>3, LookNextEffect DEF SafeInv, queue
  <2> QED
    BY <2>1, <2>2, <2>3
<1>6. ASSUME pc[w] = "finish", NEW s \in Readers
      PROVE  ~Missed(s, w)'
  <2>1. CASE hazard[Asked(t)] = Sought(t)
    <3>1. at'[t] = <<1, 0>> \/ at'[t] = <<at[t][1] + 1, 0>>
      BY <2>1, LookKeepEffect DEF SafeInv
    <3>2. Asked(t)' = 0
      BY ONLY <3>1 DEF Asked
    <3> QED
      BY <1>1, <1>6, <3>2, MissedReads
  <2>2. CASE hazard[Asked(t)] # Sought(t) /\ Asked(t) = LastThread
    <3>1. Asked(t)' = 0
      BY <2>2, LookFreeEffect DEF SafeInv, Asked
    <3> QED
      BY <1>1, <1>6, <3>1, MissedReads
  <2>3. CASE hazard[Asked(t)] # Sought(t) /\ Asked(t) # LastThread
    <3>1. /\ at'[t] = <<at[t][1], Asked(t) + 1>> /\ retired'[t] = retired[t]
          /\ pc[t] \in {"retire", "gc"} /\ Asked(t) \in Threads
      BY <2>3, LookNextEffect, LookType DEF SafeInv
    <3>2. Sought(t)' = Sought(t) /\ Asked(t)' = Asked(t) + 1
      BY <3>1 DEF Sought, Asked
    <3>3. hazard[w] = Node(w) /\ ~Missed(s, w) /\ ~Missed(t, w)
      BY <1>6 DEF SafeInv, KnowInv, WriterKnows, HeldW, Ahead
    <3>4. CASE s # t
      <4>1. s \in Threads
        BY ThreadIds
      <4> QED
        BY <1>1, <1>3, <3>3, <3>4, <4>1 DEF Missed, Alone, Sought, Asked
    <3>5. CASE s = t
      <4>1. Sought(t) = Node(w) => w # Asked(t)
        BY <2>3, <3>3
      <4>2. Asked(t) \in Nat
        BY <3>1, ThreadIds
      <4> QED
        BY <1>2, <1>3, <3>1, <3>2, <3>3, <3>5, <4>1, <4>2 DEF Missed
    <3> QED
      BY <3>4, <3>5
  <2> QED
    BY <2>1, <2>2, <2>3
<1> QED
  BY <1>1, <1>3, <1>5, <1>6, AheadReads

\* The other steps of a reader.
Reads(r) ==
  \/ Protect(r) \/ Announce(r) \/ Recheck(r) \/ Clear(r) \/ TryPop(r) \/ ReadWritePos(r)
  \/ Compare(r) \/ LastNode(r) \/ ClaimRead(r) \/ GetValue(r) \/ After(r) \/ Advance(r)
  \/ Release(r) \/ Gc(r)

\* Such a step is the reader's alone, and starts no look.
LEMMA ReadsAlone ==
  ASSUME SafeInv, NEW r \in Readers, Reads(r)
  PROVE  Alone(r) /\ write_pos' = write_pos /\ live' = live /\ at' = at /\ pc[r] \notin {"retire", "gc"}
<1>1. r \in Threads /\ TypeInv /\ KnowInv
  BY ThreadIds DEF SafeInv
<1>2. Advance(r) /\ read_pos = Node(r) => local[r].target # Null
  BY DEF SafeInv, ReadInv, Protected, Advance, HeldR
<1>3. Alone(r)
  <2>1. CASE Protect(r) \/ Announce(r) \/ Recheck(r) \/ Clear(r) \/ TryPop(r) \/ ReadWritePos(r)
    BY <1>1, <2>1, ProtectEffect, AnnounceEffect, RecheckEffect, ClearEffect, TryPopEffect,
       ReadWritePosEffect
  <2>2. CASE Compare(r) \/ LastNode(r) \/ ClaimRead(r) \/ GetValue(r) \/ After(r)
    BY <1>1, <2>2, CompareEffect, LastNodeEffect, ClaimReadEffect, GetValueEffect, AfterEffect
  <2>3. CASE Advance(r) \/ Release(r) \/ Gc(r)
    BY <1>1, <1>2, <2>3, AdvanceDoneEffect, AdvanceLostEffect, ReleaseEffect, GcEffect
  <2> QED
    BY <2>1, <2>2, <2>3 DEF Reads
<1>4. write_pos' = write_pos /\ live' = live /\ at' = at
  BY
  DEF Reads, Protect, Announce, Recheck, Clear, TryPop, ReadWritePos, Compare, LastNode, ClaimRead,
         GetValue, After, Advance, Release, Gc, queue
<1>5. pc[r] \notin {"retire", "gc"}
  BY
  DEF Reads, Protect, Announce, Recheck, Clear, TryPop, ReadWritePos, Compare, LastNode, ClaimRead,
         GetValue, After, Advance, Release, Gc, Go
<1> QED
  BY <1>3, <1>4, <1>5

\* A reader's other steps keep the writer ahead.
LEMMA ReadsAhead ==
  ASSUME SafeInv, NEW w \in Writers, Ahead(w), NEW r \in Readers, Reads(r)
  PROVE  Ahead(w)'
<1>1. Alone(r) /\ write_pos' = write_pos /\ live' = live /\ at' = at /\ pc[r] \notin {"retire", "gc"}
  BY ReadsAlone
<1>2. w \in Threads /\ r \in Threads /\ w # r
  BY ThreadIds
<1>3. pc'[w] = pc[w] /\ local'[w] = local[w]
  BY <1>1, <1>2 DEF Alone
<1>4. write_pos \in live /\ write_pos \in Nodes
  BY DEF Ahead, SafeInv, TypeInv
<1>5. mem'[write_pos].next = mem[write_pos].next
  <2>1. CASE ClaimRead(r)
    BY <1>4, <2>1, ClaimReadEffect, RposChanged DEF RposGrown, SafeInv, Here
  <2>2. CASE GetValue(r)
    BY <1>4, <2>2, GetValueEffect, DataChanged DEF SlotSet, SafeInv, Here
  <2>3. CASE ~ClaimRead(r) /\ ~GetValue(r)
    <3>1. mem' = mem
      BY <2>3 DEF Reads, Protect, Announce, Recheck, Clear, TryPop, ReadWritePos, Compare, LastNode,
                  After, Advance, Release, Gc, queue
    <3> QED
      BY <3>1
  <2> QED
    BY <2>1, <2>2, <2>3
<1>6. Asked(r)' = 0
  BY <1>1 DEF SafeInv, KnowInv, ReaderKnows, Asked
<1>7. pc[w] = "finish" => \A t \in Readers : ~Missed(t, w)'
  BY <1>1, <1>6, MissedReads
<1> QED
  BY <1>1, <1>3, <1>4, <1>5, <1>7, AheadReads

\* The writer's own steps.
LEMMA LinkAhead ==
  ASSUME SafeInv, ShapeInv, NEW w \in Writers, Ahead(w), Link(w)
  PROVE  Ahead(w)'
<1>1. pc[w] = "link" /\ Node(w) = write_pos /\ Last = Null /\ write_pos \in live /\ w \in Threads
  BY ThreadIds DEF Link, Ahead, HeldW
<1>2. Here(w).next = Null
  BY <1>1 DEF Last, Here
<1>3. /\ Alone(w) /\ Moved(w, "finish", local[w]) /\ live' = live /\ write_pos' = write_pos
  BY <1>2, LinkDoneEffect DEF SafeInv, Link
<1>4. pc'[w] = "finish" /\ Node(w)' = write_pos
  BY <1>1, <1>3 DEF Moved, Node
<1>5. ASSUME NEW t \in Readers, Missed(t, w)'
      PROVE  FALSE
  <2>1. t \in Threads /\ t # w
    BY ThreadIds
  <2>2. pc[t] \in {"retire", "gc"} /\ Sought(t) = write_pos
    BY <1>3, <1>4, <1>5, <2>1 DEF Missed, Alone, Sought
  <2>3. write_pos \in Gone
    BY <2>2 DEF SafeInv, KnowInv, ReaderKnows, TypeInv, Sought, Gone, Retired
  <2> QED
    BY <1>1, <2>3 DEF SafeInv, LinkInv, Last
<1> QED
  BY <1>1, <1>3, <1>4, <1>5 DEF Ahead

\* Swing keeps the only writer ahead.
LEMMA SwingAhead ==
  ASSUME SafeInv, ShapeInv, ShapeInv', NEW w \in Writers, Ahead(w), Swing(w)
  PROVE  Ahead(w)'
<1>1. pc[w] = "finish" /\ Node(w) = write_pos /\ write_pos \in live /\ w \in Threads
  BY ThreadIds DEF Swing, Ahead, HeldW
<1>2. local[w].target = Last /\ local[w].target \in Nodes
  BY <1>1 DEF ShapeInv, TailInv, WriterAt, Here, Last, SafeInv, KnowInv, WriterKnows
<1>3. Last \in Linked /\ mem[Last].next = Null
  BY <1>2, MpmcQueueAssumption DEF ShapeInv, TailInv
<1>4. write_pos' = Last /\ mem' = mem /\ live' = live
  BY <1>1, <1>2 DEF Swing
<1>5. pc'[w] = "done"
  BY <1>1, SwingEffect DEF SafeInv, Moved
<1>6. write_pos' \in live'
  BY <1>3, <1>4 DEF Linked
<1>7. Last' = Null
  BY <1>3, <1>4 DEF Last
<1> QED
  BY <1>5, <1>6, <1>7 DEF Ahead, HeldW

\* NextNode keeps the only writer ahead.
LEMMA NextNodeAhead ==
  ASSUME SafeInv, NEW w \in Writers, Ahead(w), NextNode(w)
  PROVE  Ahead(w)'
<1>1. pc[w] = "next" /\ Node(w) = write_pos /\ Last = Null /\ write_pos \in live /\ w \in Threads
  BY ThreadIds DEF NextNode, Ahead, HeldW
<1>2. PICK n \in Nodes \ live : Makes(w, n)
  BY <1>1, NextNodeCases DEF Last, Here
<1>3. /\ Moved(w, "link", [local[w] EXCEPT !.target = n]) /\ live' = live \cup {n}
      /\ Changed(n, [mem[n] EXCEPT !.wpos = 1, !.data[0] = Arg(w)])
  BY <1>2, MakesEffect DEF SafeInv
<1>4. write_pos' = write_pos /\ write_pos \in Nodes /\ local[w] \in LocalType
  BY <1>1, <1>2 DEF Makes, SafeInv, TypeInv
<1>5. mem'[write_pos] = mem[write_pos]
  BY <1>1, <1>3, <1>4 DEF Changed
<1>6. pc'[w] = "link" /\ Node(w)' = write_pos
  BY <1>1, <1>3, <1>4 DEF Moved, Node, LocalType
<1> QED
  BY <1>1, <1>3, <1>4, <1>5, <1>6, AheadWrites

\* The writer's other steps keep it ahead.
LEMMA WritesAhead ==
  ASSUME SafeInv, NEW w \in Writers, Ahead(w),
         Protect(w) \/ Announce(w) \/ Recheck(w) \/ Clear(w) \/ Push(w) \/ ClaimWrite(w) \/ SetValue(w)
  PROVE  Ahead(w)'
<1>1. w \in Threads /\ TypeInv /\ KnowInv /\ write_pos \in Nodes /\ write_pos \in live
  BY ThreadIds DEF SafeInv, TypeInv, Ahead
<1>2. pc[w] # "finish" /\ write_pos' = write_pos /\ live' = live
  BY DEF Protect, Announce, Recheck, Clear, Push, ClaimWrite, SetValue, Go, queue
<1>3. CASE Protect(w) \/ Announce(w) \/ Recheck(w) \/ Clear(w) \/ Push(w)
  <2>1. mem' = mem
    BY <1>3 DEF Protect, Announce, Recheck, Clear, Push, queue
  <2>2. CASE Protect(w)
    <3>1. pc'[w] = "announce" /\ Node(w)' = write_pos
      BY <1>1, <2>2, ProtectEffect, AtNode DEF Moved, Root, Node
    <3> QED
      BY <1>1, <1>2, <2>1, <3>1, AheadWrites
  <2>3. CASE Announce(w)
    <3>1. pc'[w] = "recheck" /\ Node(w)' = Node(w) /\ pc[w] = "announce"
      BY <1>1, <2>3, AnnounceEffect DEF Moved, Node, Announce, Go
    <3> QED
      BY <1>1, <1>2, <2>1, <3>1, AheadWrites DEF Ahead
  <2>4. CASE Recheck(w)
    <3>1. pc'[w] \in {"announce", "claim"} /\ Node(w)' = write_pos
      BY <1>1, <2>4, RecheckEffect, AtNode DEF Moved, Root, Node, Rechecked
    <3> QED
      BY <1>1, <1>2, <2>1, <3>1, AheadWrites
  <2>5. CASE Clear(w) \/ Push(w)
    <3>1. pc'[w] \in {"idle", "protect"}
      BY <1>1, <2>5, ClearEffect, PushEffect DEF Moved
    <3> QED
      BY <1>1, <1>2, <2>1, <3>1, AheadWrites DEF HeldW
  <2> QED
    BY <1>3, <2>2, <2>3, <2>4, <2>5
<1>4. CASE ClaimWrite(w)
  <2>1. pc'[w] \in {"set", "next"} /\ Node(w)' = Node(w) /\ pc[w] = "claim"
    BY <1>1, <1>4, ClaimWriteEffect DEF Claims, Moved, Node, ClaimWrite, LocalType, TypeInv
  <2>2. mem'[write_pos].next = mem[write_pos].next
    BY <1>1, <1>4, ClaimWriteEffect, WposChanged DEF WposGrown, Here
  <2>3. Node(w) = write_pos
    BY <2>1 DEF Ahead, HeldW
  <2> QED
    BY <1>1, <1>2, <2>1, <2>2, <2>3, AheadWrites
<1>5. CASE SetValue(w)
  <2>1. pc'[w] \in {"done", "protect"}
    BY <1>1, <1>5, SetValueDoneEffect, SetValueLostEffect DEF Moved
  <2>2. mem'[write_pos].next = mem[write_pos].next
    <3>1. CASE Slot(w) = Empty
      BY <1>1, <1>5, <3>1, SetValueDoneEffect, DataChanged DEF SlotSet, Here
    <3>2. CASE Slot(w) # Empty
      BY <1>5, <3>2 DEF SetValue
    <3> QED
      BY <3>1, <3>2
  <2> QED
    BY <1>1, <1>2, <2>1, <2>2, AheadWrites DEF HeldW
<1> QED
  BY <1>3, <1>4, <1>5

\* While there is one writer, none is in a deleted node.
LEMMA AheadDefined ==
  ASSUME SafeInv, NEW w \in Writers, Writers = {w}, Ahead(w)
  PROVE  Defined /\ NoUseAfterFree
<1>1. write_pos \in live /\ (pc[w] \in HeldW => Node(w) \in live)
  BY DEF Ahead
<1>2. pc[w] \in WriterSteps
  BY DEF SafeInv, KnowInv, WriterKnows
<1>3. pc[w] \in InNode \cup {"swing", "finish"} => pc[w] \in HeldW
  BY <1>2 DEF InNode, WriterSteps, Entering, HeldW
<1> QED
  BY <1>1, <1>3 DEF Defined, NoUseAfterFree

\* Every step of a queue with one writer.
LEMMA AheadStep ==
  ASSUME NEW w \in Writers, Writers = {w}, DefinedInv, Ahead(w), [Next]_vars
  PROVE  DefinedInv' /\ Ahead(w)'
<1>1. SafeInv /\ ShapeInv /\ Defined
  BY AheadDefined DEF DefinedInv
<1>2. DefinedInv'
  BY <1>1, DefinedStep
<1>3. ShapeInv'
  BY <1>2 DEF DefinedInv
<1>4. CASE UNCHANGED vars
  BY <1>2, <1>4, Unmoved DEF Ahead, Last, Node, Missed, Sought, Asked
<1>5. ASSUME NEW r \in Readers, Reads(r) \/ Look(r)
      PROVE  Ahead(w)'
  BY <1>1, <1>5, ReadsAhead, LookAhead
<1>6. CASE \/ Protect(w) \/ Announce(w) \/ Recheck(w) \/ Clear(w) \/ Push(w) \/ ClaimWrite(w)
           \/ SetValue(w) \/ NextNode(w) \/ Link(w) \/ Swing(w)
  BY <1>1, <1>2, <1>3, <1>6, WritesAhead, NextNodeAhead, LinkAhead, SwingAhead
<1>7. Threads = Readers \cup {w}
  BY DEF Threads
<1> QED
  BY <1>2, <1>4, <1>5, <1>6, <1>7 DEF Next, Reads

\* The only writer is ahead of the readers.
LEMMA AlwaysAhead ==
  ASSUME NEW w \in Writers, Writers = {w}
  PROVE  Spec => [](DefinedInv /\ Ahead(w))
<1>1. Init => DefinedInv /\ Ahead(w)
  <2> SUFFICES ASSUME Init
               PROVE  DefinedInv /\ Ahead(w)
    OBVIOUS
  <2>1. DefinedInv
    BY InitDefined
  <2>2. w \in Threads /\ mem[write_pos] = Blank
    BY ThreadIds DEF Init
  <2>3. pc[w] = "idle" /\ write_pos \in live
    BY <2>2 DEF Init
  <2> QED
    BY <2>1, <2>2, <2>3, BlankNode DEF Ahead, HeldW, Last
<1>2. DefinedInv /\ Ahead(w) /\ [Next]_vars => (DefinedInv /\ Ahead(w))'
  BY AheadStep
<1> QED
  BY <1>1, <1>2, PTL DEF Spec

\* A queue of one producer and any number of consumers deletes no node that anybody is in:
\* what MpmcQueue.h gets wrong with two producers (push, try_pop, retire), it gets right with one.
THEOREM OneWriterAlive ==
  ASSUME NEW w \in Writers, Writers = {w}
  PROVE  Spec => []NoUseAfterFree
<1>1. DefinedInv /\ Ahead(w) => NoUseAfterFree
  BY AheadDefined DEF DefinedInv
<1> QED
  BY <1>1, AlwaysAhead, PTL

\* So it keeps all it promises, with no proviso about deleted nodes: no value is lost,
\* doubled or overtaken, none is missed by a reader that finds the queue empty, and every
\* node is deleted once.
THEOREM OneWriterQueue ==
  ASSUME NEW w \in Writers, Writers = {w}
  PROVE  Spec => [](Conserved /\ InOrder /\ EmptyIsTrue /\ NodesAccounted)
<1>1. DefinedInv /\ Ahead(w) => Defined
  BY AheadDefined DEF DefinedInv
<1>2. Defined /\ [Next]_vars => [Defined /\ Next]_vars
  OBVIOUS
<1>3. Spec => DefinedSpec
  BY <1>1, <1>2, AlwaysAhead, PTL DEF Spec, DefinedSpec
<1> QED
  BY <1>3, NothingLost, FirstInFirstOut, EmptyWhenFound, NoneLeaked, PTL
=============================================================================
