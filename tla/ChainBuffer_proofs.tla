------------------------- MODULE ChainBuffer_proofs -------------------------
(***************************************************************************)
(* Safety of the chain buffer for every size of its buffers and of the     *)
(* stream: the bytes come in order and complete, no node is used after it  *)
(* was deleted and none is left, and the chain implements a byte stream.   *)
(***************************************************************************)
EXTENDS ChainBuffer, FiniteSetTheorems, SequenceTheorems, TLAPS

Nodes == 1 .. Len(nodes)

\* The position in the stream where the bytes of node n end.
End(n) == nodes[n].first + nodes[n].len

\* The last node whose bytes are written, and the last one that next_ leads to.
W == IF wpc = "closed" THEN Len(nodes) ELSE tail_
Last == IF wpc = "link" THEN Len(nodes) - 1 ELSE Len(nodes)

\* Where the writer's pointers are at each of its places.
WriterInv ==
  /\ Len(nodes) >= 1 /\ head_ \in {Null, 1} /\ written = End(W)
  /\ wpc \in {"idle", "append", "alloc"} => tail_ = Len(nodes) /\ fresh = Null
  /\ wpc \in {"append", "alloc"} => want > 0
  /\ wpc \in {"link", "release"} =>
       tail_ = Len(nodes) - 1 /\ tail_ >= 1 /\ fresh = Len(nodes)
  /\ wpc = "closed" => head_ = Null /\ tail_ = Null /\ fresh = Null

\* The nodes hold the stream in order and without gaps.
ChainInv ==
  /\ nodes[1].first = 0
  /\ \A n \in Nodes :
       /\ nodes[n].next = IF n < Last THEN n + 1 ELSE Null
       /\ nodes[n].has_writer <=> wpc # "closed" /\ n >= tail_
       /\ nodes[n].len <= nodes[n].cap
       /\ n + 1 \in Nodes => nodes[n + 1].first = End(n)
       /\ \A m \in Nodes : m < n => End(m) <= nodes[n].first

\* An iterator on the bytes that it has loaded of a node, or past the last node.
OnChain(r) ==
  /\ r.from = Null => r.head = Null /\ r.pos = 0 /\ r.lim = 0
  /\ r.from # Null =>
       /\ r.from \in Nodes /\ r.from <= W
       /\ r.head = r.from
          \/ (r.head = Null /\ wpc = "closed" /\ r.from = Len(nodes) /\ r.pos = nodes[r.from].len)
       /\ r.need_sync = nodes[r.from].sync
       /\ r.pos <= r.lim /\ r.lim <= nodes[r.from].len
       /\ ~r.need_sync => r.lim = nodes[r.from].len
       /\ r.offset = nodes[r.from].first + r.pos

IterInv == \A x \in Ends : OnChain(it[x])

\* Which iterators there are, and which one the call that runs is about.
PresInv ==
  /\ rpc # "none" => head_ = Null
  /\ rpc \in {"none", "gone"} => \A x \in Ends : ~Present(x)
  /\ rpc = "none" => promised = 0 /\ \A x \in Ends : it[x].offset = 0
  /\ Present("begin") <=> Present("end")
  /\ Present("begin2") => Present("end2")
  /\ Present("end2") => Present("begin2") \/ call.f = "cut"
  /\ call.f = "none" <=> rpc \in {"none", "idle", "gone"}
  /\ call.f # "none" => Present(call.x)
  /\ call.f = "sync" => call.x = "end"
  /\ call.f \in {"read", "advance", "move"} => call.x \in Begins
  /\ call.f = "cut" => call.x = "end2" /\ Present("begin") /\ ~Present("begin2")
  /\ rpc = "confirm" => call.f = "read"
  /\ rpc = "cut" => call.f = "cut"
  /\ rpc = "drop" => call.f = "move"

\* What the reader knows between two steps of prepare_read.
LocalInv ==
  /\ rpc \in {"load", "sync", "next"} =>
       it[call.x].head # Null /\ it[call.x].pos = it[call.x].lim
  /\ rpc = "sync" /\ call.has_writer =>
       /\ \A y \in Ends : it[y].from <= it[call.x].from
       /\ call.f = "sync" => promised <= End(it[call.x].from)
  /\ rpc = "sync" /\ ~call.has_writer => ~nodes[it[call.x].head].has_writer
  /\ rpc = "next" =>
       /\ ~nodes[it[call.x].head].has_writer
       /\ it[call.x].lim = nodes[it[call.x].head].len

\* How the offsets of the iterators are ordered, and what a call may still take.
SizeInv ==
  /\ \A x \in Begins : Present(x) => it[x].offset <= it[EndOf(x)].offset
  /\ ready # 0 => rpc = "confirm"
  /\ ready <= it[call.x].lim - it[call.x].pos
  /\ call.x \in Begins => ready <= Size(call.x)
  /\ promised <= written
  /\ call.f # "sync" => promised <= it["end"].offset
  /\ call.f \in {"advance", "move"} => call.n <= Size(call.x)
  /\ call.f = "cut" =>
       /\ it["end2"].offset + call.n <= it["end"].offset
       /\ it["begin"].offset <= it["end2"].offset
  /\ call.f \in {"sync", "read"} => call.n = 0

\* The i-th of the references that thread t is about to give up.
Owed(t, i) == IF i <= Len(drop[t]) THEN drop[t][i] ELSE Null

One(a, b) == IF a = b THEN 1 ELSE 0

\* The references to node n: the writer's, the reader's, and that of the node before.
WriterRefs(n) ==
  One(head_, n) + One(tail_, n) + One(fresh, n)
  + One(Owed("writer", 1), n) + One(Owed("writer", 2), n)

IterRefs(n) ==
  One(it["begin"].head, n) + One(it["end"].head, n)
  + One(it["begin2"].head, n) + One(it["end2"].head, n)

ReaderRefs(n) == IterRefs(n) + One(Owed("reader", 1), n) + One(Owed("reader", 2), n)

NextRefs(n) ==
  IF n > 1 /\ n - 1 \notin freed /\ nodes[n - 1].next = n THEN 1 ELSE 0

\* Every counter is exact, and the nodes are deleted from the first one on.
RefInv ==
  /\ \A t \in Threads : Len(drop[t]) <= 2
  /\ \A n \in Nodes :
       /\ nodes[n].ref_cnt = WriterRefs(n) + ReaderRefs(n) + NextRefs(n)
       /\ n \in freed <=> nodes[n].ref_cnt = 0
  /\ \E k \in 0 .. Len(nodes) : freed = 1 .. k

IInv ==
  /\ TypeOK /\ WriterInv /\ ChainInv /\ IterInv /\ PresInv /\ LocalInv /\ SizeInv
  /\ AdvanceComplete /\ RefInv

-----------------------------------------------------------------------------
(* The chain.                                                              *)

\* The fields of the nodes of a chain.
LEMMA SeqTypes ==
  ASSUME NEW s \in Seq(NodeType)
  PROVE  /\ Len(s) \in Nat
         /\ \A n \in 1 .. Len(s) :
              /\ s[n] \in NodeType
              /\ s[n].first \in Nat /\ s[n].len \in Nat /\ s[n].cap \in Nat
              /\ s[n].ref_cnt \in Nat
              /\ s[n].sync \in BOOLEAN /\ s[n].has_writer \in BOOLEAN
<1>1. Len(s) \in Nat /\ \A n \in 1 .. Len(s) : s[n] \in NodeType
  BY LenProperties, ElementOfSeq
<1>2. SUFFICES ASSUME NEW n \in 1 .. Len(s)
               PROVE  /\ s[n].first \in Nat /\ s[n].len \in Nat /\ s[n].cap \in Nat
                      /\ s[n].ref_cnt \in Nat
                      /\ s[n].sync \in BOOLEAN /\ s[n].has_writer \in BOOLEAN
  BY <1>1
<1> QED
  BY <1>1 DEF NodeType

\* The fields of the nodes in a typed state.
LEMMA NodeTypes ==
  ASSUME TypeOK
  PROVE  /\ Len(nodes) \in Nat
         /\ \A n \in Nodes :
              /\ nodes[n] \in NodeType
              /\ nodes[n].first \in Nat /\ nodes[n].len \in Nat /\ nodes[n].cap \in Nat
              /\ nodes[n].next \in Refs /\ nodes[n].ref_cnt \in Nat
              /\ nodes[n].sync \in BOOLEAN /\ nodes[n].has_writer \in BOOLEAN
              /\ End(n) \in Nat
BY SeqTypes DEF TypeOK, Nodes, End

\* Fields of the iterators in a typed state.
LEMMA IterTypes ==
  ASSUME TypeOK, NEW x \in Ends
  PROVE  /\ it[x] \in IteratorType
         /\ it[x].head \in Refs /\ it[x].from \in Refs
         /\ it[x].pos \in Nat /\ it[x].lim \in Nat /\ it[x].offset \in Nat
         /\ it[x].need_sync \in BOOLEAN
BY DEF TypeOK, IteratorType

\* Fields of the reader's call in a typed state.
LEMMA CallTypes ==
  ASSUME TypeOK
  PROVE  /\ call.f \in {"sync", "advance", "cut", "move", "none", "read"}
         /\ call.x \in Ends /\ call.n \in Nat /\ call.has_writer \in BOOLEAN
BY DEF TypeOK, After

\* A node with more bytes.
LEMMA SetLen ==
  ASSUME NEW r \in NodeType, NEW i \in Nat
  PROVE  LET s == [r EXCEPT !.len = i]
         IN  /\ s \in NodeType /\ s.len = i
             /\ s.first = r.first /\ s.cap = r.cap /\ s.sync = r.sync
             /\ s.next = r.next /\ s.has_writer = r.has_writer /\ s.ref_cnt = r.ref_cnt
BY DEF NodeType

\* A node that is linked.
LEMMA SetNext ==
  ASSUME NEW r \in NodeType, NEW i \in Nat
  PROVE  LET s == [r EXCEPT !.next = i]
         IN  /\ s \in NodeType /\ s.next = i
             /\ s.first = r.first /\ s.len = r.len /\ s.cap = r.cap
             /\ s.sync = r.sync /\ s.has_writer = r.has_writer /\ s.ref_cnt = r.ref_cnt
BY DEF NodeType

\* A node with another count of references.
LEMMA SetRefCnt ==
  ASSUME NEW r \in NodeType, NEW i \in Nat
  PROVE  LET s == [r EXCEPT !.ref_cnt = i]
         IN  /\ s \in NodeType /\ s.ref_cnt = i
             /\ s.first = r.first /\ s.len = r.len /\ s.cap = r.cap
             /\ s.sync = r.sync /\ s.next = r.next /\ s.has_writer = r.has_writer
BY DEF NodeType

\* A node without a writer.
LEMMA SetHasWriter ==
  ASSUME NEW r \in NodeType
  PROVE  LET s == [r EXCEPT !.has_writer = FALSE]
         IN  /\ s \in NodeType /\ s.has_writer = FALSE
             /\ s.first = r.first /\ s.len = r.len /\ s.cap = r.cap
             /\ s.sync = r.sync /\ s.next = r.next /\ s.ref_cnt = r.ref_cnt
BY DEF NodeType

\* A node is stored in place of the one with its number.
LEMMA StoreNode ==
  ASSUME TypeOK, NEW n \in Nodes, NEW r \in NodeType, nodes' = [nodes EXCEPT ![n] = r]
  PROVE  /\ nodes' \in Seq(NodeType) /\ Len(nodes') = Len(nodes)
         /\ nodes'[n] = r /\ \A m \in Nodes : m # n => nodes'[m] = nodes[m]
BY ExceptSeq DEF TypeOK, Nodes

\* A node is made.
LEMMA MakeNode ==
  ASSUME TypeOK, NEW r \in NodeType, nodes' = Append(nodes, r)
  PROVE  /\ nodes' \in Seq(NodeType) /\ Len(nodes') = Len(nodes) + 1
         /\ nodes'[Len(nodes) + 1] = r /\ \A m \in Nodes : nodes'[m] = nodes[m]
BY AppendProperties DEF TypeOK, Nodes

\* Only counters of references change.
SameChain ==
  /\ nodes' \in Seq(NodeType) /\ Len(nodes') = Len(nodes)
  /\ \A n \in Nodes :
       /\ nodes'[n].first = nodes[n].first /\ nodes'[n].len = nodes[n].len
       /\ nodes'[n].cap = nodes[n].cap /\ nodes'[n].sync = nodes[n].sync
       /\ nodes'[n].next = nodes[n].next /\ nodes'[n].has_writer = nodes[n].has_writer

\* What any step of the writer may do to what the reader has loaded.
Grow ==
  /\ Len(nodes) <= Len(nodes') /\ W <= W' /\ written <= written'
  /\ wpc = "closed" => wpc' = "closed" /\ Len(nodes') = Len(nodes)
  /\ head_ = Null => head_' = Null
  /\ \A n \in Nodes :
       /\ nodes'[n].first = nodes[n].first /\ nodes'[n].sync = nodes[n].sync
       /\ nodes[n].len <= nodes'[n].len
       /\ (nodes[n].has_writer /\ nodes[n].sync) \/ nodes'[n].len = nodes[n].len
       /\ nodes[n].has_writer \/ ~nodes'[n].has_writer

\* A step that only counts references keeps the chain.
LEMMA ChainStable ==
  ASSUME TypeOK, WriterInv, ChainInv, SameChain,
         UNCHANGED <<tail_, wpc, want, fresh, written>>, head_' \in {Null, head_}
  PROVE  WriterInv' /\ ChainInv' /\ Grow
<1>1. Nodes' = Nodes /\ Last' = Last /\ W' = W
  BY DEF SameChain, Nodes, Last, W
<1>2. W \in Nodes
  BY NodeTypes DEF TypeOK, WriterInv, W, Nodes
<1>3. \A n \in Nodes : End(n)' = End(n)
  BY DEF SameChain, End
<1>4. WriterInv'
  BY <1>1, <1>2, <1>3 DEF WriterInv, SameChain, End
<1>5. ChainInv'
  <2>1. wpc' = wpc /\ tail_' = tail_ /\ 1 \in Nodes
    BY NodeTypes DEF WriterInv, Nodes
  <2>2. \A n \in Nodes :
          /\ nodes'[n].next = IF n < Last THEN n + 1 ELSE Null
          /\ nodes'[n].has_writer <=> wpc # "closed" /\ n >= tail_
          /\ nodes'[n].len <= nodes'[n].cap
    BY ONLY ChainInv, SameChain DEF ChainInv, SameChain
  <2>3. \A n \in Nodes :
          /\ n + 1 \in Nodes => nodes'[n + 1].first = End(n)'
          /\ \A m \in Nodes : m < n => End(m)' <= nodes'[n].first
    BY ONLY <1>3, ChainInv, SameChain DEF ChainInv, SameChain
  <2>4. nodes'[1].first = 0
    BY ONLY <2>1, ChainInv, SameChain DEF ChainInv, SameChain
  <2> QED
    BY ONLY <1>1, <2>1, <2>2, <2>3, <2>4 DEF ChainInv
<1>6. Grow
  <2>1. /\ Len(nodes) \in Nat /\ W \in Nat /\ written \in Nat
        /\ \A n \in Nodes : nodes[n].len \in Nat
    BY <1>2, NodeTypes DEF TypeOK, Nodes
  <2>2. \A n \in Nodes : nodes[n].len <= nodes'[n].len
    BY ONLY <2>1, SameChain DEF SameChain
  <2> QED
    BY <1>1, <2>1, <2>2 DEF SameChain, Grow
<1> QED
  BY <1>4, <1>5, <1>6

\* Whatever the writer does, what the reader has is still right.
LEMMA ReaderStable ==
  ASSUME IInv, Grow, TypeOK', UNCHANGED reader
  PROVE  IterInv' /\ PresInv' /\ LocalInv' /\ SizeInv' /\ AdvanceComplete'
<1> USE DEF reader, Nodes
<1>0. TypeOK /\ WriterInv /\ ChainInv /\ IterInv /\ PresInv /\ LocalInv /\ SizeInv
  BY DEF IInv
<1>1. Nodes \subseteq Nodes' /\ Len(nodes) \in Nat /\ Len(nodes') \in Nat
  BY <1>0, NodeTypes DEF Grow, TypeOK
<1>2. \A n \in Nodes :
        /\ nodes[n].len \in Nat /\ nodes'[n].len \in Nat
        /\ nodes[n].first \in Nat /\ nodes'[n].first \in Nat
        /\ nodes'[n].sync = nodes[n].sync
  <2>1. nodes' \in Seq(NodeType)
    BY DEF TypeOK
  <2> QED
    BY <1>0, <1>1, <2>1, NodeTypes, SeqTypes DEF Grow
<1>3. \A n \in Nodes : End(n) \in Nat /\ End(n)' \in Nat /\ End(n) <= End(n)'
  BY <1>2 DEF End, Grow
<1>4. W \in Int /\ W' \in Int /\ W <= W'
  BY <1>0, <1>1 DEF TypeOK, W, Refs, Grow
<1>5. IterInv'
  <2> SUFFICES ASSUME NEW x \in Ends PROVE OnChain(it[x])'
    BY DEF IterInv
  <2>1. OnChain(it[x]) /\ it'[x] = it[x]
    BY <1>0 DEF IterInv
  <2>2. CASE it[x].from = Null
    BY <2>1, <2>2 DEF OnChain
  <2>3. CASE it[x].from # Null
    <3>1. it[x].from \in Nodes /\ it[x].from \in Nodes' /\ it[x].from <= W'
      BY <1>0, <1>1, <1>4, <2>1, <2>3, IterTypes DEF OnChain
    <3>2. ~nodes[it[x].from].sync => nodes'[it[x].from].len = nodes[it[x].from].len
      BY <3>1 DEF Grow
    <3>3. wpc = "closed" => nodes'[it[x].from].len = nodes[it[x].from].len
      BY <1>0, <3>1, NodeTypes DEF Grow, ChainInv
    <3> QED
      BY <1>0, <1>1, <1>2, <2>1, <2>3, <3>1, <3>2, <3>3, IterTypes DEF OnChain, Grow
  <2> QED
    BY <2>2, <2>3
<1>6. PresInv'
  BY <1>0 DEF PresInv, Present, Grow
<1>7. LocalInv'
  <2>1. call.x \in Ends
    BY <1>0, CallTypes
  <2>2. it[call.x].head # Null => it[call.x].head \in Nodes /\ it[call.x].from = it[call.x].head
    BY <1>0, <2>1 DEF IterInv, OnChain
  <2>3. promised \in Nat
    BY <1>0 DEF TypeOK
  <2>4. rpc = "sync" => it[call.x].head # Null
    BY <1>0 DEF LocalInv
  <2>5. rpc = "next" => it[call.x].head # Null
    BY <1>0 DEF LocalInv
  <2>6. rpc = "sync" /\ call.has_writer /\ call.f = "sync" => promised <= End(it[call.x].from)'
    BY <1>0, <1>3, <2>2, <2>3, <2>4 DEF LocalInv
  <2>7. rpc = "sync" /\ ~call.has_writer => ~nodes'[it[call.x].head].has_writer
    BY <1>0, <2>2, <2>4, NodeTypes DEF LocalInv, Grow
  <2>8. rpc = "next" =>
          /\ ~nodes'[it[call.x].head].has_writer
          /\ it[call.x].lim = nodes'[it[call.x].head].len
    BY <1>0, <2>2, <2>5, NodeTypes DEF LocalInv, Grow
  <2> QED
    BY <1>0, <2>6, <2>7, <2>8 DEF LocalInv
<1>8. SizeInv'
  BY <1>0 DEF SizeInv, Present, Size, Grow, TypeOK
<1>9. AdvanceComplete'
  BY DEF IInv, AdvanceComplete
<1> QED
  BY <1>5, <1>6, <1>7, <1>8, <1>9

-----------------------------------------------------------------------------
(* The steps of the writer.                                                *)

\* References have been passed on.
LEMMA RefsMoved ==
  ASSUME RefInv, freed' = freed, Len(nodes') = Len(nodes), Len(nodes) \in Nat,
         \A n \in Nodes : nodes'[n].ref_cnt = nodes[n].ref_cnt /\ nodes'[n].next = nodes[n].next,
         \A n \in Nodes : WriterRefs(n)' + ReaderRefs(n)' = WriterRefs(n) + ReaderRefs(n),
         \A t \in Threads : Len(drop'[t]) <= 2
  PROVE  RefInv'
<1>1. Nodes' = Nodes
  BY DEF Nodes
<1>2. \A n \in Nodes : n > 1 => n - 1 \in Nodes
  BY DEF Nodes
<1>3. \A n \in Nodes : NextRefs(n)' = NextRefs(n)
  BY <1>2 DEF NextRefs
<1> QED
  BY <1>1, <1>3 DEF RefInv

\* Nothing that a counter counts has changed.
LEMMA SameRefs ==
  ASSUME RefInv, UNCHANGED <<freed, drop, head_, tail_, fresh>>, Len(nodes') = Len(nodes),
         \A x \in Ends : it'[x].head = it[x].head,
         \A n \in Nodes : nodes'[n].ref_cnt = nodes[n].ref_cnt /\ nodes'[n].next = nodes[n].next,
         Len(nodes) \in Nat
  PROVE  RefInv'
<1>1. \A n \in Nodes : WriterRefs(n)' = WriterRefs(n) /\ ReaderRefs(n)' = ReaderRefs(n)
  BY DEF WriterRefs, ReaderRefs, IterRefs, Owed, Ends, Begins
<1>2. \A t \in Threads : Len(drop'[t]) <= 2
  BY DEF RefInv
<1> QED
  BY <1>1, <1>2, RefsMoved

\* Counts are numbers.
RefsNat ==
  \A n : /\ WriterRefs(n) \in Nat /\ IterRefs(n) \in Nat /\ ReaderRefs(n) \in Nat
         /\ NextRefs(n) \in {0, 1}

LEMMA CountsAreNat == RefsNat
<1>1. \A a, b : One(a, b) \in {0, 1}
  BY DEF One
<1> QED
  BY <1>1 DEF RefsNat, WriterRefs, IterRefs, ReaderRefs, NextRefs

LEMMA RefNats ==
  ASSUME NEW n
  PROVE  /\ WriterRefs(n) \in Nat /\ IterRefs(n) \in Nat /\ ReaderRefs(n) \in Nat
         /\ NextRefs(n) \in {0, 1}
BY CountsAreNat DEF RefsNat

\* A node that somebody refers to has not been deleted.
LEMMA Referenced ==
  ASSUME RefInv, NEW n \in Nodes,
         \/ head_ = n \/ tail_ = n \/ fresh = n \/ \E x \in Ends : it[x].head = n
         \/ \E t \in Threads : \E i \in {1, 2} : Owed(t, i) = n
         \/ NextRefs(n) = 1
  PROVE  n \notin freed /\ nodes[n].ref_cnt >= 1
<1>1. \A a, b : One(a, b) \in {0, 1} /\ (a = b => One(a, b) = 1)
  BY DEF One
<1>2. /\ WriterRefs(n) \in Nat /\ IterRefs(n) \in Nat /\ ReaderRefs(n) \in Nat
      /\ NextRefs(n) \in {0, 1}
  BY RefNats
<1>3. WriterRefs(n) >= 1 \/ ReaderRefs(n) >= 1 \/ NextRefs(n) = 1
  <2>1. CASE head_ = n \/ tail_ = n \/ fresh = n
             \/ Owed("writer", 1) = n \/ Owed("writer", 2) = n
    BY <1>1, <2>1 DEF WriterRefs
  <2>2. CASE \E x \in Ends : it[x].head = n
    <3>1. IterRefs(n) >= 1
      BY <1>1, <2>2 DEF IterRefs, Ends, Begins
    <3> QED
      BY ONLY <1>1, <1>2, <3>1 DEF ReaderRefs
  <2>3. CASE Owed("reader", 1) = n \/ Owed("reader", 2) = n
    BY <1>1, <1>2, <2>3 DEF ReaderRefs
  <2> QED
    BY <2>1, <2>2, <2>3 DEF Threads
<1> QED
  BY <1>2, <1>3 DEF RefInv

\* The writer starts to append.
LEMMA AppendStarts ==
  ASSUME IInv, wpc = "idle", want' \in Nat, want' > 0, wpc' \in {"append", "alloc"},
         UNCHANGED <<nodes, freed, drop, head_, tail_, fresh, written, reader>>
  PROVE  IInv'
<1>1. TypeOK'
  BY DEF IInv, TypeOK, reader, Refs
<1>2. WriterInv'
  BY DEF IInv, WriterInv, W, End
<1>3. ChainInv'
  BY DEF IInv, ChainInv, Nodes, Last, End
<1>4. Grow
  BY NodeTypes DEF IInv, Grow, W, TypeOK, Nodes, Refs
<1>5. RefInv'
  BY SameRefs, NodeTypes DEF IInv, reader
<1> QED
  BY <1>1, <1>2, <1>3, <1>4, <1>5, ReaderStable DEF IInv

LEMMA AppendSliceStep == ASSUME IInv, AppendSlice PROVE IInv'
<1>1. PICK size \in 1 .. MaxBytes - written : Append_(size)
  BY DEF AppendSlice
<1>2. size \in Nat /\ size > 0
  BY ChainAssumption DEF IInv, TypeOK
<1> QED
  BY <1>1, <1>2, AppendStarts DEF AppendSlice, WriterAt, Append_

LEMMA AppendAtLeastStep == ASSUME IInv, AppendAtLeast PROVE IInv'
<1>1. want' \in Nat /\ want' > 0
  BY ChainAssumption DEF IInv, TypeOK, AppendAtLeast
<1> QED
  BY <1>1, AppendStarts DEF AppendAtLeast, WriterAt

\* A node is made at the end of the stream and waits to be linked.
LEMMA NodeMade ==
  ASSUME IInv, wpc \in {"idle", "append", "alloc"}, wpc' = "link",
         NEW len \in Nat, NEW cap \in Nat, NEW sync \in BOOLEAN, len <= cap,
         nodes' = Append(nodes, Node(written, len, cap, sync)), fresh' = Len(nodes) + 1,
         UNCHANGED <<freed, drop, head_, tail_, want, written, reader>>
  PROVE  IInv'
<1> DEFINE r == Node(written, len, cap, sync)
<1>0. TypeOK /\ WriterInv /\ ChainInv /\ RefInv
  BY DEF IInv
<1>1. /\ r \in NodeType /\ r.first = written /\ r.len = len /\ r.cap = cap
      /\ r.next = Null /\ r.has_writer = TRUE /\ r.ref_cnt = 1
  BY <1>0 DEF Node, NodeType, TypeOK, Null
<1> HIDE DEF r
<1>2. /\ nodes' \in Seq(NodeType) /\ Len(nodes') = Len(nodes) + 1
      /\ nodes'[Len(nodes) + 1] = r /\ \A m \in Nodes : nodes'[m] = nodes[m]
  BY <1>0, <1>1, MakeNode DEF r
<1>3. Len(nodes) \in Nat /\ Nodes' = Nodes \cup {Len(nodes) + 1} /\ Len(nodes) + 1 \notin Nodes
  BY <1>0, <1>2, NodeTypes DEF Nodes
<1>4. tail_ = Len(nodes) /\ fresh = Null /\ Len(nodes) \in Nodes /\ written = End(Len(nodes))
  BY <1>0, <1>3 DEF WriterInv, W, Nodes
<1>5. TypeOK'
  <2>1. \A n \in Nodes' : nodes'[n].next \in Refs'
    BY <1>0, <1>1, <1>2, <1>3, NodeTypes DEF Nodes, Refs, Null
  <2>2. Refs \subseteq Refs' /\ Nodes \subseteq Nodes'
    BY <1>2, <1>3 DEF Refs
  <2>3. drop' \in [Threads -> Seq(1 .. Len(nodes'))]
    <3>1. \A t \in Threads : drop[t] \in Seq(1 .. Len(nodes'))
      BY <1>0, <2>2, SeqMonotonic DEF TypeOK, Nodes
    <3> QED
      BY <1>0, <3>1 DEF TypeOK
  <2>4. freed' \subseteq 1 .. Len(nodes')
    BY <1>0, <2>2 DEF TypeOK, Nodes
  <2>5. {head_', tail_', fresh'} \subseteq Refs'
    BY <1>0, <1>2, <1>3, <2>2 DEF TypeOK, Refs
  <2>6. \A x \in Ends : {it'[x].head, it'[x].from} \subseteq Refs'
    BY <1>0, <2>2 DEF TypeOK, reader
  <2> QED
    BY <1>0, <1>2, <2>1, <2>3, <2>4, <2>5, <2>6 DEF TypeOK, reader, Nodes
<1>6. \A n \in Nodes : End(n)' = End(n) /\ End(n) \in Nat
  BY <1>0, <1>2, NodeTypes DEF End
<1>7. WriterInv'
  BY <1>0, <1>2, <1>3, <1>4, <1>6 DEF WriterInv, W
<1>8. Last = Len(nodes) /\ Last' = Len(nodes)
  BY <1>2, <1>3 DEF Last
<1>9. ChainInv'
  <2>1. nodes'[1].first = 0
    BY <1>0, <1>2, <1>3, <1>4 DEF ChainInv, Nodes
  <2>2. SUFFICES ASSUME NEW n \in Nodes'
                 PROVE  /\ nodes'[n].next = IF n < Last' THEN n + 1 ELSE Null
                        /\ nodes'[n].has_writer <=> wpc' # "closed" /\ n >= tail_'
                        /\ nodes'[n].len <= nodes'[n].cap
                        /\ n + 1 \in Nodes' => nodes'[n + 1].first = End(n)'
                        /\ \A m \in Nodes' : m < n => End(m)' <= nodes'[n].first
    BY <2>1 DEF ChainInv
  <2>3. CASE n = Len(nodes) + 1
    <3>1. ASSUME NEW m \in Nodes PROVE End(m) <= written
      <4>1. CASE m = Len(nodes)
        BY <1>4, <1>6, <4>1
      <4>2. CASE m < Len(nodes)
        <5>1. End(m) <= nodes[Len(nodes)].first
          BY <1>0, <1>4, <4>2 DEF ChainInv
        <5>2. /\ End(m) \in Nat /\ nodes[Len(nodes)].first \in Nat
              /\ nodes[Len(nodes)].len \in Nat
          BY <1>0, <1>4, <1>6, NodeTypes
        <5>3. written = nodes[Len(nodes)].first + nodes[Len(nodes)].len
          BY ONLY <1>4 DEF End
        <5> QED
          BY ONLY <5>1, <5>2, <5>3
      <4> QED
        BY <1>3, <4>1, <4>2 DEF Nodes
    <3> QED
      BY <1>1, <1>2, <1>3, <1>4, <1>6, <1>8, <2>3, <3>1 DEF Nodes
  <2>4. CASE n \in Nodes
    <3>1. n = Len(nodes) => n + 1 = Len(nodes) + 1 /\ nodes'[n + 1].first = End(n)'
      BY <1>1, <1>2, <1>4, <1>6
    <3>2. n # Len(nodes) => n + 1 \in Nodes
      BY <1>3, <2>4 DEF Nodes
    <3>3. n \in Int /\ n <= Len(nodes)
      BY <1>3, <2>4 DEF Nodes
    <3>4. /\ nodes'[n].next = IF n < Last' THEN n + 1 ELSE Null
          /\ nodes'[n].has_writer <=> wpc' # "closed" /\ n >= tail_'
          /\ nodes'[n].len <= nodes'[n].cap
      BY <1>0, <1>2, <1>8, <2>4 DEF ChainInv
    <3>5. n + 1 \in Nodes' => nodes'[n + 1].first = End(n)'
      BY <1>0, <1>2, <1>6, <2>4, <3>1, <3>2 DEF ChainInv
    <3>6. \A m \in Nodes' : m < n => m \in Nodes
      BY <1>3, <3>3 DEF Nodes
    <3>7. \A m \in Nodes' : m < n => End(m)' <= nodes'[n].first
      BY <1>0, <1>2, <1>6, <2>4, <3>6 DEF ChainInv
    <3> QED
      BY <3>4, <3>5, <3>7
  <2> QED
    BY <1>3, <2>3, <2>4
<1>10. Grow
  BY <1>0, <1>2, <1>3, NodeTypes DEF Grow, W, TypeOK, Nodes, WriterInv
<1>11. RefInv'
  <2>1. \A n \in Nodes :
          WriterRefs(n)' = WriterRefs(n) /\ ReaderRefs(n)' = ReaderRefs(n)
    <3> TAKE n \in Nodes
    <3>1. \A t \in Threads, i \in {1, 2} : Owed(t, i)' = Owed(t, i)
      BY DEF Owed
    <3>2. One(fresh, n) = 0 /\ One(fresh, n)' = 0
      BY <1>3, <1>4 DEF One, Nodes, Null
    <3>3. WriterRefs(n)' = WriterRefs(n)
      BY <3>1, <3>2 DEF WriterRefs, Threads
    <3>4. ReaderRefs(n)' = ReaderRefs(n)
      BY <3>1 DEF ReaderRefs, IterRefs, Threads, reader
    <3> QED
      BY <3>3, <3>4
  <2>2. \A n \in Nodes : NextRefs(n)' = NextRefs(n)
    BY <1>2, <1>3 DEF NextRefs, Nodes
  <2>3. ASSUME NEW l, l = Len(nodes) + 1
        PROVE  NextRefs(l)' = 0 /\ WriterRefs(l)' = 1 /\ ReaderRefs(l)' = 0
    <3>1. \A t \in Threads, i \in {1, 2} : Owed(t, i) # l
      <4> SUFFICES ASSUME NEW t \in Threads, NEW i \in {1, 2}, i <= Len(drop[t])
                   PROVE  drop[t][i] # l
        BY <1>3, <2>3 DEF Owed, Null
      <4>1. drop[t] \in Seq(Nodes)
        BY <1>0 DEF TypeOK, Nodes
      <4>2. i \in 1 .. Len(drop[t])
        BY <4>1, LenProperties
      <4> QED
        BY <1>3, <2>3, <4>1, <4>2, ElementOfSeq
    <3>2. \A x \in Ends : it[x].head # l
      BY <1>0, <1>3, <2>3, IterTypes DEF Refs
    <3>3. head_ # l /\ tail_ # l
      BY <1>0, <1>3, <2>3 DEF TypeOK, Refs
    <3>4. l - 1 = Len(nodes) /\ l # Null
      BY <1>3, <2>3 DEF Null
    <3>10. nodes'[Len(nodes)].next = Null
      <4>1. nodes[Len(nodes)].next = IF Len(nodes) < Last THEN Len(nodes) + 1 ELSE Null
        BY <1>0, <1>4 DEF ChainInv
      <4>2. ~(Len(nodes) < Last)
        BY <1>3, <1>8
      <4> QED
        BY <1>2, <1>4, <4>1, <4>2
    <3>5. fresh' = l
      BY <2>3
    <3>6. \A t \in Threads, i \in {1, 2} : Owed(t, i)' # l
      BY <3>1 DEF Owed
    <3>7. WriterRefs(l)' = 1
      BY <3>3, <3>5, <3>6 DEF WriterRefs, One, Threads
    <3>8. ReaderRefs(l)' = 0
      BY <3>2, <3>6 DEF ReaderRefs, IterRefs, One, Threads, Ends, Begins, reader
    <3>9. NextRefs(l)' = 0
      BY <3>4, <3>10 DEF NextRefs, One
    <3> QED
      BY <3>7, <3>8, <3>9
  <2>5. Len(nodes) + 1 \notin freed
    BY <1>0, <1>3 DEF TypeOK, Nodes
  <2>6. \E k \in 0 .. Len(nodes') : freed' = 1 .. k
    BY <1>0, <1>2, <1>3 DEF RefInv
  <2>7. \A n \in Nodes :
          /\ nodes'[n].ref_cnt = WriterRefs(n)' + ReaderRefs(n)' + NextRefs(n)'
          /\ n \in freed' <=> nodes'[n].ref_cnt = 0
    BY <1>0, <1>2, <2>1, <2>2 DEF RefInv
  <2>8. \A l : l = Len(nodes) + 1 =>
          /\ nodes'[l].ref_cnt = WriterRefs(l)' + ReaderRefs(l)' + NextRefs(l)'
          /\ l \in freed' <=> nodes'[l].ref_cnt = 0
    BY <1>1, <1>2, <2>3, <2>5
  <2> QED
    BY <1>0, <1>3, <2>6, <2>7, <2>8 DEF RefInv
<1> QED
  BY <1>5, <1>7, <1>9, <1>10, <1>11, ReaderStable DEF IInv

LEMMA AppendBufferSliceStep == ASSUME IInv, AppendBufferSlice PROVE IInv'
<1>1. PICK size \in 1 .. MaxBytes - written :
        IF size < SmallSlice \/ Room >= size
        THEN Append_(size)
        ELSE /\ nodes' = Append(nodes, Node(written, size, size, FALSE))
             /\ fresh' = Len(nodes) + 1 /\ wpc' = "link"
             /\ UNCHANGED <<freed, drop, head_, tail_, want, written, reader>>
  BY DEF AppendBufferSlice
<1>2. size \in Nat /\ size > 0 /\ wpc = "idle"
  BY ChainAssumption DEF IInv, TypeOK, AppendBufferSlice, WriterAt
<1>3. CASE Append_(size)
  BY <1>2, <1>3, AppendStarts DEF Append_
<1>4. CASE /\ nodes' = Append(nodes, Node(written, size, size, FALSE))
           /\ fresh' = Len(nodes) + 1 /\ wpc' = "link"
           /\ UNCHANGED <<freed, drop, head_, tail_, want, written, reader>>
  <2>1. size <= size /\ FALSE \in BOOLEAN /\ wpc \in {"idle", "append", "alloc"}
    BY <1>2
  <2> QED
    BY ONLY IInv, <1>2, <1>4, <2>1, NodeMade
<1> QED
  BY <1>1, <1>3, <1>4

LEMMA AllocStep == ASSUME IInv, Alloc PROVE IInv'
<1> DEFINE cap == IF want < HintLimit THEN AllocSize ELSE want
<1>1. cap \in Nat /\ 0 <= cap
  BY ChainAssumption DEF IInv, TypeOK
<1>2. /\ nodes' = Append(nodes, Node(written, 0, cap, TRUE))
      /\ wpc \in {"append", "alloc"}
  BY DEF Alloc, WriterAt
<1> HIDE DEF cap
<1> QED
  BY <1>1, <1>2, NodeMade DEF Alloc

\* The buffer of the last node has room for what is copied into it.
LEMMA ConfirmAppendStep == ASSUME IInv, ConfirmAppend PROVE IInv'
<1>0. TypeOK /\ WriterInv /\ ChainInv /\ RefInv
  BY DEF IInv
<1>1. /\ wpc = "append" /\ tail_ = Len(nodes) /\ fresh = Null /\ want > 0
      /\ tail_ \in Nodes /\ Len(nodes) \in Nat /\ written = End(tail_)
  BY <1>0, NodeTypes DEF ConfirmAppend, WriterAt, WriterInv, W, Nodes
<1>2. /\ nodes[tail_].sync /\ shift \in Nat /\ shift > 0
      /\ nodes[tail_].len + shift <= nodes[tail_].cap /\ shift <= want /\ want \in Nat
  <2>1. nodes[tail_].len \in Nat /\ nodes[tail_].cap \in Nat /\ want \in Nat
    BY <1>0, <1>1, NodeTypes DEF TypeOK
  <2> QED
    BY <1>1, <2>1 DEF ConfirmAppend, shift, Room
<1> DEFINE r == [nodes[tail_] EXCEPT !.len = nodes[tail_].len + shift]
<1>3. /\ r \in NodeType /\ r.first = nodes[tail_].first /\ r.len = nodes[tail_].len + shift
      /\ r.cap = nodes[tail_].cap /\ r.sync = nodes[tail_].sync /\ r.next = nodes[tail_].next
      /\ r.has_writer = nodes[tail_].has_writer /\ r.ref_cnt = nodes[tail_].ref_cnt
  <2>1. nodes[tail_] \in NodeType /\ nodes[tail_].len + shift \in Nat
    BY <1>0, <1>1, <1>2, NodeTypes
  <2> QED
    BY ONLY <2>1, SetLen
<1>4. nodes' = [nodes EXCEPT ![tail_] = r]
  BY DEF ConfirmAppend
<1> HIDE DEF r
<1>5. /\ nodes' \in Seq(NodeType) /\ Len(nodes') = Len(nodes)
      /\ nodes'[tail_] = r /\ \A m \in Nodes : m # tail_ => nodes'[m] = nodes[m]
  BY <1>0, <1>1, <1>3, <1>4, StoreNode
<1>6. /\ Nodes' = Nodes /\ Refs' = Refs /\ wpc' \in {"idle", "append"}
      /\ want' = want - shift /\ (wpc' = "append" => want' > 0) /\ want' \in Nat
      /\ written' = written + shift /\ written' \in Nat /\ written \in Nat
  BY <1>0, <1>2, <1>5 DEF ConfirmAppend, Nodes, Refs, TypeOK
<1>7. UNCHANGED <<freed, drop, head_, tail_, fresh, reader>>
  BY DEF ConfirmAppend
<1> HIDE DEF shift
<1>8. \A n \in Nodes :
        /\ nodes'[n].first = nodes[n].first /\ nodes'[n].cap = nodes[n].cap
        /\ nodes'[n].sync = nodes[n].sync /\ nodes'[n].next = nodes[n].next
        /\ nodes'[n].has_writer = nodes[n].has_writer /\ nodes'[n].ref_cnt = nodes[n].ref_cnt
        /\ nodes'[n].len = nodes[n].len + (IF n = tail_ THEN shift ELSE 0)
        /\ End(n)' = End(n) + (IF n = tail_ THEN shift ELSE 0)
  <2> TAKE n \in Nodes
  <2>1. nodes[n].len \in Nat /\ nodes[n].first \in Nat
    BY ONLY <1>0, n \in Nodes, NodeTypes
  <2>2. CASE n = tail_
    <3>1. nodes'[n].first = nodes[n].first /\ nodes'[n].len = nodes[n].len + shift
      BY ONLY <1>3, <1>5, <2>2
    <3>2. End(n)' = End(n) + shift
      BY ONLY <1>2, <2>1, <3>1 DEF End
    <3> QED
      BY ONLY <1>3, <1>5, <2>2, <3>1, <3>2
  <2>3. CASE n # tail_
    BY ONLY n \in Nodes, <1>5, <2>1, <2>3 DEF End
  <2> QED
    BY <2>2, <2>3
<1>9. TypeOK'
  BY ONLY <1>0, <1>5, <1>6, <1>7, <1>8 DEF TypeOK, Nodes, reader
<1>10. WriterInv'
  BY ONLY <1>0, <1>1, <1>2, <1>5, <1>6, <1>7, <1>8 DEF WriterInv, W
<1>11. ChainInv'
  <2>1. Last' = Last /\ wpc' # "closed" /\ wpc # "closed"
    BY ONLY <1>1, <1>5, <1>6 DEF Last
  <2>2. nodes'[1].first = 0 /\ tail_ \in Nat
    BY ONLY <1>0, <1>1, <1>8 DEF ChainInv, Nodes
  <2>3. \A n \in Nodes : nodes[n].len \in Nat /\ nodes[n].first \in Nat /\ End(n) \in Nat
    BY ONLY <1>0, NodeTypes
  <2>4. ASSUME NEW n \in Nodes
        PROVE  /\ nodes'[n].next = IF n < Last' THEN n + 1 ELSE Null
               /\ nodes'[n].has_writer <=> wpc' # "closed" /\ n >= tail_'
               /\ nodes'[n].len <= nodes'[n].cap
    BY ONLY <1>0, <1>2, <1>7, <1>8, <2>1, <2>3 DEF ChainInv
  <2>5. ASSUME NEW n \in Nodes, NEW m \in Nodes, m < n
        PROVE  m # tail_ /\ End(m)' = End(m) /\ End(m) <= nodes'[n].first
    BY ONLY <1>0, <1>1, <1>8, <2>3, <2>5 DEF ChainInv, Nodes
  <2>6. ASSUME NEW n \in Nodes, n + 1 \in Nodes
        PROVE  nodes'[n + 1].first = End(n)'
    <3>1. n < n + 1
      BY <1>1 DEF Nodes
    <3> QED
      BY ONLY <1>0, <1>8, <2>5, <2>6, <3>1 DEF ChainInv
  <2> QED
    BY ONLY <1>6, <2>2, <2>4, <2>5, <2>6 DEF ChainInv
<1>12. Grow
  <2>1. \A n \in Nodes : nodes[n].len \in Nat
    BY ONLY <1>0, NodeTypes
  <2>2. nodes[tail_].has_writer
    BY ONLY <1>0, <1>1 DEF ChainInv, Nodes
  <2> QED
    BY ONLY <1>1, <1>2, <1>5, <1>6, <1>7, <1>8, <2>1, <2>2 DEF Grow, W
<1>13. RefInv'
  BY ONLY <1>0, <1>1, <1>5, <1>7, <1>8, SameRefs DEF reader
<1> QED
  BY <1>7, <1>9, <1>10, <1>11, <1>12, <1>13, ReaderStable DEF IInv

\* The references of thread t after its debt has changed.
LEMMA OwedNow ==
  ASSUME NEW t
  PROVE  /\ \A a : drop'[t] = <<a>> => Owed(t, 1)' = a /\ Owed(t, 2)' = Null
         /\ \A a, b : drop'[t] = <<a, b>> => Owed(t, 1)' = a /\ Owed(t, 2)' = b
         /\ drop'[t] = <<>> => Owed(t, 1)' = Null /\ Owed(t, 2)' = Null
<1>1. ASSUME NEW a, drop'[t] = <<a>> PROVE Owed(t, 1)' = a /\ Owed(t, 2)' = Null
  <2>1. Len(drop'[t]) = 1 /\ drop'[t][1] = a
    BY <1>1
  <2> QED
    BY ONLY <2>1 DEF Owed
<1>2. ASSUME NEW a, NEW b, drop'[t] = <<a, b>> PROVE Owed(t, 1)' = a /\ Owed(t, 2)' = b
  <2>1. Len(drop'[t]) = 2 /\ drop'[t][1] = a /\ drop'[t][2] = b
    BY <1>2
  <2> QED
    BY ONLY <2>1 DEF Owed
<1>3. ASSUME drop'[t] = <<>> PROVE Owed(t, 1)' = Null /\ Owed(t, 2)' = Null
  <2>1. Len(drop'[t]) = 0
    BY <1>3
  <2> QED
    BY ONLY <2>1 DEF Owed
<1> QED
  BY <1>1, <1>2, <1>3

\* Nothing is owed.
LEMMA OwesNothing ==
  ASSUME NEW t, drop[t] = <<>>
  PROVE  Owed(t, 1) = Null /\ Owed(t, 2) = Null
BY DEF Owed

LEMMA LinkStep == ASSUME IInv, Link PROVE IInv'
<1>0. TypeOK /\ WriterInv /\ ChainInv /\ RefInv
  BY DEF IInv
<1>1. /\ wpc = "link" /\ wpc' = "release" /\ fresh = Len(nodes) /\ tail_ = Len(nodes) - 1
      /\ tail_ \in Nodes /\ fresh \in Nodes /\ Len(nodes) \in Nat
      /\ tail_ # fresh /\ fresh = tail_ + 1 /\ fresh \in Nat /\ tail_ \in Nat /\ fresh > 1
  BY <1>0, NodeTypes DEF Link, WriterAt, WriterInv, Nodes
<1> DEFINE a == [nodes[fresh] EXCEPT !.ref_cnt = nodes[fresh].ref_cnt + 1]
           b == [nodes[tail_] EXCEPT !.next = fresh]
           mid == [nodes EXCEPT ![fresh] = a]
<1>2. /\ a \in NodeType /\ a.ref_cnt = nodes[fresh].ref_cnt + 1
      /\ a.first = nodes[fresh].first /\ a.len = nodes[fresh].len /\ a.cap = nodes[fresh].cap
      /\ a.sync = nodes[fresh].sync /\ a.next = nodes[fresh].next
      /\ a.has_writer = nodes[fresh].has_writer
  <2>1. nodes[fresh] \in NodeType /\ nodes[fresh].ref_cnt + 1 \in Nat
    BY <1>0, <1>1, NodeTypes
  <2> QED
    BY ONLY <2>1, SetRefCnt
<1>3. /\ b \in NodeType /\ b.next = fresh
      /\ b.first = nodes[tail_].first /\ b.len = nodes[tail_].len /\ b.cap = nodes[tail_].cap
      /\ b.sync = nodes[tail_].sync /\ b.ref_cnt = nodes[tail_].ref_cnt
      /\ b.has_writer = nodes[tail_].has_writer
  <2>1. nodes[tail_] \in NodeType
    BY <1>0, <1>1, NodeTypes
  <2> QED
    BY ONLY <2>1, <1>1, SetNext
<1>4. /\ mid \in Seq(NodeType) /\ Len(mid) = Len(nodes)
      /\ \A m \in Nodes : mid[m] = IF m = fresh THEN a ELSE nodes[m]
  <2> HIDE DEF a
  <2> QED
    BY <1>0, <1>1, <1>2, ExceptSeq DEF TypeOK, Nodes
<1>5. nodes' = [mid EXCEPT ![tail_] = b]
  <2>1. mid[tail_] = nodes[tail_]
    BY <1>1, <1>4
  <2>2. nodes' = [mid EXCEPT ![tail_] = [mid[tail_] EXCEPT !.next = fresh]]
    BY DEF Link
  <2> QED
    BY <2>1, <2>2
<1> HIDE DEF a, b, mid
<1>6. /\ nodes' \in Seq(NodeType) /\ Len(nodes') = Len(nodes)
      /\ \A m \in Nodes :
           nodes'[m] = IF m = tail_ THEN b ELSE IF m = fresh THEN a ELSE nodes[m]
  BY ONLY <1>1, <1>3, <1>4, <1>5, ExceptSeq DEF Nodes
<1>7. UNCHANGED <<freed, drop, head_, tail_, want, fresh, written, reader>>
  BY DEF Link
<1>8. Nodes' = Nodes /\ Refs' = Refs /\ W' = W /\ W = tail_ /\ Last = tail_ /\ Last' = fresh
  BY <1>1, <1>6, <1>7 DEF Nodes, Refs, W, Last
<1>9. \A n \in Nodes :
        /\ nodes'[n].first = nodes[n].first /\ nodes'[n].len = nodes[n].len
        /\ nodes'[n].cap = nodes[n].cap /\ nodes'[n].sync = nodes[n].sync
        /\ nodes'[n].has_writer = nodes[n].has_writer
        /\ nodes'[n].next = IF n = tail_ THEN fresh ELSE nodes[n].next
        /\ nodes'[n].ref_cnt = IF n = fresh THEN nodes[n].ref_cnt + 1 ELSE nodes[n].ref_cnt
        /\ End(n)' = End(n)
  <2> TAKE n \in Nodes
  <2>1. CASE n = tail_
    BY ONLY n \in Nodes, <1>1, <1>3, <1>6, <2>1 DEF End
  <2>2. CASE n = fresh
    BY ONLY n \in Nodes, <1>1, <1>2, <1>6, <2>2 DEF End
  <2>3. CASE n # tail_ /\ n # fresh
    BY ONLY n \in Nodes, <1>6, <2>3 DEF End
  <2> QED
    BY <2>1, <2>2, <2>3
<1>10. TypeOK'
  <2>1. \A n \in Nodes : nodes[n].next \in Refs /\ fresh \in Refs
    BY ONLY <1>0, <1>1, NodeTypes DEF Refs
  <2> QED
    BY ONLY <1>0, <1>1, <1>6, <1>7, <1>8, <1>9, <2>1 DEF TypeOK, Nodes, reader
<1>11. WriterInv'
  <2>1. head_ \in {Null, 1} /\ written = End(W) /\ Len(nodes) >= 1
    BY ONLY <1>0 DEF WriterInv
  <2>2. written' = End(W)'
    <3>1. nodes'[tail_].first = nodes[tail_].first /\ nodes'[tail_].len = nodes[tail_].len
      BY ONLY <1>1, <1>9
    <3> QED
      BY ONLY <1>7, <1>8, <2>1, <3>1 DEF End
  <2>3. /\ head_' \in {Null, 1} /\ Len(nodes') >= 1 /\ wpc' = "release"
        /\ tail_' = Len(nodes') - 1 /\ tail_' >= 1 /\ fresh' = Len(nodes')
    BY ONLY <1>1, <1>6, <1>7, <2>1
  <2> QED
    BY ONLY <2>2, <2>3 DEF WriterInv
<1>12. ChainInv'
  <2>1. \A n \in Nodes : nodes'[n].next = IF n < Last' THEN n + 1 ELSE Null
    <3>1. \A n \in Nodes : nodes[n].next = IF n < tail_ THEN n + 1 ELSE Null
      BY ONLY <1>0, <1>8 DEF ChainInv
    <3>2. \A n \in Nodes : nodes'[n].next = IF n = tail_ THEN fresh ELSE nodes[n].next
      BY ONLY <1>9
    <3>3. tail_ \in Nat /\ fresh = tail_ + 1 /\ Last' = fresh /\ Nodes \subseteq Nat
      BY ONLY <1>1, <1>8 DEF Nodes
    <3>4. \A n \in Nodes : (n = tail_ => n < Last') /\ (n # tail_ => (n < tail_ <=> n < Last'))
      BY ONLY <1>1, <3>3 DEF Nodes
    <3> QED
      BY ONLY <3>1, <3>2, <3>3, <3>4
  <2>2. 1 \in Nodes /\ wpc # "closed" /\ wpc' # "closed" /\ tail_' = tail_
    BY ONLY <1>1, <1>7 DEF Nodes
  <2>3. nodes'[1].first = 0
    BY ONLY <1>0, <1>9, <2>2 DEF ChainInv
  <2>4. \A n \in Nodes :
          /\ nodes'[n].has_writer <=> wpc' # "closed" /\ n >= tail_'
          /\ nodes'[n].len <= nodes'[n].cap
    BY ONLY <1>0, <1>9, <2>2 DEF ChainInv
  <2>5. \A n \in Nodes :
          /\ n + 1 \in Nodes => nodes'[n + 1].first = End(n)'
          /\ \A m \in Nodes : m < n => End(m)' <= nodes'[n].first
    BY ONLY <1>0, <1>9 DEF ChainInv
  <2> QED
    BY ONLY <1>8, <2>1, <2>3, <2>4, <2>5 DEF ChainInv
<1>13. Grow
  <2>1. \A n \in Nodes : nodes[n].len \in Nat
    BY ONLY <1>0, NodeTypes
  <2>2. written \in Nat
    BY ONLY <1>0 DEF TypeOK
  <2>3. \A n \in Nodes : (nodes[n].has_writer /\ nodes[n].sync) \/ nodes'[n].len = nodes[n].len
    BY ONLY <1>9
  <2>4. \A n \in Nodes : nodes[n].has_writer \/ ~nodes'[n].has_writer
    BY ONLY <1>9
  <2> QED
    BY ONLY <1>1, <1>6, <1>7, <1>8, <1>9, <2>1, <2>2, <2>3, <2>4 DEF Grow
<1>14. RefInv'
  <2>1. \A n \in Nodes : WriterRefs(n)' = WriterRefs(n) /\ ReaderRefs(n)' = ReaderRefs(n)
    BY ONLY <1>7 DEF WriterRefs, ReaderRefs, IterRefs, Owed, reader
  <2>2. \A n \in Nodes : n > 1 => n - 1 \in Nodes
    BY <1>1 DEF Nodes
  <2>3. NextRefs(fresh) = 0 /\ NextRefs(fresh)' = 1
    <3>1. fresh - 1 = tail_
      BY <1>1
    <3>2. nodes[tail_].next = Null
      BY ONLY <1>0, <1>1, <1>8 DEF ChainInv
    <3>3. tail_ \notin freed
      BY <1>0, <1>1, Referenced
    <3> QED
      BY <1>1, <1>7, <1>9, <3>1, <3>2, <3>3 DEF NextRefs, Null
  <2>4. \A n \in Nodes : n # fresh => NextRefs(n)' = NextRefs(n)
    <3>1. \A n \in Nodes : n # fresh => n - 1 # tail_
      BY ONLY <1>1 DEF Nodes
    <3> QED
      BY ONLY <1>7, <1>9, <2>2, <3>1 DEF NextRefs
  <2>5. fresh \notin freed /\ nodes[fresh].ref_cnt \in Nat
    BY <1>0, <1>1, Referenced, NodeTypes
  <2>6. \A n \in Nodes :
          /\ nodes'[n].ref_cnt = WriterRefs(n)' + ReaderRefs(n)' + NextRefs(n)'
          /\ n \in freed' <=> nodes'[n].ref_cnt = 0
    <3> TAKE n \in Nodes
    <3>1. WriterRefs(n) \in Nat /\ ReaderRefs(n) \in Nat
      BY RefNats
    <3>2. /\ nodes[n].ref_cnt = WriterRefs(n) + ReaderRefs(n) + NextRefs(n)
          /\ n \in freed <=> nodes[n].ref_cnt = 0
      BY <1>0 DEF RefInv
    <3>3. CASE n = fresh
      BY ONLY n \in Nodes, <1>7, <1>9, <2>1, <2>3, <2>5, <3>1, <3>2, <3>3
    <3>4. CASE n # fresh
      BY ONLY n \in Nodes, <1>7, <1>9, <2>1, <2>4, <3>1, <3>2, <3>4
    <3> QED
      BY <3>3, <3>4
  <2> QED
    BY ONLY <1>0, <1>6, <1>7, <1>8, <2>6 DEF RefInv
<1> QED
  BY <1>7, <1>10, <1>11, <1>12, <1>13, <1>14, ReaderStable DEF IInv

\* The node that tail_ is taken from has no writer any more.
LEMMA WriterGone ==
  ASSUME TypeOK, tail_ \in Nodes,
         nodes' = [nodes EXCEPT ![tail_].has_writer = FALSE]
  PROVE  /\ nodes' \in Seq(NodeType) /\ Len(nodes') = Len(nodes)
         /\ \A n \in Nodes :
              /\ nodes'[n].first = nodes[n].first /\ nodes'[n].len = nodes[n].len
              /\ nodes'[n].cap = nodes[n].cap /\ nodes'[n].sync = nodes[n].sync
              /\ nodes'[n].next = nodes[n].next /\ nodes'[n].ref_cnt = nodes[n].ref_cnt
              /\ nodes'[n].has_writer <=> nodes[n].has_writer /\ n # tail_
              /\ End(n)' = End(n)
<1> DEFINE r == [nodes[tail_] EXCEPT !.has_writer = FALSE]
<1>1. /\ r \in NodeType /\ r.has_writer = FALSE
      /\ r.first = nodes[tail_].first /\ r.len = nodes[tail_].len /\ r.cap = nodes[tail_].cap
      /\ r.sync = nodes[tail_].sync /\ r.next = nodes[tail_].next
      /\ r.ref_cnt = nodes[tail_].ref_cnt
  <2>1. nodes[tail_] \in NodeType
    BY NodeTypes
  <2> QED
    BY ONLY <2>1, SetHasWriter
<1>2. nodes' = [nodes EXCEPT ![tail_] = r]
  OBVIOUS
<1> HIDE DEF r
<1>3. /\ nodes' \in Seq(NodeType) /\ Len(nodes') = Len(nodes)
      /\ nodes'[tail_] = r /\ \A m \in Nodes : m # tail_ => nodes'[m] = nodes[m]
  BY ONLY TypeOK, tail_ \in Nodes, <1>1, <1>2, StoreNode
<1>4. ASSUME NEW n \in Nodes
      PROVE  /\ nodes'[n].first = nodes[n].first /\ nodes'[n].len = nodes[n].len
             /\ nodes'[n].cap = nodes[n].cap /\ nodes'[n].sync = nodes[n].sync
             /\ nodes'[n].next = nodes[n].next /\ nodes'[n].ref_cnt = nodes[n].ref_cnt
             /\ nodes'[n].has_writer <=> nodes[n].has_writer /\ n # tail_
             /\ End(n)' = End(n)
  <2>1. CASE n = tail_
    BY ONLY <1>1, <1>3, <2>1 DEF End
  <2>2. CASE n # tail_
    BY ONLY n \in Nodes, <1>3, <2>2 DEF End
  <2> QED
    BY <2>1, <2>2
<1> QED
  BY ONLY <1>3, <1>4

LEMMA ReleaseStep == ASSUME IInv, Release PROVE IInv'
<1>0. TypeOK /\ WriterInv /\ ChainInv /\ RefInv
  BY DEF IInv
<1>1. /\ wpc = "release" /\ drop["writer"] = <<>>
      /\ fresh = Len(nodes) /\ tail_ = Len(nodes) - 1
      /\ tail_ \in Nodes /\ fresh \in Nodes /\ Len(nodes) \in Nat
      /\ fresh = tail_ + 1 /\ fresh \in Nat /\ tail_ \in Nat
  BY <1>0, NodeTypes DEF Release, WriterAt, WriterInv, Nodes
<1>2. /\ nodes' \in Seq(NodeType) /\ Len(nodes') = Len(nodes)
      /\ \A n \in Nodes :
           /\ nodes'[n].first = nodes[n].first /\ nodes'[n].len = nodes[n].len
           /\ nodes'[n].cap = nodes[n].cap /\ nodes'[n].sync = nodes[n].sync
           /\ nodes'[n].next = nodes[n].next /\ nodes'[n].ref_cnt = nodes[n].ref_cnt
           /\ nodes'[n].has_writer <=> nodes[n].has_writer /\ n # tail_
           /\ End(n)' = End(n)
  BY <1>0, <1>1, WriterGone DEF Release
<1>3. /\ UNCHANGED <<freed, head_, want, reader>> /\ tail_' = fresh /\ fresh' = Null
      /\ drop' = [drop EXCEPT !["writer"] = <<tail_>>] /\ wpc' \in {"idle", "append"}
      /\ written' = written + nodes[fresh].len /\ (wpc' = "append" => want # 0)
  BY DEF Release
<1>4. /\ Nodes' = Nodes /\ Refs' = Refs /\ W' = fresh /\ W = tail_
      /\ Last = Len(nodes) /\ Last' = Len(nodes)
  BY <1>1, <1>2, <1>3 DEF Nodes, Refs, W, Last
<1>5. written' = End(fresh) /\ written = End(tail_) /\ nodes[fresh].first = End(tail_)
  <2>1. nodes[fresh].first = End(tail_) /\ written = End(tail_)
    BY ONLY <1>0, <1>1, <1>4 DEF ChainInv, WriterInv
  <2> QED
    BY ONLY <1>3, <2>1 DEF End
<1>6. /\ drop' \in [Threads -> Seq(Nodes)]
      /\ drop'["writer"] = <<tail_>> /\ drop'["reader"] = drop["reader"]
  BY <1>0, <1>1, <1>3 DEF TypeOK, Threads, Nodes
<1>7. TypeOK'
  <2>1. written' \in Nat /\ Null \in Refs
    BY ONLY <1>0, <1>1, <1>5, NodeTypes DEF Refs, Null
  <2>2. nodes' \in Seq(NodeType) /\ \A n \in Nodes : nodes'[n].next \in Refs
    BY ONLY <1>0, <1>2, NodeTypes
  <2> QED
    BY ONLY <1>0, <1>1, <1>2, <1>3, <1>4, <1>6, <2>1, <2>2 DEF TypeOK, Nodes, reader
<1>8. WriterInv'
  <2>1. want \in Nat
    BY ONLY <1>0 DEF TypeOK
  <2> QED
    BY ONLY <1>0, <1>1, <1>2, <1>3, <1>4, <1>5, <2>1 DEF WriterInv
<1>9. ChainInv'
  <2>1. \A n \in Nodes : nodes'[n].has_writer <=> wpc' # "closed" /\ n >= tail_'
    BY ONLY <1>0, <1>1, <1>2, <1>3 DEF ChainInv, Nodes
  <2>2. 1 \in Nodes
    BY ONLY <1>1 DEF Nodes
  <2> QED
    BY ONLY <1>0, <1>2, <1>4, <2>1, <2>2 DEF ChainInv
<1>10. Grow
  <2>1. \A n \in Nodes : nodes[n].len \in Nat
    BY ONLY <1>0, NodeTypes
  <2>2. written \in Nat /\ written <= written'
    BY ONLY <1>0, <1>1, <1>3, <2>1 DEF TypeOK
  <2>3. \A n \in Nodes : (nodes[n].has_writer /\ nodes[n].sync) \/ nodes'[n].len = nodes[n].len
    BY ONLY <1>2
  <2>4. \A n \in Nodes : nodes[n].has_writer \/ ~nodes'[n].has_writer
    BY ONLY <1>2
  <2> QED
    BY ONLY <1>1, <1>2, <1>3, <1>4, <2>1, <2>2, <2>3, <2>4 DEF Grow
<1>11. RefInv'
  <2>1. /\ Owed("writer", 1) = Null /\ Owed("writer", 2) = Null
        /\ Owed("writer", 1)' = tail_ /\ Owed("writer", 2)' = Null
        /\ \A i : Owed("reader", i)' = Owed("reader", i)
    BY ONLY <1>1, <1>6, OwesNothing, OwedNow DEF Owed
  <2>2. \A n \in Nodes : WriterRefs(n)' + ReaderRefs(n)' = WriterRefs(n) + ReaderRefs(n)
    <3> TAKE n \in Nodes
    <3>1. One(Null, n) = 0 /\ \A a, b : One(a, b) \in {0, 1}
      BY ONLY n \in Nodes, <1>1 DEF One, Nodes, Null
    <3>2. WriterRefs(n)' = WriterRefs(n)
      <4>1. One(fresh, n)' = 0 /\ One(tail_, n)' = One(fresh, n) /\ One(head_, n)' = One(head_, n)
        BY ONLY <1>3, <3>1 DEF One
      <4>2. /\ One(Owed("writer", 1), n) = 0 /\ One(Owed("writer", 2), n) = 0
            /\ One(Owed("writer", 1), n)' = One(tail_, n) /\ One(Owed("writer", 2), n)' = 0
        BY ONLY <2>1, <3>1 DEF One
      <4> QED
        BY ONLY <3>1, <4>1, <4>2 DEF WriterRefs
    <3>3. ReaderRefs(n)' = ReaderRefs(n)
      BY ONLY <1>3, <2>1 DEF ReaderRefs, IterRefs, One, reader
    <3> QED
      BY <3>2, <3>3
  <2>3. \A t \in Threads : Len(drop'[t]) <= 2
    <3>1. Len(drop'["writer"]) <= 2
      BY ONLY <1>6
    <3>2. Len(drop'["reader"]) <= 2
      BY ONLY <1>0, <1>6 DEF RefInv, Threads
    <3> QED
      BY ONLY <3>1, <3>2 DEF Threads
  <2> QED
    BY ONLY <1>0, <1>1, <1>2, <1>3, <2>2, <2>3, RefsMoved
<1> QED
  BY <1>3, <1>7, <1>8, <1>9, <1>10, <1>11, ReaderStable DEF IInv

LEMMA CloseStep == ASSUME IInv, Close PROVE IInv'
<1>0. TypeOK /\ WriterInv /\ ChainInv /\ RefInv
  BY DEF IInv
<1>1. /\ wpc = "idle" /\ drop["writer"] = <<>> /\ fresh = Null /\ tail_ = Len(nodes)
      /\ tail_ \in Nodes /\ Len(nodes) \in Nat /\ tail_ \in Nat
  BY <1>0, NodeTypes DEF Close, WriterAt, WriterInv, Nodes
<1>2. /\ nodes' \in Seq(NodeType) /\ Len(nodes') = Len(nodes)
      /\ \A n \in Nodes :
           /\ nodes'[n].first = nodes[n].first /\ nodes'[n].len = nodes[n].len
           /\ nodes'[n].cap = nodes[n].cap /\ nodes'[n].sync = nodes[n].sync
           /\ nodes'[n].next = nodes[n].next /\ nodes'[n].ref_cnt = nodes[n].ref_cnt
           /\ nodes'[n].has_writer <=> nodes[n].has_writer /\ n # tail_
           /\ End(n)' = End(n)
  BY <1>0, <1>1, WriterGone DEF Close
<1>3. /\ UNCHANGED <<freed, want, fresh, written, reader>>
      /\ tail_' = Null /\ head_' = Null /\ wpc' = "closed"
      /\ drop' = [drop EXCEPT !["writer"] =
           IF head_ = Null THEN <<tail_>> ELSE <<tail_, head_>>]
  BY DEF Close
<1>4. /\ Nodes' = Nodes /\ Refs' = Refs /\ W' = Len(nodes) /\ W = Len(nodes)
      /\ Last = Len(nodes) /\ Last' = Len(nodes)
  BY <1>1, <1>2, <1>3 DEF Nodes, Refs, W, Last
<1>5. head_ # Null => head_ \in Nodes
  BY <1>0, <1>1 DEF WriterInv, Nodes
<1>6. /\ drop' \in [Threads -> Seq(Nodes)] /\ drop'["reader"] = drop["reader"]
      /\ drop'["writer"] = IF head_ = Null THEN <<tail_>> ELSE <<tail_, head_>>
  <2>1. drop \in [Threads -> Seq(Nodes)]
    BY ONLY <1>0 DEF TypeOK, Nodes
  <2>2. (IF head_ = Null THEN <<tail_>> ELSE <<tail_, head_>>) \in Seq(Nodes)
    <3>1. CASE head_ = Null
      BY ONLY <1>1, <3>1
    <3>2. CASE head_ # Null
      BY ONLY <1>1, <1>5, <3>2
    <3> QED
      BY <3>1, <3>2
  <2> QED
    BY ONLY <1>3, <2>1, <2>2 DEF Threads
<1>7. TypeOK'
  <2>1. Null \in Refs
    BY ONLY <1>1 DEF Refs, Null
  <2>2. nodes' \in Seq(NodeType) /\ \A n \in Nodes : nodes'[n].next \in Refs
    BY ONLY <1>0, <1>2, NodeTypes
  <2> QED
    BY ONLY <1>0, <1>1, <1>2, <1>3, <1>4, <1>6, <2>1, <2>2 DEF TypeOK, Nodes, reader
<1>8. WriterInv'
  <2>1. written = End(Len(nodes)) /\ End(Len(nodes))' = End(Len(nodes))
    BY ONLY <1>0, <1>1, <1>2, <1>4 DEF WriterInv
  <2>2. written' = End(W)'
    BY ONLY <1>2, <1>3, <1>4, <2>1 DEF End
  <2> QED
    BY ONLY <1>0, <1>1, <1>2, <1>3, <2>2 DEF WriterInv
<1>9. ChainInv'
  <2>1. \A n \in Nodes : ~nodes'[n].has_writer
    BY ONLY <1>0, <1>1, <1>2 DEF ChainInv, Nodes
  <2>2. 1 \in Nodes
    BY ONLY <1>1 DEF Nodes
  <2> QED
    BY ONLY <1>0, <1>2, <1>3, <1>4, <2>1, <2>2 DEF ChainInv
<1>10. Grow
  <2>1. \A n \in Nodes : nodes[n].len \in Nat
    BY ONLY <1>0, NodeTypes
  <2>2. written \in Nat
    BY ONLY <1>0 DEF TypeOK
  <2>3. \A n \in Nodes : (nodes[n].has_writer /\ nodes[n].sync) \/ nodes'[n].len = nodes[n].len
    BY ONLY <1>2
  <2>4. \A n \in Nodes : nodes[n].has_writer \/ ~nodes'[n].has_writer
    BY ONLY <1>2
  <2> QED
    BY ONLY <1>1, <1>2, <1>3, <1>4, <2>1, <2>2, <2>3, <2>4 DEF Grow
<1>11. RefInv'
  <2>1. /\ Owed("writer", 1) = Null /\ Owed("writer", 2) = Null
        /\ Owed("writer", 1)' = tail_ /\ Owed("writer", 2)' = head_
        /\ \A i : Owed("reader", i)' = Owed("reader", i)
    <3>1. CASE head_ = Null
      BY ONLY <1>1, <1>6, <3>1, OwesNothing, OwedNow DEF Owed
    <3>2. CASE head_ # Null
      BY ONLY <1>1, <1>6, <3>2, OwesNothing, OwedNow DEF Owed
    <3> QED
      BY <3>1, <3>2
  <2>2. \A n \in Nodes : WriterRefs(n)' + ReaderRefs(n)' = WriterRefs(n) + ReaderRefs(n)
    <3> TAKE n \in Nodes
    <3>1. One(Null, n) = 0 /\ \A a, b : One(a, b) \in {0, 1}
      BY ONLY n \in Nodes, <1>1 DEF One, Nodes, Null
    <3>2. WriterRefs(n)' = WriterRefs(n)
      <4>1. One(fresh, n)' = 0 /\ One(fresh, n) = 0 /\ One(tail_, n)' = 0 /\ One(head_, n)' = 0
        BY ONLY <1>1, <1>3, <3>1 DEF One
      <4>2. /\ One(Owed("writer", 1), n) = 0 /\ One(Owed("writer", 2), n) = 0
            /\ One(Owed("writer", 1), n)' = One(tail_, n)
            /\ One(Owed("writer", 2), n)' = One(head_, n)
        BY ONLY <2>1, <3>1 DEF One
      <4> QED
        BY ONLY <3>1, <4>1, <4>2 DEF WriterRefs
    <3>3. ReaderRefs(n)' = ReaderRefs(n)
      BY ONLY <1>3, <2>1 DEF ReaderRefs, IterRefs, One, reader
    <3> QED
      BY <3>2, <3>3
  <2>3. \A t \in Threads : Len(drop'[t]) <= 2
    <3>1. Len(drop'["writer"]) <= 2
      <4>1. CASE head_ = Null
        BY ONLY <1>6, <4>1
      <4>2. CASE head_ # Null
        BY ONLY <1>6, <4>2
      <4> QED
        BY <4>1, <4>2
    <3>2. Len(drop'["reader"]) <= 2
      BY ONLY <1>0, <1>6 DEF RefInv, Threads
    <3> QED
      BY ONLY <3>1, <3>2 DEF Threads
  <2> QED
    BY ONLY <1>0, <1>1, <1>2, <1>3, <2>2, <2>3, RefsMoved
<1> QED
  BY <1>3, <1>7, <1>8, <1>9, <1>10, <1>11, ReaderStable DEF IInv

-----------------------------------------------------------------------------
(* References that are given up.                                           *)

\* A reference less: the node that it was to goes when it was the last one, and
\* the one to the next node is given up in its place.
LEMMA DropDebt ==
  ASSUME TypeOK, RefInv, NEW t \in Threads, Drop(t)
  PROVE  /\ Owed(t, 1) \in Nodes /\ Owed(t, 1) = Head(drop[t])
         /\ drop' \in [Threads -> Seq(Nodes)] /\ \A u \in Threads : Len(drop'[u]) <= 2
         /\ \A u \in Threads \ {t}, i \in {1, 2} : Owed(u, i)' = Owed(u, i)
         /\ LET n == Owed(t, 1)
            IN  IF nodes[n].ref_cnt = 1 /\ nodes[n].next # Null
                THEN Owed(t, 1)' = nodes[n].next /\ Owed(t, 2)' = Owed(t, 2)
                ELSE Owed(t, 1)' = Owed(t, 2) /\ Owed(t, 2)' = Null
<1> DEFINE n == Head(drop[t])
           nx == nodes[n].next
<1>1. /\ drop \in [Threads -> Seq(Nodes)] /\ drop[t] \in Seq(Nodes) /\ drop[t] # <<>>
      /\ Len(drop[t]) <= 2
  BY DEF TypeOK, RefInv, Drop, Nodes
<1>2. /\ Len(drop[t]) \in Nat /\ Len(drop[t]) >= 1 /\ n = drop[t][1] /\ n \in Nodes
      /\ Tail(drop[t]) \in Seq(Nodes) /\ Len(Tail(drop[t])) = Len(drop[t]) - 1
      /\ Len(drop[t]) = 2 => Tail(drop[t])[1] = drop[t][2]
  <2>1. /\ Len(drop[t]) \in Nat /\ Len(drop[t]) # 0
        /\ n \in Nodes /\ Tail(drop[t]) \in Seq(Nodes)
        /\ Len(Tail(drop[t])) = Len(drop[t]) - 1
        /\ \A i \in 1 .. Len(Tail(drop[t])) : Tail(drop[t])[i] = drop[t][i + 1]
    BY ONLY <1>1, HeadTailProperties, LenProperties, EmptySeq
  <2>2. n = drop[t][1]
    BY <1>1
  <2>3. ASSUME Len(drop[t]) = 2 PROVE Tail(drop[t])[1] = drop[t][2]
    <3>1. Len(Tail(drop[t])) = 1
      BY ONLY <2>1, <2>3
    <3>2. 1 \in 1 .. Len(Tail(drop[t])) /\ 1 + 1 = 2
      BY ONLY <3>1
    <3> QED
      BY ONLY <2>1, <3>2
  <2> QED
    BY ONLY <2>1, <2>2, <2>3
<1>3. Owed(t, 1) = n /\ Owed(t, 2) = IF Len(drop[t]) = 2 THEN drop[t][2] ELSE Null
  BY ONLY <1>1, <1>2 DEF Owed
<1> DEFINE chained == nodes[n].ref_cnt = 1 /\ nx # Null
           left == IF chained THEN <<nx>> \o Tail(drop[t]) ELSE Tail(drop[t])
<1>4. drop' = [drop EXCEPT ![t] = left]
  <2>1. nodes[n].ref_cnt \in Nat
    BY ONLY TypeOK, <1>2, NodeTypes
  <2> QED
    BY <2>1 DEF Drop
<1> HIDE DEF n
<1>5. ASSUME chained
      PROVE  /\ left \in Seq(Nodes) /\ Len(left) = Len(drop[t]) /\ left[1] = nx
             /\ Len(drop[t]) = 2 => left[2] = drop[t][2]
  <2>1. nx \in Nodes
    BY ONLY TypeOK, <1>2, <1>5, NodeTypes DEF Refs, Nodes, Null
  <2>2. left = <<nx>> \o Tail(drop[t])
    BY <1>5
  <2> HIDE DEF nx, left, chained
  <2>3. <<nx>> \in Seq(Nodes) /\ Len(<<nx>>) = 1 /\ <<nx>>[1] = nx
    BY ONLY <2>1
  <2>4. /\ left \in Seq(Nodes) /\ Len(left) = 1 + Len(Tail(drop[t]))
        /\ \A i \in 1 .. 1 + Len(Tail(drop[t])) :
             left[i] = IF i <= 1 THEN <<nx>>[i] ELSE Tail(drop[t])[i - 1]
    BY ONLY <1>2, <2>2, <2>3, ConcatProperties
  <2>5. Len(left) = Len(drop[t]) /\ left[1] = nx
    BY ONLY <1>2, <2>3, <2>4
  <2>6. Len(drop[t]) = 2 => left[2] = drop[t][2]
    <3>1. 2 - 1 = 1 /\ ~(2 <= 1)
      OBVIOUS
    <3>2. Len(drop[t]) = 2 => 2 \in 1 .. 1 + Len(Tail(drop[t]))
      BY ONLY <1>2
    <3> QED
      BY ONLY <1>2, <2>4, <3>1, <3>2
  <2> QED
    BY ONLY <2>4, <2>5, <2>6
<1>6. ASSUME ~chained PROVE left = Tail(drop[t])
  BY <1>6
<1> HIDE DEF left, chained
<1>7. left \in Seq(Nodes) /\ Len(left) <= 2
  BY ONLY <1>1, <1>2, <1>5, <1>6
<1>8. /\ drop' \in [Threads -> Seq(Nodes)] /\ drop'[t] = left
      /\ \A u \in Threads \ {t} : drop'[u] = drop[u]
  BY ONLY t \in Threads, <1>1, <1>4, <1>7
<1>9. \A u \in Threads : Len(drop'[u]) <= 2
  BY ONLY RefInv, <1>7, <1>8 DEF RefInv
<1>10. \A u \in Threads \ {t}, i \in {1, 2} : Owed(u, i)' = Owed(u, i)
  BY ONLY <1>8 DEF Owed
<1>11. ASSUME chained PROVE Owed(t, 1)' = nx /\ Owed(t, 2)' = Owed(t, 2)
  BY ONLY <1>1, <1>2, <1>5, <1>8, <1>11 DEF Owed
<1>12. ASSUME ~chained PROVE Owed(t, 1)' = Owed(t, 2) /\ Owed(t, 2)' = Null
  <2>1. drop'[t] = Tail(drop[t])
    BY ONLY <1>6, <1>8, <1>12
  <2>2. CASE Len(drop[t]) = 2
    <3>1. Len(drop'[t]) = 1 /\ drop'[t][1] = drop[t][2]
      BY ONLY <1>2, <2>1, <2>2
    <3> QED
      BY ONLY <2>2, <3>1 DEF Owed
  <2>3. CASE Len(drop[t]) = 1
    <3>1. Len(drop'[t]) = 0
      BY ONLY <1>2, <2>1, <2>3
    <3> QED
      BY ONLY <2>3, <3>1 DEF Owed
  <2> QED
    BY ONLY <1>1, <1>2, <2>2, <2>3
<1> QED
  BY <1>2, <1>3, <1>8, <1>9, <1>10, <1>11, <1>12 DEF n, chained

\* Those of the other threads and pointers, without t's own debt.
Others(t, m) ==
  IF t = "writer"
  THEN One(head_, m) + One(tail_, m) + One(fresh, m) + ReaderRefs(m)
  ELSE WriterRefs(m) + IterRefs(m)

RefsSplit ==
  \A t \in Threads : \A m :
    /\ Others(t, m) \in Nat /\ One(fresh, m) <= Others(t, m)
    /\ WriterRefs(m) + ReaderRefs(m)
         = Others(t, m) + One(Owed(t, 1), m) + One(Owed(t, 2), m)

LEMMA SplitRefs == RefsSplit
<1> SUFFICES ASSUME NEW t \in Threads, NEW m
             PROVE  /\ Others(t, m) \in Nat /\ One(fresh, m) <= Others(t, m)
                    /\ WriterRefs(m) + ReaderRefs(m)
                         = Others(t, m) + One(Owed(t, 1), m) + One(Owed(t, 2), m)
  BY DEF RefsSplit
<1>1. \A a, b : One(a, b) \in {0, 1}
  BY DEF One
<1>2. IterRefs(m) \in Nat /\ ReaderRefs(m) \in Nat /\ WriterRefs(m) \in Nat
  BY RefNats
<1>3. CASE t = "writer"
  BY ONLY <1>1, <1>2, <1>3 DEF Others, WriterRefs
<1>4. CASE t = "reader"
  <2>1. Others(t, m) = WriterRefs(m) + IterRefs(m)
    BY <1>4 DEF Others
  <2>2. One(fresh, m) <= WriterRefs(m)
    BY ONLY <1>1 DEF WriterRefs
  <2> QED
    BY ONLY <1>1, <1>2, <1>4, <2>1, <2>2 DEF ReaderRefs
<1> QED
  BY <1>3, <1>4 DEF Threads

LEMMA DropStep ==
  ASSUME IInv, NEW t \in Threads, Drop(t)
  PROVE  IInv'
<1>0. TypeOK /\ WriterInv /\ ChainInv /\ RefInv
  BY DEF IInv
<1> DEFINE n == Owed(t, 1)
           nx == nodes[n].next
           left == nodes[n].ref_cnt - 1
           r == [nodes[n] EXCEPT !.ref_cnt = left]
<1>1. /\ n \in Nodes /\ n = Head(drop[t])
      /\ drop' \in [Threads -> Seq(Nodes)] /\ \A u \in Threads : Len(drop'[u]) <= 2
      /\ \A u \in Threads \ {t}, i \in {1, 2} : Owed(u, i)' = Owed(u, i)
      /\ IF nodes[n].ref_cnt = 1 /\ nx # Null
         THEN Owed(t, 1)' = nx /\ Owed(t, 2)' = Owed(t, 2)
         ELSE Owed(t, 1)' = Owed(t, 2) /\ Owed(t, 2)' = Null
  BY <1>0, DropDebt
<1>2. /\ nodes' = [nodes EXCEPT ![n].ref_cnt = left]
      /\ freed' = IF left = 0 THEN freed \cup {n} ELSE freed
      /\ UNCHANGED <<writer, reader>>
  BY <1>1 DEF Drop
<1>3. n \notin freed /\ left \in Nat /\ n \in Nat /\ n >= 1 /\ Len(nodes) \in Nat /\ n <= Len(nodes)
  <2>1. n \notin freed /\ nodes[n].ref_cnt >= 1
    BY <1>0, <1>1, Referenced
  <2>2. nodes[n].ref_cnt \in Nat /\ Len(nodes) \in Nat
    BY <1>0, <1>1, NodeTypes
  <2>3. n \in 1 .. Len(nodes)
    BY ONLY <1>1 DEF Nodes
  <2> HIDE DEF n
  <2> QED
    BY ONLY <2>1, <2>2, <2>3
<1>4. /\ r \in NodeType /\ r.ref_cnt = left /\ r.first = nodes[n].first
      /\ r.len = nodes[n].len /\ r.cap = nodes[n].cap /\ r.sync = nodes[n].sync
      /\ r.next = nodes[n].next /\ r.has_writer = nodes[n].has_writer
  <2>1. nodes[n] \in NodeType
    BY ONLY <1>0, <1>1, NodeTypes
  <2> HIDE DEF n, left
  <2> QED
    BY ONLY <1>3, <2>1, SetRefCnt
<1>5. nodes' = [nodes EXCEPT ![n] = r]
  BY <1>2
<1> HIDE DEF n, r, left
<1>6. /\ nodes' \in Seq(NodeType) /\ Len(nodes') = Len(nodes)
      /\ nodes'[n] = r /\ \A m \in Nodes : m # n => nodes'[m] = nodes[m]
  BY ONLY <1>0, <1>1, <1>4, <1>5, StoreNode
<1>7. SameChain
  BY ONLY <1>4, <1>6 DEF SameChain
<1>8. WriterInv' /\ ChainInv' /\ Grow
  BY <1>0, <1>2, <1>7, ChainStable DEF writer
<1>9. Nodes' = Nodes /\ Refs' = Refs
  BY ONLY <1>6 DEF Nodes, Refs
<1>10. TypeOK'
  <2>1. freed' \subseteq Nodes
    BY ONLY <1>0, <1>1, <1>2 DEF TypeOK, Nodes
  <2>2. \A m \in Nodes : nodes'[m].next \in Refs
    BY ONLY <1>0, <1>7, NodeTypes DEF SameChain
  <2> QED
    BY ONLY <1>0, <1>1, <1>2, <1>6, <1>9, <2>1, <2>2 DEF TypeOK, Nodes, writer, reader
<1>11. RefInv'
  <2>1. \A m \in Nodes : Others(t, m)' = Others(t, m)
    BY ONLY t \in Threads, <1>1, <1>2
    DEF Others, WriterRefs, ReaderRefs, IterRefs, One, writer, reader, Threads
  <2>2. PICK k \in 0 .. Len(nodes) : freed = 1 .. k
    BY <1>0 DEF RefInv
  <2>3. \A m \in Nodes : nodes[m].next = IF m < Last THEN m + 1 ELSE Null
    BY <1>0 DEF ChainInv
  <2>4. \A m \in Nodes :
          /\ nodes[m].ref_cnt = WriterRefs(m) + ReaderRefs(m) + NextRefs(m)
          /\ m \in freed <=> nodes[m].ref_cnt = 0
    BY <1>0 DEF RefInv
  <2>5. \A m \in Nodes : nodes[m].ref_cnt \in Nat
    BY <1>0, NodeTypes
  <2>6. nx # Null => nx = n + 1 /\ nx \in Nodes
    <3>1. nx \in Refs
      BY ONLY <1>0, <1>1, NodeTypes
    <3> QED
      BY ONLY <1>1, <1>3, <2>3, <3>1 DEF Nodes, Refs, Null
  \* The node that goes is the first one that is left.
  <2>7. left = 0 => n = k + 1
    <3> SUFFICES ASSUME left = 0, n # k + 1 PROVE FALSE
      OBVIOUS
    <3>1. n > k + 1
      BY ONLY <1>3, <2>2, n # k + 1
    <3>2. n - 1 \in Nodes /\ n - 1 \notin freed /\ n > 1 /\ (n - 1) + 1 = n
      BY ONLY <1>3, <2>2, <3>1 DEF Nodes
    <3>3. nodes[n].ref_cnt = 1
      BY ONLY <1>1, <1>3, <2>5, left = 0 DEF left
    <3>4. /\ Others(t, n) \in Nat /\ One(fresh, n) <= Others(t, n)
          /\ WriterRefs(n) + ReaderRefs(n)
               = Others(t, n) + One(n, n) + One(Owed(t, 2), n)
      BY SplitRefs DEF n, RefsSplit
    <3>5. One(n, n) = 1 /\ One(Owed(t, 2), n) \in {0, 1} /\ One(fresh, n) \in {0, 1}
      BY DEF One
    <3>6. NextRefs(n) \in {0, 1}
      BY RefNats
    <3>7. Others(t, n) = 0 /\ NextRefs(n) = 0 /\ One(fresh, n) = 0
      <4>1. nodes[n].ref_cnt = WriterRefs(n) + ReaderRefs(n) + NextRefs(n)
        BY <1>1, <2>4
      <4> QED
        BY ONLY <3>3, <3>4, <3>5, <3>6, <4>1
    <3>8. nodes[n - 1].next # n
      BY ONLY <3>2, <3>7 DEF NextRefs
    <3>9. ~(n - 1 < Last)
      BY ONLY <2>3, <3>2, <3>8
    <3>10. wpc = "link" /\ n = Len(nodes)
      BY ONLY <1>3, <3>9 DEF Last
    <3>11. fresh = n
      BY ONLY <1>0, <3>10 DEF WriterInv
    <3> QED
      BY ONLY <3>7, <3>11 DEF One
  <2>8. \E l \in 0 .. Len(nodes') : freed' = 1 .. l
    <3>1. CASE left = 0
      <4>1. freed' = 1 .. (k + 1) /\ k + 1 \in 0 .. Len(nodes)
        BY ONLY <1>2, <1>3, <2>2, <2>7, <3>1
      <4> QED
        BY ONLY <1>6, <4>1
    <3>2. CASE left # 0
      BY ONLY <1>2, <1>6, <2>2, <3>2
    <3> QED
      BY <3>1, <3>2
  <2>9. ASSUME NEW m \in Nodes
        PROVE  /\ nodes'[m].ref_cnt = WriterRefs(m)' + ReaderRefs(m)' + NextRefs(m)'
               /\ m \in freed' <=> nodes'[m].ref_cnt = 0
    <3>1. nodes'[m].ref_cnt = IF m = n THEN nodes[m].ref_cnt - 1 ELSE nodes[m].ref_cnt
      BY ONLY m \in Nodes, <1>4, <1>6 DEF left
    <3>2. m \in freed' <=> nodes'[m].ref_cnt = 0
      BY ONLY m \in Nodes, <1>2, <1>3, <2>4, <3>1 DEF left
    <3>3. /\ Others(t, m) \in Nat
          /\ WriterRefs(m) + ReaderRefs(m) = Others(t, m) + One(n, m) + One(Owed(t, 2), m)
      BY SplitRefs DEF n, RefsSplit
    <3>4. WriterRefs(m)' + ReaderRefs(m)'
            = Others(t, m) + One(Owed(t, 1)', m) + One(Owed(t, 2)', m)
      <4>1. RefsSplit'
        BY SplitRefs, PTL
      <4>2. One(Owed(t, 1), m)' = One(Owed(t, 1)', m) /\ One(Owed(t, 2), m)' = One(Owed(t, 2)', m)
        BY DEF One
      <4> QED
        BY <2>1, <4>1, <4>2 DEF RefsSplit
    <3>9. WriterRefs(m) \in Nat /\ ReaderRefs(m) \in Nat /\ NextRefs(m) \in Nat
      BY RefNats
    <3> DEFINE chained == nodes[n].ref_cnt = 1 /\ nx # Null
    <3>5. One(n, m) = (IF m = n THEN 1 ELSE 0) /\ One(Null, m) = 0
      BY ONLY m \in Nodes, <1>3 DEF One, Nodes, Null
    <3>6. NextRefs(m)' = NextRefs(m) - (IF chained /\ m = nx THEN 1 ELSE 0)
      <4>1. m > 1 => m - 1 \in Nodes /\ (m - 1 = n <=> m = n + 1) /\ (m - 1) + 1 = m
        BY ONLY m \in Nodes, <1>3 DEF Nodes
      <4>2. m > 1 => nodes'[m - 1].next = nodes[m - 1].next
        BY ONLY <1>7, <4>1 DEF SameChain
      <4>3. CASE m = n + 1
        <5>1. m > 1 /\ m - 1 = n
          BY ONLY <1>3, <4>3
        <5>2. nx = m \/ nx = Null
          BY ONLY <2>6, <4>3
        <5>3. n \in freed' <=> nodes[n].ref_cnt = 1
          BY ONLY <1>1, <1>2, <1>3, <2>5 DEF left
        <5>4. m # Null
          BY ONLY <5>1 DEF Null
        <5> QED
          BY ONLY <1>3, <4>2, <5>1, <5>2, <5>3, <5>4 DEF NextRefs
      <4>4. CASE m # n + 1
        <5>1. ~(chained /\ m = nx)
          BY ONLY <2>6, <4>4
        <5>2. m > 1 => (m - 1 \in freed' <=> m - 1 \in freed)
          BY ONLY <1>2, <4>1, <4>4
        <5>3. NextRefs(m)' = NextRefs(m)
          BY ONLY <4>2, <5>2 DEF NextRefs
        <5>4. NextRefs(m) \in {0, 1}
          BY RefNats
        <5> QED
          BY ONLY <5>1, <5>3, <5>4
      <4> QED
        BY <4>3, <4>4
    <3>7. WriterRefs(m)' + ReaderRefs(m)'
            = WriterRefs(m) + ReaderRefs(m) - One(n, m) + (IF chained /\ m = nx THEN 1 ELSE 0)
      <4>1. One(Owed(t, 2), m) \in {0, 1}
        BY DEF One
      <4>2. CASE chained
        <5>1. Owed(t, 1)' = nx /\ Owed(t, 2)' = Owed(t, 2)
          BY ONLY <1>1, <4>2
        <5>2. One(nx, m) = IF m = nx THEN 1 ELSE 0
          BY DEF One
        <5>3. WriterRefs(m)' + ReaderRefs(m)' = Others(t, m) + One(nx, m) + One(Owed(t, 2), m)
          BY ONLY <3>4, <5>1
        <5>4. (IF chained /\ m = nx THEN 1 ELSE 0) = One(nx, m) /\ One(nx, m) \in {0, 1}
          BY <4>2, <5>2
        <5> HIDE DEF chained, n, nx
        <5> QED
          BY ONLY <3>3, <3>5, <3>9, <4>1, <5>3, <5>4
      <4>3. CASE ~chained
        <5>1. Owed(t, 1)' = Owed(t, 2) /\ Owed(t, 2)' = Null
          BY ONLY <1>1, <4>3
        <5>2. WriterRefs(m)' + ReaderRefs(m)' = Others(t, m) + One(Owed(t, 2), m) + One(Null, m)
          BY ONLY <3>4, <5>1
        <5>3. (IF chained /\ m = nx THEN 1 ELSE 0) = 0
          BY <4>3
        <5> HIDE DEF chained, n, nx
        <5> QED
          BY ONLY <3>3, <3>5, <3>9, <4>1, <5>2, <5>3
      <4> QED
        BY <4>2, <4>3
    <3>8. nodes[m].ref_cnt = WriterRefs(m) + ReaderRefs(m) + NextRefs(m)
      BY <2>4
    <3> HIDE DEF chained
    <3>10. nodes'[m].ref_cnt = WriterRefs(m)' + ReaderRefs(m)' + NextRefs(m)'
      BY ONLY <3>1, <3>5, <3>6, <3>7, <3>8, <3>9
    <3> QED
      BY <3>2, <3>10
  <2> QED
    BY ONLY <1>1, <1>6, <1>9, <2>8, <2>9 DEF RefInv
<1> QED
  BY <1>2, <1>8, <1>10, <1>11, ReaderStable DEF IInv

-----------------------------------------------------------------------------
(* The steps of the reader.                                                *)

\* No iterator is past what is written.
LEMMA OffsetWritten ==
  ASSUME IInv, NEW x \in Ends, Present(x)
  PROVE  /\ it[x].from \in Nodes /\ it[x].offset <= End(it[x].from)
         /\ End(it[x].from) <= written
         /\ it[x].offset <= written
<1>0. TypeOK /\ WriterInv /\ ChainInv /\ OnChain(it[x])
  BY DEF IInv, IterInv
<1> DEFINE n == it[x].from
<1>1. /\ n \in Nodes /\ n <= W /\ it[x].offset = nodes[n].first + it[x].pos
      /\ it[x].pos <= it[x].lim /\ it[x].lim <= nodes[n].len
  BY <1>0 DEF Present, OnChain
<1>2. it[x].pos \in Nat /\ it[x].lim \in Nat /\ n \in Nat
  BY <1>0, <1>1, IterTypes DEF Nodes
<1>3. W \in Nodes /\ written = End(W)
  BY <1>0, NodeTypes DEF TypeOK, WriterInv, W, Nodes
<1>4. /\ nodes[n].first \in Nat /\ nodes[n].len \in Nat /\ End(n) \in Nat
      /\ nodes[W].first \in Nat /\ nodes[W].len \in Nat /\ End(W) \in Nat
  BY <1>0, <1>1, <1>3, NodeTypes
<1>5. End(n) <= End(W)
  <2>1. CASE n = W
    BY <1>4, <2>1
  <2>2. CASE n < W
    <3>1. End(n) <= nodes[W].first
      BY <1>0, <1>1, <1>3, <2>2 DEF ChainInv
    <3> QED
      BY ONLY <1>4, <3>1 DEF End
  <2> QED
    BY ONLY <1>1, <1>2, <1>3, <2>1, <2>2 DEF Nodes
<1>6. it[x].offset <= End(n)
  BY ONLY <1>1, <1>2, <1>4 DEF End
<1> HIDE DEF n
<1>7. it[x].offset \in Nat
  BY <1>0, IterTypes
<1> QED
  BY ONLY <1>1, <1>3, <1>4, <1>5, <1>6, <1>7 DEF n

\* A step of the reader that takes and gives up no reference.
LEMMA ReaderOnly ==
  ASSUME IInv, UNCHANGED <<nodes, freed, drop, writer>>,
         \A x \in Ends : it'[x].head = it[x].head
  PROVE  WriterInv' /\ ChainInv' /\ RefInv'
<1>1. WriterInv'
  BY DEF IInv, WriterInv, W, End, writer
<1>2. ChainInv'
  BY DEF IInv, ChainInv, Nodes, Last, End, writer
<1>3. RefInv'
  BY SameRefs, NodeTypes DEF IInv, writer
<1> QED
  BY <1>1, <1>2, <1>3

\* A call starts: the iterators stay as they are.
LEMMA StartStep ==
  ASSUME IInv, NEW f, NEW x, NEW n \in Nat, Start(f, x, n),
         \/ f = "sync" /\ x = "end" /\ n = 0
         \/ f = "read" /\ x \in Begins /\ n = 0
         \/ f \in {"advance", "move"} /\ x \in Begins /\ n <= Size(x)
  PROVE  IInv'
<1>0. TypeOK /\ IterInv /\ PresInv /\ SizeInv
  BY DEF IInv
<1>1. /\ rpc = "idle" /\ rpc' = "look" /\ Present(x)
      /\ call' = [f |-> f, x |-> x, n |-> n, has_writer |-> FALSE]
      /\ promised' = (IF f = "sync" /\ x = "end" THEN written ELSE promised)
      /\ UNCHANGED <<nodes, freed, drop, writer, it, ready>>
  BY DEF Start, ReaderAt, Call
<1>2. x \in Ends /\ call'.f = f /\ call'.x = x /\ call'.n = n /\ call'.has_writer = FALSE
  BY <1>1 DEF Ends, Begins
<1>3. WriterInv' /\ ChainInv' /\ RefInv'
  BY <1>1, ReaderOnly
<1>4. TypeOK'
  <2>1. promised' \in Nat
    BY <1>0, <1>1 DEF TypeOK
  <2>2. call' \in [f : DOMAIN After \cup {"none", "read"}, x : Ends, n : Nat, has_writer : BOOLEAN]
    BY <1>1, <1>2 DEF After
  <2> QED
    BY ONLY <1>0, <1>1, <2>1, <2>2 DEF TypeOK, Refs, writer
<1>5. IterInv'
  BY ONLY <1>0, <1>1 DEF IterInv, OnChain, W, Nodes, writer
<1>6. PresInv'
  BY <1>0, <1>1, <1>2 DEF PresInv, Present, writer
<1>7. LocalInv'
  BY <1>1 DEF LocalInv
<1>8. SizeInv'
  <2>1. call.f = "none"
    BY <1>0, <1>1 DEF PresInv
  <2>2. ready = 0 /\ it[x].pos \in Nat /\ it[x].lim \in Nat /\ it[x].pos <= it[x].lim
    BY <1>0, <1>1, <1>2, IterTypes DEF SizeInv, IterInv, OnChain, Present
  <2>3. x \in Begins => it[x].offset <= it[EndOf(x)].offset
    BY <1>0, <1>1 DEF SizeInv
  <2>4. \A y \in Ends : it[y].offset \in Nat
    BY <1>0, IterTypes
  <2>5. x \in Begins => 0 <= Size(x)
    <3>1. x \in Begins => EndOf(x) \in Ends
      BY DEF Begins, Ends, EndOf
    <3> QED
      BY ONLY <1>2, <2>3, <2>4, <3>1 DEF Size
  <2>6. promised \in Nat /\ written \in Nat
    BY <1>0 DEF TypeOK
  <2>7. promised' <= written' /\ (f # "sync" => promised' <= it'["end"].offset)
    BY <1>0, <1>1, <2>1, <2>6 DEF SizeInv, writer
  <2> QED
    BY <1>0, <1>1, <1>2, <2>1, <2>2, <2>5, <2>7 DEF SizeInv, Present, Size
<1>9. AdvanceComplete'
  BY <1>1 DEF AdvanceComplete
<1> QED
  BY <1>3, <1>4, <1>5, <1>6, <1>7, <1>8, <1>9 DEF IInv

\* An iterator that has moved on by n bytes.
LEMMA MovedOn ==
  ASSUME NEW r \in IteratorType, NEW n \in Nat
  PROVE  LET s == [r EXCEPT !.pos = r.pos + n, !.offset = r.offset + n]
         IN  /\ s \in IteratorType /\ s.head = r.head /\ s.from = r.from
             /\ s.pos = r.pos + n /\ s.lim = r.lim /\ s.need_sync = r.need_sync
             /\ s.offset = r.offset + n
<1>1. ASSUME NEW i \in Nat, NEW o \in Nat
      PROVE  LET s == [r EXCEPT !.pos = i, !.offset = o]
             IN  /\ s \in IteratorType /\ s.head = r.head /\ s.from = r.from
                 /\ s.pos = i /\ s.lim = r.lim /\ s.need_sync = r.need_sync /\ s.offset = o
  BY DEF IteratorType
<1>2. r.pos + n \in Nat /\ r.offset + n \in Nat
  BY DEF IteratorType
<1> QED
  BY ONLY <1>1, <1>2

\* An iterator on the chain that has moved on within what it has loaded.
LEMMA MovedOnChain ==
  ASSUME TypeOK, NEW r \in IteratorType, NEW n \in Nat, OnChain(r), r.from # Null,
         n <= r.lim - r.pos
  PROVE  OnChain([r EXCEPT !.pos = r.pos + n, !.offset = r.offset + n])
<1> DEFINE s == [r EXCEPT !.pos = r.pos + n, !.offset = r.offset + n]
<1>1. /\ s \in IteratorType /\ s.head = r.head /\ s.from = r.from
      /\ s.pos = r.pos + n /\ s.lim = r.lim /\ s.need_sync = r.need_sync
      /\ s.offset = r.offset + n
  BY MovedOn
<1>2. r.pos \in Nat /\ r.lim \in Nat /\ r.offset \in Nat /\ r.from \in Nat
  BY DEF IteratorType
<1>3. /\ r.from \in Nodes /\ nodes[r.from].first \in Nat /\ nodes[r.from].len \in Nat
      /\ r.lim <= nodes[r.from].len /\ r.offset = nodes[r.from].first + r.pos
  BY NodeTypes DEF OnChain
<1>4. s.pos <= s.lim
  BY ONLY <1>1, <1>2, n \in Nat, n <= r.lim - r.pos
<1>5. r.head = Null => r.pos = nodes[r.from].len
  BY DEF OnChain
<1>6. r.head = Null => s.pos = r.pos
  BY ONLY <1>1, <1>2, <1>3, <1>5, n \in Nat, n <= r.lim - r.pos
<1>7. s.offset = nodes[s.from].first + s.pos
  BY ONLY <1>1, <1>2, <1>3, n \in Nat
<1> HIDE DEF s
<1>8. OnChain(s)
  BY <1>1, <1>4, <1>6, <1>7 DEF OnChain
<1> QED
  BY <1>8 DEF s

\* prepare_read returns size of the bytes that r has loaded; nothing is asked of it
\* any more if there are none.
LEMMA ReturnStep ==
  ASSUME IInv, rpc \in {"look", "sync"}, NEW r \in IteratorType, NEW size \in Nat,
         Return(r, size), UNCHANGED <<nodes, freed, drop, writer, promised>>,
         OnChain(r), r.from = it[call.x].from, r.head = it[call.x].head,
         r.offset = it[call.x].offset, size <= r.lim - r.pos,
         size = 0 =>
           /\ call.f = "sync" => promised <= r.offset
           /\ call.f \in {"advance", "cut", "move"} => call.n = 0
  PROVE  IInv'
<1>0. TypeOK /\ WriterInv /\ IterInv /\ PresInv /\ SizeInv
  BY DEF IInv
<1> DEFINE x == call.x
           n == IF call.f = "sync" \/ size < call.n THEN size ELSE call.n
           left == IF call.f = "sync" THEN 0 ELSE call.n - n
           more == size # 0 /\ (call.f = "sync" \/ left > 0)
           moved == [r EXCEPT !.pos = r.pos + n, !.offset = r.offset + n]
<1>1. /\ x \in Ends /\ call.n \in Nat /\ call.has_writer \in BOOLEAN
      /\ call.f \in {"sync", "advance", "cut", "move", "read"} /\ r.from # Null
      /\ Present(x) /\ it \in [Ends -> IteratorType] /\ {r.from, r.head} \subseteq Refs
  <2>1. call.f # "none" /\ Present(x)
    BY <1>0 DEF PresInv
  <2>2. it \in [Ends -> IteratorType]
    BY ONLY <1>0 DEF TypeOK
  <2> QED
    BY <1>0, <2>1, <2>2, CallTypes, IterTypes DEF Present
<1>2. r.pos \in Nat /\ r.lim \in Nat /\ r.offset \in Nat
  BY DEF IteratorType
<1>3. WriterInv' /\ ChainInv' /\ RefInv'
  <2>1. \A y \in Ends : it'[y].head = it[y].head
    <3>1. CASE call.f = "read"
      BY <1>1, <3>1 DEF Return
    <3>2. CASE call.f # "read"
      <4>1. it' = [it EXCEPT ![x] = moved]
        BY <3>2 DEF Return
      <4>2. moved.head = r.head
        BY DEF IteratorType
      <4> HIDE DEF moved
      <4> QED
        BY <1>1, <4>1, <4>2
    <3> QED
      BY <3>1, <3>2
  <2> QED
    BY <2>1, ReaderOnly
<1>4. ready = 0
  BY <1>0 DEF SizeInv
<1>5. CASE call.f = "read"
  <2>1. /\ it' = [it EXCEPT ![x] = r] /\ ready' = Cut(size) /\ rpc' = "confirm"
        /\ UNCHANGED call
    BY <1>5 DEF Return
  <2>2. /\ it' \in [Ends -> IteratorType] /\ it'[x] = r
        /\ \A y \in Ends : y # x => it'[y] = it[y]
    BY <1>1, <2>1
  <2>3. x \in Begins /\ EndOf(x) \in Ends /\ EndOf(x) # x /\ call.n = 0
    BY <1>0, <1>5 DEF PresInv, SizeInv, EndOf, Begins, Ends
  <2>4. Size(x) \in Nat /\ Size(x)' = Size(x)
    <3>1. it[x].offset <= it[EndOf(x)].offset
      BY <1>0, <1>1, <2>3 DEF SizeInv
    <3>2. it[x].offset \in Nat /\ it[EndOf(x)].offset \in Nat
      BY <1>0, <1>1, <2>3, IterTypes
    <3>3. EndOf(x)' = EndOf(x) /\ x' = x
      BY <2>1 DEF EndOf
    <3>4. it'[x].offset = it[x].offset /\ it'[EndOf(x)].offset = it[EndOf(x)].offset
      BY <2>2, <2>3
    <3> QED
      BY <3>1, <3>2, <3>3, <3>4 DEF Size
  <2>5. ready' \in Nat /\ ready' <= r.lim - r.pos /\ ready' <= Size(x)
    <3>1. ready' = IF size < Size(x) THEN size ELSE Size(x)
      BY <2>1 DEF Cut
    <3> QED
      BY ONLY <1>2, <2>4, <3>1, size \in Nat, size <= r.lim - r.pos
  <2>6. TypeOK'
    <3>1. \A y \in Ends : {it'[y].head, it'[y].from} \subseteq Refs
      BY <1>0, <1>1, <2>2, IterTypes
    <3> QED
      BY <1>0, <2>1, <2>2, <2>5, <3>1 DEF TypeOK, Refs, writer
  <2>7. IterInv'
    BY <1>0, <2>2 DEF IterInv, OnChain, W, Nodes, writer
  <2>8. PresInv'
    <3>1. \A y \in Ends : it'[y].from = it[y].from /\ it'[y].offset = it[y].offset
      BY <2>2
    <3> QED
      BY <1>0, <1>5, <2>1, <3>1 DEF PresInv, Present, writer, Ends, Begins
  <2>9. LocalInv'
    BY <2>1 DEF LocalInv
  <2>10. SizeInv'
    <3>1. \A y \in Ends : it'[y].from = it[y].from /\ it'[y].offset = it[y].offset
      BY <2>2
    <3>2. \A y \in Begins : Present(y)' => it'[y].offset <= it'[EndOf(y)].offset
      BY <1>0, <3>1 DEF SizeInv, Present, EndOf, Begins, Ends
    <3>3. promised' <= written' /\ promised' <= it'["end"].offset
      BY <1>0, <1>5, <3>1 DEF SizeInv, Ends, writer
    <3>4. x' = x
      BY <2>1
    <3> QED
      BY <1>5, <2>1, <2>2, <2>3, <2>4, <2>5, <3>2, <3>3, <3>4 DEF SizeInv
  <2>11. AdvanceComplete'
    BY <2>1 DEF AdvanceComplete
  <2> QED
    BY <1>3, <2>6, <2>7, <2>8, <2>9, <2>10, <2>11 DEF IInv
<1>6. CASE call.f # "read"
  <2>1. /\ it' = [it EXCEPT ![x] = moved] /\ ready' = ready
        /\ rpc' = (IF more THEN "look" ELSE After[call.f])
        /\ call' = IF (IF more THEN "look" ELSE After[call.f]) = "idle" THEN NoCall(left)
                   ELSE [call EXCEPT !.n = left]
    BY <1>6 DEF Return
  <2>2. /\ n \in Nat /\ left \in Nat /\ n <= size /\ (call.f # "sync" => n + left = call.n)
        /\ call.f = "sync" => left = 0
    BY <1>1
  <2>3. ~more => left = 0
    <3>1. size = 0 => left = 0
      BY ONLY <1>1, <1>6, <2>2, size \in Nat,
              size = 0 => /\ call.f = "sync" => promised <= r.offset
                          /\ call.f \in {"advance", "cut", "move"} => call.n = 0
    <3> QED
      BY <2>2, <3>1
  <2>4. /\ moved \in IteratorType /\ moved.head = r.head /\ moved.from = r.from
        /\ moved.pos = r.pos + n /\ moved.lim = r.lim /\ moved.offset = r.offset + n
    BY ONLY <2>2, r \in IteratorType, MovedOn
  <2>5. n <= r.lim - r.pos
    BY ONLY <1>2, <2>2, size \in Nat, size <= r.lim - r.pos
  <2>6. OnChain(moved)
    BY ONLY <1>0, <1>1, <2>2, <2>5, OnChain(r), r \in IteratorType, MovedOnChain
  <2>7. /\ rpc' \in {"look", "idle", "cut", "drop"}
        /\ rpc' = "look" => call' = [call EXCEPT !.n = left]
        /\ rpc' = "idle" => call' = NoCall(left) /\ call.f \in {"sync", "advance"}
        /\ rpc' = "cut" => call' = [call EXCEPT !.n = left] /\ call.f = "cut"
        /\ rpc' = "drop" => call' = [call EXCEPT !.n = left] /\ call.f = "move"
        /\ rpc' # "look" => left = 0 /\ ~more
    <3>1. CASE more
      BY ONLY <2>1, <3>1
    <3>2. CASE ~more
      BY ONLY <1>1, <1>6, <2>1, <2>3, <3>2 DEF After
    <3> QED
      BY <3>1, <3>2
  <2> HIDE DEF moved, n, left, more
  <2>8. /\ it' \in [Ends -> IteratorType] /\ it'[x] = moved
        /\ \A y \in Ends : y # x => it'[y] = it[y]
    BY ONLY <1>1, <2>1, <2>4
  <2>9. /\ call' \in [f : DOMAIN After \cup {"none", "read"}, x : Ends, n : Nat, has_writer : BOOLEAN]
        /\ call'.n = left
        /\ rpc' = "idle" => call'.f = "none" /\ call'.x = "end"
        /\ rpc' # "idle" => call'.f = call.f /\ call'.x = x
    <3>1. call \in [f : DOMAIN After \cup {"none", "read"}, x : Ends, n : Nat, has_writer : BOOLEAN]
      BY ONLY <1>0 DEF TypeOK
    <3>2. CASE rpc' = "idle"
      <4>1. call' = [f |-> "none", x |-> "end", n |-> left, has_writer |-> FALSE]
        BY ONLY <2>7, <3>2 DEF NoCall
      <4> QED
        BY ONLY <2>2, <3>2, <4>1 DEF Ends
    <3>3. CASE rpc' # "idle"
      <4>1. call' = [call EXCEPT !.n = left]
        BY ONLY <2>7, <3>3
      <4> QED
        BY ONLY <2>2, <3>1, <3>3, <4>1
    <3> QED
      BY <3>2, <3>3
  <2>10. TypeOK'
    <3>1. \A y \in Ends : {it'[y].head, it'[y].from} \subseteq Refs
      BY <1>0, <1>1, <2>4, <2>8, IterTypes
    <3>2. ready' \in Nat /\ promised' \in Nat
      BY <1>0, <1>4, <2>1 DEF TypeOK
    <3> QED
      BY ONLY <1>0, <2>7, <2>8, <2>9, <3>1, <3>2, UNCHANGED <<nodes, freed, drop, writer, promised>>
      DEF TypeOK, Refs, writer
  <2>11. IterInv'
    BY ONLY <1>0, <2>6, <2>8, UNCHANGED <<nodes, freed, drop, writer, promised>>
    DEF IterInv, OnChain, W, Nodes, writer
  <2>12. \A y \in Ends : it'[y].from = it[y].from
    BY ONLY <2>4, <2>8, r.from = it[call.x].from
  <2>13. PresInv'
    <3>1. head_' = head_
      BY DEF writer
    <3>2. rpc \notin {"none", "idle", "gone"} /\ rpc' \notin {"none", "gone", "confirm"}
      BY ONLY <2>7, rpc \in {"look", "sync"}
    <3> QED
      BY ONLY <1>0, <1>1, <1>6, <2>7, <2>9, <2>12, <3>1, <3>2 DEF PresInv, Present, Ends, Begins
  <2>14. LocalInv'
    BY ONLY <2>7 DEF LocalInv
  <2>15. it'[x].offset = it[x].offset + n /\ \A y \in Ends : y # x => it'[y].offset = it[y].offset
    BY ONLY <2>4, <2>8, r.offset = it[call.x].offset
  <2>16. \A y \in Ends : it[y].offset \in Nat
    BY <1>0, IterTypes
  <2>17. SizeInv'
    <3>1. ready' = 0 /\ promised' = promised /\ written' = written /\ promised <= written
      BY <1>0, <1>4, <2>1 DEF SizeInv, writer
    <3>2. /\ call'.x \in Ends /\ \A y \in Ends : it'[y].pos \in Nat /\ it'[y].lim \in Nat
          /\ \A y \in Ends : it'[y].pos <= it'[y].lim
      <4>1. \A y \in Ends : it'[y] \in IteratorType /\ OnChain(it[y])'
        BY ONLY <2>8, <2>11 DEF IterInv
      <4>2. \A y \in Ends : it'[y].pos \in Nat /\ it'[y].lim \in Nat
        BY ONLY <4>1 DEF IteratorType
      <4>3. \A y \in Ends : it'[y].pos <= it'[y].lim
        BY ONLY <4>1, <4>2 DEF OnChain
      <4> QED
        BY ONLY <2>9, <4>2, <4>3
    <3>3. ready' <= it'[call'.x].lim - it'[call'.x].pos
      BY ONLY <3>1, <3>2
    <3>4. ASSUME NEW y \in Begins, Present(y)'
          PROVE  it'[y].offset <= it'[EndOf(y)].offset
      <4>1. it[y].offset <= it[EndOf(y)].offset
        BY ONLY <1>0, <2>12, <3>4 DEF SizeInv, Present, Ends
      <4>2. EndOf(y) \in Ends /\ EndOf(y) \notin Begins /\ y \in Ends
        BY DEF EndOf, Begins, Ends
      <4>3. CASE y = x
        <5>1. call.f \in {"advance", "move"}
          BY ONLY <1>0, <1>1, <1>6, <4>2, <4>3, y \in Begins DEF PresInv, Begins
        <5>2. n <= it[EndOf(y)].offset - it[y].offset
          <6>1. call.n <= Size(x)
            BY ONLY <1>0, <5>1 DEF SizeInv
          <6> QED
            BY ONLY <1>1, <2>2, <2>16, <4>2, <4>3, <5>1, <6>1 DEF Size
        <5> QED
          BY ONLY <2>2, <2>15, <2>16, <4>2, <4>3, <5>2
      <4>4. CASE y # x
        BY ONLY <2>2, <2>15, <2>16, <4>1, <4>2, <4>4
      <4> QED
        BY <4>3, <4>4
    <3>5. call'.x \in Begins => ready' <= it'[EndOf(call'.x)].offset - it'[call'.x].offset
      <4> SUFFICES ASSUME call'.x \in Begins
                   PROVE  ready' <= it'[EndOf(call'.x)].offset - it'[call'.x].offset
        OBVIOUS
      <4>1. call'.x = x /\ Present(x)'
        BY ONLY <1>1, <2>9, <2>12, call'.x \in Begins DEF Present, Begins
      <4>2. it'[x].offset <= it'[EndOf(x)].offset
        BY ONLY <3>4, <4>1, call'.x \in Begins
      <4>3. it'[x].offset \in Nat /\ it'[EndOf(x)].offset \in Nat
        <5>1. EndOf(x) \in Ends
          BY DEF EndOf, Ends, Begins
        <5> QED
          BY ONLY <1>1, <2>8, <5>1 DEF IteratorType
      <4> QED
        BY ONLY <3>1, <4>1, <4>2, <4>3
    <3>6. call'.f # "sync" => promised <= it'["end"].offset
      <4>1. "end" \in Ends /\ promised \in Nat
        BY <1>0 DEF Ends, TypeOK
      <4>2. CASE call.f = "sync" /\ rpc' = "idle"
        <5>1. size = 0 /\ x = "end"
          BY ONLY <1>0, <2>7, <4>2, size \in Nat DEF PresInv, more
        <5>2. promised <= it[x].offset
          BY ONLY <4>2, <5>1, r.offset = it[call.x].offset,
                  size = 0 => /\ call.f = "sync" => promised <= r.offset
                              /\ call.f \in {"advance", "cut", "move"} => call.n = 0
        <5> QED
          BY ONLY <1>1, <2>2, <2>15, <2>16, <4>1, <5>1, <5>2
      <4>3. CASE call.f # "sync"
        <5>1. x # "end" /\ promised <= it["end"].offset
          BY ONLY <1>0, <1>1, <4>3, <1>6 DEF PresInv, SizeInv, Begins
        <5> QED
          BY ONLY <2>15, <4>1, <5>1
      <4> QED
        BY ONLY <2>9, <4>2, <4>3
    <3>7. call'.f \in {"advance", "move"} =>
            call'.n <= it'[EndOf(call'.x)].offset - it'[call'.x].offset
      <4> SUFFICES ASSUME call'.f \in {"advance", "move"}
                   PROVE  call'.n <= it'[EndOf(call'.x)].offset - it'[call'.x].offset
        OBVIOUS
      <4>1. call'.f = call.f /\ call'.x = x /\ call'.n = left /\ call.f \in {"advance", "move"}
        BY ONLY <2>9, call'.f \in {"advance", "move"}
      <4>2. x \in Begins /\ EndOf(x) \in Ends /\ EndOf(x) # x /\ call.n <= Size(x)
        BY ONLY <1>0, <4>1 DEF PresInv, SizeInv, EndOf, Begins, Ends
      <4> QED
        BY ONLY <1>1, <2>2, <2>15, <2>16, <4>1, <4>2 DEF Size
    <3>8. call'.f = "cut" =>
            /\ it'["end2"].offset + call'.n <= it'["end"].offset
            /\ it'["begin"].offset <= it'["end2"].offset
      <4> SUFFICES ASSUME call'.f = "cut"
                   PROVE  /\ it'["end2"].offset + call'.n <= it'["end"].offset
                          /\ it'["begin"].offset <= it'["end2"].offset
        OBVIOUS
      <4>1. call.f = "cut" /\ call'.n = left
        BY ONLY <2>9, call'.f = "cut"
      <4>2. /\ x = "end2" /\ it["end2"].offset + call.n <= it["end"].offset
            /\ it["begin"].offset <= it["end2"].offset
        BY ONLY <1>0, <4>1 DEF PresInv, SizeInv
      <4>3. {"begin", "end", "end2"} \subseteq Ends
        BY DEF Ends, Begins
      <4> QED
        BY ONLY <1>1, <2>2, <2>15, <2>16, <4>1, <4>2, <4>3
    <3>9. call'.f \in {"sync", "read"} => call'.n = 0
      BY ONLY <1>6, <2>2, <2>9
    <3> QED
      BY ONLY <2>7, <3>1, <3>3, <3>4, <3>5, <3>6, <3>7, <3>8, <3>9 DEF SizeInv, Size
  <2>18. AdvanceComplete'
    BY ONLY <2>7, <2>9 DEF AdvanceComplete
  <2> QED
    BY <1>3, <2>10, <2>11, <2>13, <2>14, <2>17, <2>18 DEF IInv
<1> QED
  BY <1>5, <1>6

\* Who has got further than the others has nothing left to advance by.
LEMMA NothingLeft ==
  ASSUME IInv, call.f \in {"advance", "cut", "move"},
         \A y \in Ends : Present(y) => it[y].offset <= it[call.x].offset
  PROVE  call.n = 0
<1>0. TypeOK /\ PresInv /\ SizeInv
  BY DEF IInv
<1>1. call.x \in Ends /\ call.n \in Nat /\ \A y \in Ends : it[y].offset \in Nat
  BY <1>0, CallTypes, IterTypes
<1>2. CASE call.f \in {"advance", "move"}
  <2>1. /\ call.x \in Begins /\ Present(EndOf(call.x)) /\ EndOf(call.x) \in Ends
        /\ call.n <= it[EndOf(call.x)].offset - it[call.x].offset
    BY <1>0, <1>2 DEF PresInv, SizeInv, Size, EndOf, Begins, Ends
  <2>2. it[EndOf(call.x)].offset <= it[call.x].offset
    BY <2>1
  <2> QED
    BY ONLY <1>1, <2>1, <2>2
<1>3. CASE call.f = "cut"
  <2>1. /\ call.x = "end2" /\ Present("end") /\ {"end", "end2"} \subseteq Ends
        /\ it["end2"].offset + call.n <= it["end"].offset
    BY <1>0, <1>3 DEF PresInv, SizeInv, Begins, Ends
  <2>2. it["end"].offset <= it["end2"].offset
    BY <2>1
  <2> QED
    BY ONLY <1>1, <2>1, <2>2
<1> QED
  BY <1>2, <1>3

LEMMA LookStep == ASSUME IInv, Look PROVE IInv'
<1>0. TypeOK /\ WriterInv /\ ChainInv /\ IterInv /\ PresInv /\ LocalInv /\ SizeInv
  BY DEF IInv
<1> DEFINE x == call.x
           r == it[x]
<1>1. /\ x \in Ends /\ Present(x) /\ r \in IteratorType /\ OnChain(r)
      /\ r.pos \in Nat /\ r.lim \in Nat /\ r.pos <= r.lim /\ r.offset \in Nat
  BY <1>0, CallTypes, IterTypes DEF Look, ReaderAt, PresInv, IterInv, OnChain, Present
<1>2. rpc = "look" /\ UNCHANGED <<nodes, freed, drop, writer, promised>>
  BY DEF Look, ReaderAt
<1>3. CASE r.head = Null
  <2>1. Return(r, 0)
    BY <1>3 DEF Look
  <2>2. wpc = "closed" /\ r.from = Len(nodes) /\ r.pos = nodes[r.from].len /\ r.from \in Nodes
        /\ r.offset = nodes[r.from].first + r.pos /\ r.lim <= nodes[r.from].len
    BY <1>0, <1>1, <1>3 DEF OnChain, Present, Nodes, Null
  <2>3. r.offset = written
    <3>1. written = End(Len(nodes))
      BY ONLY <1>0, <2>2 DEF WriterInv, W
    <3> QED
      BY ONLY <2>2, <3>1 DEF End
  <2>4. \A y \in Ends : Present(y) => it[y].offset <= it[call.x].offset
    BY <2>3, OffsetWritten
  <2>5. promised <= r.offset
    BY <1>0, <2>3 DEF SizeInv
  <2>6. 0 <= r.lim - r.pos
    BY ONLY <1>1
  <2> HIDE DEF r
  <2> QED
    BY <1>1, <1>2, <2>1, <2>4, <2>5, <2>6, NothingLeft, ReturnStep DEF r
<1>4. CASE r.head # Null /\ r.pos < r.lim
  <2>1. Return(r, r.lim - r.pos) /\ r.lim - r.pos \in Nat /\ r.lim - r.pos # 0
    BY <1>1, <1>4 DEF Look
  <2> DEFINE size == r.lim - r.pos
  <2>2. Return(r, size) /\ size \in Nat /\ size # 0 /\ size <= r.lim - r.pos
    BY ONLY <1>1, <2>1
  <2> HIDE DEF r, size
  <2> QED
    BY <1>1, <1>2, <2>2, ReturnStep DEF r
<1>5. CASE r.head # Null /\ ~(r.pos < r.lim)
  <2>1. rpc' = "load" /\ UNCHANGED <<it, call, ready>>
    BY <1>5 DEF Look
  <2>2. WriterInv' /\ ChainInv' /\ RefInv'
    BY <1>2, <2>1, ReaderOnly
  <2>3. TypeOK'
    BY ONLY <1>0, <1>2, <2>1 DEF TypeOK, Refs, writer
  <2>4. IterInv'
    BY ONLY <1>0, <1>2, <2>1 DEF IterInv, OnChain, W, Nodes, writer
  <2>5. PresInv'
    BY ONLY <1>0, <1>2, <2>1 DEF PresInv, Present, writer
  <2>6. LocalInv'
    <3>1. r.pos = r.lim
      BY ONLY <1>1, <1>5
    <3> QED
      BY ONLY <1>5, <2>1, <3>1 DEF LocalInv
  <2>7. SizeInv'
    BY ONLY <1>0, <1>2, <2>1 DEF SizeInv, Present, Size, writer
  <2>8. AdvanceComplete'
    BY ONLY <2>1 DEF AdvanceComplete
  <2> QED
    BY <2>2, <2>3, <2>4, <2>5, <2>6, <2>7, <2>8 DEF IInv
<1> QED
  BY <1>3, <1>4, <1>5

LEMMA LoadHasWriterStep == ASSUME IInv, LoadHasWriter PROVE IInv'
<1>0. TypeOK /\ WriterInv /\ ChainInv /\ IterInv /\ PresInv /\ LocalInv /\ SizeInv
  BY DEF IInv
<1> DEFINE x == call.x
           h == it[x].head
<1>1. /\ rpc = "load" /\ rpc' = "sync" /\ call' = [call EXCEPT !.has_writer = nodes[h].has_writer]
      /\ UNCHANGED <<nodes, freed, drop, writer, it, ready, promised>>
  BY DEF LoadHasWriter, ReaderAt
<1>2. /\ x \in Ends /\ h # Null /\ h = it[x].from /\ h \in Nodes /\ h <= W /\ h \in Nat
      /\ it[x].pos = it[x].lim
  BY <1>0, <1>1, CallTypes DEF LocalInv, IterInv, OnChain, Nodes
<1>3. nodes[h].has_writer \in BOOLEAN
  BY ONLY <1>0, <1>2, NodeTypes
<1>4. /\ call' \in [f : DOMAIN After \cup {"none", "read"}, x : Ends, n : Nat, has_writer : BOOLEAN]
      /\ call'.f = call.f /\ call'.x = x /\ call'.n = call.n
      /\ call'.has_writer = nodes[h].has_writer
  <2>1. call \in [f : DOMAIN After \cup {"none", "read"}, x : Ends, n : Nat, has_writer : BOOLEAN]
    BY ONLY <1>0 DEF TypeOK
  <2> HIDE DEF h
  <2> QED
    BY ONLY <1>1, <1>3, <2>1
<1> HIDE DEF h
<1>5. WriterInv' /\ ChainInv' /\ RefInv'
  BY <1>1, ReaderOnly
<1>6. TypeOK'
  BY ONLY <1>0, <1>1, <1>4 DEF TypeOK, Refs, writer
<1>7. IterInv'
  BY ONLY <1>0, <1>1 DEF IterInv, OnChain, W, Nodes, writer
<1>8. PresInv'
  BY ONLY <1>0, <1>1, <1>4 DEF PresInv, Present, writer
<1>9. LocalInv'
  <2>1. ASSUME nodes[h].has_writer
        PROVE  /\ \A y \in Ends : it[y].from <= h
               /\ promised <= End(h)
    <3>1. h = W
      <4>1. wpc # "closed" /\ h >= tail_
        BY ONLY <1>0, <1>2, <2>1 DEF ChainInv
      <4>2. tail_ \in Nat
        BY ONLY <1>0, <1>2, NodeTypes DEF TypeOK, Refs
      <4> QED
        BY ONLY <1>2, <4>1, <4>2 DEF W
    <3>2. \A y \in Ends : it[y].from <= W
      <4>1. W \in Nat
        BY ONLY <1>2, <3>1
      <4> QED
        BY ONLY <1>0, <4>1 DEF IterInv, OnChain, Null
    <3>3. promised <= End(W)
      BY ONLY <1>0 DEF SizeInv, WriterInv
    <3> QED
      BY ONLY <3>1, <3>2, <3>3
  <2>2. End(h)' = End(h)
    BY <1>1 DEF End, h
  <2>3. it' = it /\ nodes' = nodes /\ promised' = promised /\ rpc' = "sync"
    BY <1>1
  <2>4. End(it[x].from)' = End(h) /\ x' = x
    BY ONLY <1>2, <1>4, <2>3 DEF End
  <2>5. it'[call'.x] = it[x] /\ nodes'[it'[call'.x].head] = nodes[h]
    BY ONLY <1>4, <2>3 DEF h
  <2>6. End(it[call.x].from)' = End(h)
    BY ONLY <2>4
  <2> QED
    BY <1>2, <1>4, <2>1, <2>3, <2>5, <2>6 DEF LocalInv, h
<1>10. SizeInv'
  BY ONLY <1>0, <1>1, <1>4 DEF SizeInv, Present, Size, writer
<1>11. AdvanceComplete'
  BY ONLY <1>1 DEF AdvanceComplete
<1> QED
  BY <1>5, <1>6, <1>7, <1>8, <1>9, <1>10, <1>11 DEF IInv

\* An iterator whose slice has been brought up to date.
LEMMA Synced ==
  ASSUME NEW r \in IteratorType, NEW l \in Nat
  PROVE  LET s == [r EXCEPT !.lim = l]
         IN  /\ s \in IteratorType /\ s.head = r.head /\ s.from = r.from
             /\ s.pos = r.pos /\ s.lim = l /\ s.need_sync = r.need_sync /\ s.offset = r.offset
BY DEF IteratorType

LEMMA SyncSliceStep == ASSUME IInv, SyncSlice PROVE IInv'
<1>0. TypeOK /\ WriterInv /\ ChainInv /\ IterInv /\ PresInv /\ LocalInv /\ SizeInv
  BY DEF IInv
<1> DEFINE x == call.x
           old == it[x]
           n == old.from
           r == IF old.need_sync THEN [old EXCEPT !.lim = nodes[old.from].len] ELSE old
<1>1. rpc = "sync" /\ UNCHANGED <<nodes, freed, drop, writer, promised>>
  BY DEF SyncSlice, ReaderAt
<1>2. /\ x \in Ends /\ Present(x) /\ old \in IteratorType /\ OnChain(old)
      /\ old.pos \in Nat /\ old.lim \in Nat /\ old.offset \in Nat
      /\ old.head # Null /\ old.head = n /\ old.pos = old.lim /\ n \in Nodes /\ n # Null
  BY <1>0, <1>1, CallTypes, IterTypes DEF PresInv, IterInv, LocalInv, OnChain, Present
<1>3. /\ nodes[n].len \in Nat /\ nodes[n].first \in Nat /\ End(n) = nodes[n].first + nodes[n].len
  BY <1>0, <1>2, NodeTypes DEF End
<1>4. /\ r \in IteratorType /\ r.head = n /\ r.from = n /\ r.pos = old.pos
      /\ r.lim = nodes[n].len /\ r.need_sync = old.need_sync /\ r.offset = old.offset
  <2>1. CASE old.need_sync
    BY <1>2, <1>3, <2>1, Synced
  <2>2. CASE ~old.need_sync
    BY <1>2, <2>2 DEF OnChain
  <2> QED
    BY <2>1, <2>2
<1>5. old.offset = nodes[n].first + old.pos /\ old.pos <= nodes[n].len
  BY ONLY <1>2 DEF OnChain
<1>6. \/ (r.pos < r.lim \/ call.has_writer) /\ Return(r, r.lim - r.pos)
      \/ /\ ~(r.pos < r.lim \/ call.has_writer)
         /\ it' = [it EXCEPT ![x] = r] /\ rpc' = "next" /\ UNCHANGED <<call, ready>>
  BY DEF SyncSlice
<1> HIDE DEF r
<1>7. OnChain(r)
  BY ONLY <1>2, <1>3, <1>4, <1>5 DEF OnChain
<1> DEFINE size == r.lim - r.pos
<1>8. size \in Nat /\ size <= r.lim - r.pos /\ (size # 0 => r.pos < r.lim)
  BY ONLY <1>2, <1>3, <1>4, <1>5
<1>9. CASE (r.pos < r.lim \/ call.has_writer) /\ Return(r, size)
  <2>1. ASSUME size = 0
        PROVE  /\ call.f = "sync" => promised <= r.offset
               /\ call.f \in {"advance", "cut", "move"} => call.n = 0
    <3>1. call.has_writer /\ old.offset = End(n)
      BY ONLY <1>2, <1>3, <1>4, <1>5, <1>9, <2>1
    <3>2. /\ \A y \in Ends : it[y].from <= n
          /\ call.f = "sync" => promised <= End(n)
      BY ONLY <1>0, <1>1, <3>1 DEF LocalInv
    <3>3. ASSUME NEW y \in Ends, Present(y)
          PROVE  it[y].offset <= it[x].offset
      <4>1. it[y].from \in Nodes /\ it[y].offset <= End(it[y].from) /\ it[y].from <= n
        BY <3>2, <3>3, OffsetWritten
      <4>2. End(it[y].from) \in Nat /\ End(n) \in Nat /\ it[y].offset \in Nat
        BY <1>0, <1>2, <4>1, NodeTypes, IterTypes
      <4>3. End(it[y].from) <= End(n)
        <5>1. CASE it[y].from = n
          BY ONLY <4>2, <5>1
        <5>2. CASE it[y].from # n
          <6>1. it[y].from < n
            BY ONLY <1>0, <1>2, <4>1, <5>2, NodeTypes DEF Nodes
          <6>2. End(it[y].from) <= nodes[n].first
            BY ONLY <1>0, <1>2, <4>1, <6>1 DEF ChainInv
          <6> QED
            BY ONLY <1>3, <4>2, <6>2
        <5> QED
          BY <5>1, <5>2
      <4> QED
        BY ONLY <3>1, <4>1, <4>2, <4>3
    <3>4. call.f = "sync" => promised <= r.offset
      BY ONLY <1>4, <3>1, <3>2
    <3> QED
      BY <3>3, <3>4, NothingLeft
  <2> HIDE DEF size
  <2> QED
    BY <1>1, <1>2, <1>4, <1>7, <1>8, <1>9, <2>1, ReturnStep DEF size
<1>10. CASE /\ ~(r.pos < r.lim \/ call.has_writer)
            /\ it' = [it EXCEPT ![x] = r] /\ rpc' = "next" /\ UNCHANGED <<call, ready>>
  <2>1. /\ it' \in [Ends -> IteratorType] /\ it'[x] = r
        /\ \A y \in Ends : y # x => it'[y] = it[y]
    <3>1. it \in [Ends -> IteratorType]
      BY ONLY <1>0 DEF TypeOK
    <3> QED
      BY ONLY <1>2, <1>4, <1>10, <3>1
  <2>2. \A y \in Ends :
          /\ it'[y].head = it[y].head /\ it'[y].from = it[y].from
          /\ it'[y].offset = it[y].offset /\ it'[y].pos = it[y].pos
    BY ONLY <1>2, <1>4, <2>1
  <2>3. WriterInv' /\ ChainInv' /\ RefInv'
    BY <1>1, <2>2, ReaderOnly
  <2>4. TypeOK'
    <3>1. \A y \in Ends : {it'[y].head, it'[y].from} \subseteq Refs
      BY <1>0, <2>2, IterTypes
    <3> QED
      BY ONLY <1>0, <1>1, <1>10, <2>1, <3>1 DEF TypeOK, Refs, writer
  <2>5. IterInv'
    BY ONLY <1>0, <1>1, <1>7, <2>1 DEF IterInv, OnChain, W, Nodes, writer
  <2>6. PresInv'
    <3>1. head_' = head_ /\ promised' = promised /\ rpc = "sync" /\ rpc' = "next" /\ call' = call
      BY ONLY <1>1, <1>10 DEF writer
    <3>2. \A y \in Ends : it'[y].from = it[y].from
      BY ONLY <2>2
    <3> QED
      BY ONLY <1>0, <1>2, <3>1, <3>2 DEF PresInv, Present, Ends, Begins
  <2>7. r.pos = r.lim /\ ~nodes[n].has_writer
    <3>1. r.pos = r.lim
      BY ONLY <1>2, <1>3, <1>4, <1>5, <1>10
    <3>2. ~nodes[n].has_writer
      BY ONLY <1>0, <1>1, <1>2, <1>10 DEF LocalInv
    <3> QED
      BY <3>1, <3>2
  <2>8. LocalInv'
    <3>1. it'[call'.x] = r /\ nodes' = nodes /\ rpc' = "next"
      BY ONLY <1>1, <1>10, <2>1
    <3> QED
      BY ONLY <1>2, <1>4, <2>7, <3>1 DEF LocalInv
  <2>9. SizeInv'
    <3>1. ready = 0 /\ ready' = 0 /\ rpc' = "next" /\ call' = call
      BY ONLY <1>0, <1>1, <1>10 DEF SizeInv
    <3>2. ready' <= it'[call'.x].lim - it'[call'.x].pos
      BY ONLY <1>2, <1>3, <1>4, <2>1, <2>7, <3>1
    <3>3. {EndOf(y) : y \in Begins} \cup {"end", "end2", "begin"} \cup Begins \subseteq Ends
      BY DEF EndOf, Begins, Ends
    <3>4. \A y \in Begins : EndOf(y) \in Ends /\ y \in Ends
      BY DEF EndOf, Begins, Ends
    <3>5. x \in Begins => Size(x)' = Size(x)
      BY ONLY <1>10, <2>2, <3>4 DEF Size, EndOf
    <3>6. x \in Begins => ready' <= Size(x)'
      BY ONLY <1>0, <3>1, <3>5 DEF SizeInv
    <3>7. call.f \in {"advance", "move"} => call.n <= Size(x)'
      BY ONLY <1>0, <3>5 DEF SizeInv, PresInv
    <3> QED
      BY ONLY <1>0, <1>1, <2>2, <3>1, <3>2, <3>3, <3>4, <3>6, <3>7 DEF SizeInv, Present, writer
  <2>10. AdvanceComplete'
    BY ONLY <1>10 DEF AdvanceComplete
  <2> QED
    BY <2>3, <2>4, <2>5, <2>6, <2>8, <2>9, <2>10 DEF IInv
<1> QED
  BY <1>6, <1>9, <1>10

LEMMA ConfirmReadStep == ASSUME IInv, ConfirmRead PROVE IInv'
<1>0. TypeOK /\ IterInv /\ PresInv /\ SizeInv
  BY DEF IInv
<1> DEFINE x == call.x
           r == it[x]
<1>1. PICK size \in 0 .. ready :
        it' = [it EXCEPT ![x] = [r EXCEPT !.pos = r.pos + size, !.offset = r.offset + size]]
  BY DEF ConfirmRead
<1>2. /\ rpc = "confirm" /\ rpc' = "idle" /\ ready' = 0 /\ call' = NoCall(0)
      /\ UNCHANGED <<nodes, freed, drop, writer, promised>>
  BY DEF ConfirmRead, ReaderAt
<1>3. /\ x \in Ends /\ x \in Begins /\ Present(x) /\ r \in IteratorType /\ OnChain(r)
      /\ it \in [Ends -> IteratorType] /\ call.f = "read"
  BY <1>0, <1>2, CallTypes DEF TypeOK, PresInv, IterInv
<1>4. size \in Nat /\ size <= r.lim - r.pos /\ size <= Size(x) /\ ready \in Nat
  <2>1. ready \in Nat /\ ready <= r.lim - r.pos /\ ready <= Size(x)
    BY <1>0, <1>3 DEF TypeOK, SizeInv
  <2>2. r.lim \in Nat /\ r.pos \in Nat
    BY ONLY <1>3 DEF IteratorType
  <2>3. Size(x) \in Int
    <3>1. \A y \in Ends : it[y].offset \in Nat
      BY <1>0, IterTypes
    <3>2. EndOf(x) \in Ends
      BY DEF EndOf, Ends, Begins
    <3> QED
      BY ONLY <1>3, <3>1, <3>2 DEF Size
  <2> HIDE DEF r, x
  <2> QED
    BY ONLY <2>1, <2>2, <2>3, size \in 0 .. ready
<1> DEFINE s == [r EXCEPT !.pos = r.pos + size, !.offset = r.offset + size]
<1>5. /\ s \in IteratorType /\ s.head = r.head /\ s.from = r.from
      /\ s.pos = r.pos + size /\ s.lim = r.lim /\ s.offset = r.offset + size
  BY ONLY <1>3, <1>4, MovedOn
<1>6. OnChain(s)
  BY ONLY <1>0, <1>3, <1>4, MovedOnChain DEF Present
<1>7. it' = [it EXCEPT ![x] = s]
  BY <1>1
<1> HIDE DEF s
<1>8. /\ it' \in [Ends -> IteratorType] /\ it'[x] = s
      /\ \A y \in Ends : y # x => it'[y] = it[y]
  BY ONLY <1>3, <1>5, <1>7
<1>9. \A y \in Ends : it'[y].head = it[y].head /\ it'[y].from = it[y].from
  BY ONLY <1>5, <1>8
<1>10. WriterInv' /\ ChainInv' /\ RefInv'
  BY <1>2, <1>9, ReaderOnly
<1>11. call' = [f |-> "none", x |-> "end", n |-> 0, has_writer |-> FALSE]
  BY ONLY <1>2 DEF NoCall
<1>12. TypeOK'
  <2>1. \A y \in Ends : {it'[y].head, it'[y].from} \subseteq Refs
    BY <1>0, <1>9, IterTypes
  <2>2. call' \in [f : DOMAIN After \cup {"none", "read"}, x : Ends, n : Nat, has_writer : BOOLEAN]
    BY ONLY <1>11 DEF Ends
  <2> QED
    BY ONLY <1>0, <1>2, <1>8, <2>1, <2>2 DEF TypeOK, Refs, writer
<1>13. IterInv'
  BY ONLY <1>0, <1>2, <1>6, <1>8 DEF IterInv, OnChain, W, Nodes, writer
<1>14. PresInv'
  BY ONLY <1>0, <1>2, <1>3, <1>9, <1>11 DEF PresInv, Present, writer, Ends, Begins
<1>15. LocalInv'
  BY ONLY <1>2 DEF LocalInv
<1>16. SizeInv'
  <2>1. \A y \in Ends : it[y].offset \in Nat
    BY <1>0, IterTypes
  <2>2. it'[x].offset = it[x].offset + size /\ \A y \in Ends : y # x => it'[y].offset = it[y].offset
    BY ONLY <1>5, <1>8
  <2>3. ASSUME NEW y \in Begins, Present(y)'
        PROVE  it'[y].offset <= it'[EndOf(y)].offset
    <3>1. it[y].offset <= it[EndOf(y)].offset
      BY ONLY <1>0, <1>9, <2>3 DEF SizeInv, Present, Ends
    <3>2. EndOf(y) \in Ends /\ EndOf(y) \notin Begins /\ y \in Ends
      BY DEF EndOf, Begins, Ends
    <3>3. CASE y = x
      BY ONLY <1>3, <1>4, <2>1, <2>2, <3>2, <3>3 DEF Size
    <3>4. CASE y # x
      BY ONLY <1>3, <2>2, <3>1, <3>2, <3>4
    <3> QED
      BY <3>3, <3>4
  <2>4. "end" \in Ends /\ "end" \notin Begins
    BY DEF Ends, Begins
  <2>5. it'["end"].offset = it["end"].offset /\ promised <= it["end"].offset /\ promised <= written
    BY ONLY <1>0, <1>3, <2>2, <2>4 DEF SizeInv
  <2>6. ready' <= it'["end"].lim - it'["end"].pos
    <3>1. it'["end"] \in IteratorType /\ OnChain(it["end"])'
      BY ONLY <1>8, <1>13, <2>4 DEF IterInv
    <3> QED
      BY ONLY <1>2, <3>1 DEF IteratorType, OnChain
  <2>7. call'.f = "none" /\ call'.x = "end" /\ written' = written /\ promised' = promised
    BY ONLY <1>2, <1>11 DEF writer
  <2> QED
    BY ONLY <1>2, <2>3, <2>4, <2>5, <2>6, <2>7 DEF SizeInv
<1>17. AdvanceComplete'
  BY ONLY <1>11 DEF AdvanceComplete
<1> QED
  BY <1>10, <1>12, <1>13, <1>14, <1>15, <1>16, <1>17 DEF IInv

\* References are taken, to nodes that have not been deleted.
LEMMA RefsTaken ==
  ASSUME TypeOK, RefInv, SameChain, freed' = freed,
         \A n \in Nodes :
           /\ nodes[n].ref_cnt <= nodes'[n].ref_cnt
           /\ nodes'[n].ref_cnt = nodes[n].ref_cnt \/ n \notin freed
           /\ WriterRefs(n)' + ReaderRefs(n)' - nodes'[n].ref_cnt
                = WriterRefs(n) + ReaderRefs(n) - nodes[n].ref_cnt,
         \A t \in Threads : Len(drop'[t]) <= 2
  PROVE  RefInv'
<1>1. Nodes' = Nodes /\ Len(nodes') = Len(nodes)
  BY DEF SameChain, Nodes
<1>2. \A n \in Nodes : n > 1 => n - 1 \in Nodes
  BY NodeTypes DEF Nodes
<1>3. \A n \in Nodes : NextRefs(n)' = NextRefs(n)
  BY <1>2 DEF NextRefs, SameChain
<1>4. \A n \in Nodes : nodes[n].ref_cnt \in Nat /\ nodes'[n].ref_cnt \in Nat
  <2>1. nodes' \in Seq(NodeType)
    BY DEF SameChain
  <2>2. \A n \in 1 .. Len(nodes') : nodes'[n].ref_cnt \in Nat
    BY ONLY <2>1, SeqTypes
  <2> QED
    BY <1>1, <2>2, NodeTypes DEF Nodes
<1>5. \A n \in Nodes : n \in freed' <=> nodes'[n].ref_cnt = 0
  BY <1>4 DEF RefInv
<1>6. RefsNat'
  BY CountsAreNat, PTL
<1>7. \A n \in Nodes : nodes'[n].ref_cnt = WriterRefs(n)' + ReaderRefs(n)' + NextRefs(n)'
  <2> TAKE n \in Nodes
  <2>1. WriterRefs(n) \in Nat /\ ReaderRefs(n) \in Nat /\ NextRefs(n) \in {0, 1}
    BY RefNats
  <2>2. nodes[n].ref_cnt = WriterRefs(n) + ReaderRefs(n) + NextRefs(n)
    BY DEF RefInv
  <2>3. WriterRefs(n)' \in Nat /\ ReaderRefs(n)' \in Nat
    BY <1>6 DEF RefsNat
  <2>4. WriterRefs(n)' + ReaderRefs(n)' - nodes'[n].ref_cnt
          = WriterRefs(n) + ReaderRefs(n) - nodes[n].ref_cnt
    OBVIOUS
  <2>5. NextRefs(n)' = NextRefs(n) /\ nodes[n].ref_cnt \in Nat /\ nodes'[n].ref_cnt \in Nat
    BY <1>3, <1>4
  <2> QED
    BY ONLY <2>1, <2>2, <2>3, <2>4, <2>5
<1> QED
  BY <1>1, <1>5, <1>7 DEF RefInv

\* One iterator's reference is another one now.
LEMMA HeadMoved ==
  ASSUME NEW x \in Ends, NEW n, \A y \in Ends : y # x => it'[y].head = it[y].head
  PROVE  IterRefs(n)' = IterRefs(n) - One(it[x].head, n) + One(it'[x].head, n)
<1>1. \A a, b : One(a, b) \in {0, 1}
  BY DEF One
<1>2. \A y \in Ends : One(it[y].head, n)' = One(it'[y].head, n)
  BY DEF One
<1>3. \A y \in Ends : y # x => One(it'[y].head, n) = One(it[y].head, n)
  OBVIOUS
<1> QED
  BY ONLY x \in Ends, <1>1, <1>2, <1>3 DEF IterRefs, Ends, Begins

\* The node after old is the one to go on with, or there is none any more.
LEMMA NextNodeStep == ASSUME IInv, NextNode PROVE IInv'
<1>0. TypeOK /\ WriterInv /\ ChainInv /\ IterInv /\ PresInv /\ LocalInv /\ SizeInv /\ RefInv
  BY DEF IInv
<1> DEFINE x == call.x
           old == it[x].head
           new == nodes[old].next
           r == IF new = Null THEN [it[x] EXCEPT !.head = Null] ELSE Iterator(new, it[x].offset)
<1>1. /\ rpc = "next" /\ rpc' = "look" /\ drop["reader"] = <<>>
      /\ call' = [call EXCEPT !.has_writer = FALSE]
      /\ drop' = [drop EXCEPT !["reader"] = <<old>>]
      /\ UNCHANGED <<freed, writer, ready, promised>>
  BY DEF NextNode, ReaderAt
<1>2. /\ x \in Ends /\ Present(x) /\ it \in [Ends -> IteratorType] /\ OnChain(it[x])
      /\ old # Null /\ old = it[x].from /\ old \in Nodes /\ old <= W
      /\ it[x].pos = it[x].lim /\ it[x].lim = nodes[old].len /\ ~nodes[old].has_writer
      /\ it[x].offset = nodes[old].first + it[x].pos
  BY <1>0, <1>1, CallTypes DEF TypeOK, PresInv, IterInv, LocalInv, OnChain, Present
<1>3. /\ nodes[old].len \in Nat /\ nodes[old].first \in Nat /\ End(old) = it[x].offset
      /\ old \in Nat /\ Len(nodes) \in Nat /\ old <= Len(nodes) /\ it[x].offset \in Nat
  <2>1. nodes[old].len \in Nat /\ nodes[old].first \in Nat /\ Len(nodes) \in Nat
    BY <1>0, <1>2, NodeTypes
  <2>2. old \in 1 .. Len(nodes)
    BY <1>2 DEF Nodes
  <2> HIDE DEF old, x
  <2> QED
    BY ONLY <1>2, <2>1, <2>2 DEF End
\* A writer that is gone from old has linked the next node, or has closed the chain.
<1>4. \/ new = old + 1 /\ new \in Nodes /\ new <= W
      \/ new = Null /\ wpc = "closed" /\ old = Len(nodes)
  <2>1. new = IF old < Last THEN old + 1 ELSE Null
    BY ONLY <1>0, <1>2 DEF ChainInv
  <2>2. wpc = "closed" \/ old < tail_
    BY ONLY <1>0, <1>2, <1>3 DEF ChainInv, TypeOK, Refs
  <2>3. tail_ \in 0 .. Len(nodes)
    BY ONLY <1>0 DEF TypeOK, Refs
  <2> HIDE DEF new, old
  <2>4. CASE wpc = "closed"
    BY ONLY <1>3, <1>2, <2>1, <2>4 DEF Last, W, Nodes
  <2>5. CASE wpc # "closed" /\ old < tail_
    <3>1. old < Last
      BY ONLY <1>0, <1>3, <2>3, <2>5 DEF WriterInv, Last, TypeOK
    <3>2. old + 1 \in Nodes /\ old + 1 <= W
      BY ONLY <1>2, <1>3, <2>3, <2>5 DEF Nodes, W
    <3> QED
      BY ONLY <2>1, <3>1, <3>2
  <2> QED
    BY ONLY <2>2, <2>4, <2>5
<1>5. /\ it' = [it EXCEPT ![x] = r]
      /\ nodes' = IF new = Null THEN nodes ELSE [nodes EXCEPT ![new].ref_cnt = nodes[new].ref_cnt + 1]
  BY DEF NextNode
<1>6. /\ r \in IteratorType /\ OnChain(r) /\ r.head = new /\ r.from # Null /\ r.from \in Refs
      /\ r.offset = it[x].offset /\ r.pos \in Nat /\ r.lim \in Nat /\ r.pos <= r.lim
  <2>1. CASE new = Null
    <3>1. r = [it[x] EXCEPT !.head = Null]
      BY <2>1
    <3> HIDE DEF r
    <3>2. it[x] \in IteratorType
      BY ONLY <1>2
    <3>a. r \in IteratorType
      BY ONLY <3>1, <3>2 DEF IteratorType, Null, Refs
    <3>b. /\ r.head = Null /\ r.from = it[x].from /\ r.pos = it[x].pos
          /\ r.lim = it[x].lim /\ r.need_sync = it[x].need_sync /\ r.offset = it[x].offset
      BY ONLY <3>1, <3>2 DEF IteratorType
    <3>3. /\ r \in IteratorType /\ r.head = Null /\ r.from = it[x].from /\ r.pos = it[x].pos
          /\ r.lim = it[x].lim /\ r.need_sync = it[x].need_sync /\ r.offset = it[x].offset
      BY ONLY <3>a, <3>b
    <3>4. r.pos \in Nat /\ r.lim \in Nat /\ r.pos <= r.lim
      BY ONLY <1>2, <1>3, <3>3 DEF IteratorType
    <3>5. wpc = "closed" /\ old = Len(nodes)
      BY ONLY <1>3, <1>4, <2>1 DEF Null
    <3>6. OnChain(r)
      BY ONLY <1>2, <3>3, <3>5 DEF OnChain
    <3> QED
      BY ONLY <1>2, <2>1, <3>3, <3>4, <3>6 DEF Nodes, Refs
  <2>2. CASE new # Null
    <3>1. new \in Nodes /\ new <= W /\ new = old + 1
      BY ONLY <1>4, <2>2
    <3>2. /\ nodes[new].sync \in BOOLEAN /\ nodes[new].len \in Nat
          /\ nodes[new].first = it[x].offset
      <4>1. nodes[old + 1].first = End(old)
        BY ONLY <1>0, <1>2, <3>1 DEF ChainInv
      <4> QED
        BY ONLY <1>0, <1>3, <3>1, <4>1, NodeTypes
    <3>3. r = [head |-> new, from |-> new, pos |-> 0,
               lim |-> IF nodes[new].sync THEN 0 ELSE nodes[new].len,
               need_sync |-> nodes[new].sync, offset |-> it[x].offset]
      BY <2>2 DEF Iterator
    <3>4. new \in Nat /\ new \in Refs
      BY ONLY <3>1 DEF Nodes, Refs
    <3> HIDE DEF r, new
    <3>5. /\ r \in IteratorType /\ r.head = new /\ r.from = new /\ r.pos = 0
          /\ r.lim = (IF nodes[new].sync THEN 0 ELSE nodes[new].len)
          /\ r.need_sync = nodes[new].sync /\ r.offset = it[x].offset
      BY ONLY <1>3, <3>2, <3>3, <3>4 DEF IteratorType
    <3>6. r.lim \in Nat /\ r.lim <= nodes[new].len /\ (~r.need_sync => r.lim = nodes[new].len)
      BY ONLY <3>2, <3>5
    <3>7. OnChain(r)
      BY ONLY <1>3, <2>2, <3>1, <3>2, <3>5, <3>6 DEF OnChain
    <3> QED
      BY ONLY <2>2, <3>4, <3>5, <3>6, <3>7
  <2> QED
    BY <2>1, <2>2
<1>7. /\ SameChain
      /\ \A n \in Nodes : nodes'[n].ref_cnt = nodes[n].ref_cnt + One(new, n)
  <2>1. CASE new = Null
    <3>1. nodes' = nodes
      BY ONLY <1>5, <2>1
    <3>2. \A n \in Nodes : One(new, n) = 0 /\ nodes[n].ref_cnt \in Nat
      BY <1>0, <2>1, NodeTypes DEF One, Nodes, Null
    <3> QED
      BY ONLY <1>0, <3>1, <3>2 DEF SameChain, TypeOK
  <2>2. CASE new # Null
    <3>1. new \in Nodes
      BY ONLY <1>4, <2>2
    <3> DEFINE a == [nodes[new] EXCEPT !.ref_cnt = nodes[new].ref_cnt + 1]
    <3>2. nodes' = [nodes EXCEPT ![new] = a]
      BY <1>5, <2>2
    <3>3. nodes[new] \in NodeType /\ nodes[new].ref_cnt + 1 \in Nat
      BY <1>0, <3>1, NodeTypes
    <3> HIDE DEF new
    <3>4. /\ a \in NodeType /\ a.ref_cnt = nodes[new].ref_cnt + 1
          /\ a.first = nodes[new].first /\ a.len = nodes[new].len /\ a.cap = nodes[new].cap
          /\ a.sync = nodes[new].sync /\ a.next = nodes[new].next
          /\ a.has_writer = nodes[new].has_writer
      BY ONLY <3>3, SetRefCnt
    <3> HIDE DEF a
    <3>5. /\ nodes' \in Seq(NodeType) /\ Len(nodes') = Len(nodes)
          /\ nodes'[new] = a /\ \A m \in Nodes : m # new => nodes'[m] = nodes[m]
      BY ONLY <1>0, <3>1, <3>2, <3>4, StoreNode
    <3>6. SameChain
      BY ONLY <3>4, <3>5 DEF SameChain
    <3>7. \A n \in Nodes : nodes'[n].ref_cnt = nodes[n].ref_cnt + One(new, n)
      <4>1. \A n \in Nodes : nodes[n].ref_cnt \in Nat
        BY <1>0, NodeTypes
      <4> QED
        BY ONLY <3>4, <3>5, <4>1 DEF One
    <3> QED
      BY <3>6, <3>7
  <2> QED
    BY <2>1, <2>2
<1> HIDE DEF r, new, old
<1>8. /\ it' \in [Ends -> IteratorType] /\ it'[x] = r
      /\ \A y \in Ends : y # x => it'[y] = it[y]
  BY ONLY <1>2, <1>5, <1>6
<1>9. WriterInv' /\ ChainInv' /\ Grow
  BY <1>0, <1>1, <1>7, ChainStable DEF writer
<1>10. Nodes' = Nodes /\ Refs' = Refs /\ W' = W
  BY ONLY <1>1, <1>7 DEF SameChain, Nodes, Refs, W, writer
<1>11. \A y \in Ends : it'[y].from # Null <=> it[y].from # Null
  BY ONLY <1>2, <1>6, <1>8 DEF Present
<1>12. \A y \in Ends : it'[y].offset = it[y].offset
  BY ONLY <1>6, <1>8
<1>13. /\ call' \in [f : DOMAIN After \cup {"none", "read"}, x : Ends, n : Nat, has_writer : BOOLEAN]
       /\ call'.f = call.f /\ call'.x = x /\ call'.n = call.n
  <2>1. call \in [f : DOMAIN After \cup {"none", "read"}, x : Ends, n : Nat, has_writer : BOOLEAN]
    BY ONLY <1>0 DEF TypeOK
  <2> QED
    BY ONLY <1>1, <2>1
<1>14. drop' \in [Threads -> Seq(Nodes)] /\ drop'["reader"] = <<old>> /\ drop'["writer"] = drop["writer"]
  BY ONLY <1>0, <1>1, <1>2 DEF TypeOK, Threads, Nodes
<1>15. TypeOK'
  <2>1. \A y \in Ends : {it'[y].head, it'[y].from} \subseteq Refs
    <3>1. r.head \in Refs
      <4>1. new \in Refs
        BY ONLY <1>0, <1>2, NodeTypes DEF new
      <4> QED
        BY ONLY <1>6, <4>1
    <3> QED
      BY <1>0, <1>6, <1>8, <3>1, IterTypes
  <2>2. \A n \in Nodes : nodes'[n].next \in Refs
    BY ONLY <1>0, <1>7, NodeTypes DEF SameChain
  <2> QED
    BY ONLY <1>0, <1>1, <1>7, <1>8, <1>10, <1>13, <1>14, <2>1, <2>2 DEF TypeOK, SameChain, Nodes, writer
<1>16. IterInv'
  <2>1. \A y \in Ends : OnChain(it'[y])
    BY ONLY <1>0, <1>6, <1>8 DEF IterInv
  <2>2. ASSUME NEW y \in Ends PROVE OnChain(it[y])'
    <3>1. it'[y].from # Null => it'[y].from \in Nodes
      BY ONLY <2>1 DEF OnChain
    <3>2. wpc' = wpc /\ Len(nodes') = Len(nodes)
      BY ONLY <1>1, <1>7 DEF SameChain, writer
    <3> QED
      BY ONLY <1>7, <1>10, <2>1, <3>1, <3>2 DEF OnChain, SameChain
  <2> QED
    BY <2>2 DEF IterInv
<1>17. PresInv'
  <2>1. head_' = head_ /\ promised' = promised
    BY ONLY <1>1 DEF writer
  <2> QED
    BY ONLY <1>0, <1>1, <1>2, <1>11, <1>12, <1>13, <2>1 DEF PresInv, Present, Ends, Begins
<1>18. LocalInv'
  BY ONLY <1>1 DEF LocalInv
<1>19. SizeInv'
  <2>1. ready' = 0 /\ written' = written /\ promised' = promised
    BY ONLY <1>0, <1>1 DEF SizeInv, writer
  <2>2. ready' <= it'[call'.x].lim - it'[call'.x].pos
    BY ONLY <1>6, <1>8, <1>13, <2>1
  <2>3. \A y \in Begins : EndOf(y) \in Ends /\ y \in Ends
    BY DEF EndOf, Begins, Ends
  <2>4. x \in Begins => it'[EndOf(x)].offset - it'[x].offset = Size(x)
    BY ONLY <1>12, <2>3 DEF Size
  <2>5. {"end", "end2", "begin"} \subseteq Ends
    BY DEF Ends, Begins
  <2>6. call.f \in {"advance", "move"} => x \in Begins
    BY ONLY <1>0 DEF PresInv
  <2>7. call'.x \in Begins => ready' <= it'[EndOf(call'.x)].offset - it'[call'.x].offset
    <3>1. call'.x = x
      BY ONLY <1>13
    <3>2. x \in Begins => ready <= Size(x)
      BY ONLY <1>0 DEF SizeInv
    <3>3. ready' = ready
      BY ONLY <1>1
    <3> QED
      BY ONLY <2>4, <3>1, <3>2, <3>3
  <2>8. call'.f \in {"advance", "move"} =>
          call'.n <= it'[EndOf(call'.x)].offset - it'[call'.x].offset
    BY ONLY <1>0, <1>13, <2>4, <2>6 DEF SizeInv
  <2>9. \A y \in Begins : Present(y)' => it'[y].offset <= it'[EndOf(y)].offset
    BY ONLY <1>0, <1>11, <1>12, <2>3 DEF SizeInv, Present
  <2>10. call'.f # "sync" => promised' <= it'["end"].offset
    BY ONLY <1>0, <1>12, <1>13, <2>1, <2>5 DEF SizeInv
  <2>11. call'.f = "cut" =>
           /\ it'["end2"].offset + call'.n <= it'["end"].offset
           /\ it'["begin"].offset <= it'["end2"].offset
    BY ONLY <1>0, <1>12, <1>13, <2>5 DEF SizeInv
  <2>12. promised' <= written' /\ (call'.f \in {"sync", "read"} => call'.n = 0)
    BY ONLY <1>0, <1>13, <2>1 DEF SizeInv
  <2> QED
    BY ONLY <2>1, <2>2, <2>7, <2>8, <2>9, <2>10, <2>11, <2>12 DEF SizeInv, Size
<1>20. AdvanceComplete'
  BY ONLY <1>1 DEF AdvanceComplete
<1>21. RefInv'
  <2>1. \A t \in Threads : Len(drop'[t]) <= 2
    <3>1. Len(drop'["reader"]) <= 2
      BY ONLY <1>14
    <3>2. Len(drop'["writer"]) <= 2
      BY ONLY <1>0, <1>14 DEF RefInv, Threads
    <3> QED
      BY ONLY <3>1, <3>2 DEF Threads
  <2>2. /\ Owed("reader", 1) = Null /\ Owed("reader", 2) = Null
        /\ Owed("reader", 1)' = old /\ Owed("reader", 2)' = Null
        /\ \A i : Owed("writer", i)' = Owed("writer", i)
    BY ONLY <1>1, <1>14, OwesNothing, OwedNow DEF Owed
  <2>3. ASSUME NEW n \in Nodes
        PROVE  /\ nodes[n].ref_cnt <= nodes'[n].ref_cnt
               /\ nodes'[n].ref_cnt = nodes[n].ref_cnt \/ n \notin freed
               /\ WriterRefs(n)' + ReaderRefs(n)' - nodes'[n].ref_cnt
                    = WriterRefs(n) + ReaderRefs(n) - nodes[n].ref_cnt
    <3>1. nodes'[n].ref_cnt = nodes[n].ref_cnt + One(new, n) /\ nodes[n].ref_cnt \in Nat
      BY ONLY <1>0, <1>7, NodeTypes, n \in Nodes
    <3>2. \A a, b : One(a, b) \in {0, 1} /\ (One(a, b) # 0 => a = b)
      BY DEF One
    <3>3. One(Null, n) = 0
      BY ONLY <1>3, n \in Nodes DEF One, Nodes, Null
    <3>4. WriterRefs(n)' = WriterRefs(n)
      BY ONLY <1>1, <2>2 DEF WriterRefs, One, writer
    <3>5. IterRefs(n)' = IterRefs(n) - One(old, n) + One(new, n)
      <4>1. \A y \in Ends : y # x => it'[y].head = it[y].head
        BY ONLY <1>8
      <4>2. it[x].head = old /\ it'[x].head = new
        BY <1>6, <1>8 DEF old
      <4> QED
        BY ONLY <1>2, <4>1, <4>2, HeadMoved
    <3>6. ReaderRefs(n) = IterRefs(n) + One(Null, n) + One(Null, n)
      BY ONLY <2>2 DEF ReaderRefs
    <3>7. ReaderRefs(n)' = IterRefs(n)' + One(old, n) + One(Null, n)
      BY ONLY <2>2 DEF ReaderRefs, One
    <3>8. WriterRefs(n) \in Nat /\ IterRefs(n) \in Nat
      BY RefNats
    <3>9. ReaderRefs(n)' = ReaderRefs(n) + One(new, n) /\ ReaderRefs(n) \in Nat
      BY ONLY <3>2, <3>3, <3>5, <3>6, <3>7, <3>8
    <3>10. One(new, n) = 0 \/ n \notin freed
      <4> SUFFICES ASSUME One(new, n) # 0 PROVE n \notin freed
        OBVIOUS
      <4>1. n = new /\ new # Null
        BY ONLY <3>2, <3>3, One(new, n) # 0
      <4>2. new = old + 1 /\ new > 1 /\ new - 1 = old
        BY ONLY <1>2, <1>3, <1>4, <4>1 DEF Null
      <4>3. old \notin freed
        <5>1. it[x].head = old
          BY DEF old
        <5> QED
          BY ONLY <1>0, <1>2, <5>1, Referenced
      <4>4. nodes[new - 1].next = new
        BY ONLY <4>2 DEF new
      <4>5. NextRefs(n) = 1
        BY ONLY <4>1, <4>2, <4>3, <4>4 DEF NextRefs
      <4> QED
        BY ONLY <1>0, <4>5, n \in Nodes, Referenced
    <3> QED
      BY ONLY <3>1, <3>2, <3>4, <3>8, <3>9, <3>10
  <2> QED
    BY ONLY <1>0, <1>1, <1>7, <2>1, <2>3, RefsTaken
<1> QED
  BY <1>9, <1>15, <1>16, <1>17, <1>18, <1>19, <1>20, <1>21 DEF IInv

\* The reader has other iterators on the same chain.
LEMMA Replaced ==
  ASSUME IInv, SameChain, UNCHANGED <<freed, tail_, wpc, want, fresh, written>>,
         head_' \in {Null, head_},
         it' \in [Ends -> IteratorType], \A y \in Ends : OnChain(it'[y]),
         drop' \in [Threads -> Seq(Nodes)],
         rpc' \in {"look", "idle", "cut", "gone"},
         call' \in [f : DOMAIN After \cup {"none", "read"}, x : Ends, n : Nat, has_writer : BOOLEAN],
         ready' = ready, promised' \in Nat
  PROVE  TypeOK' /\ WriterInv' /\ ChainInv' /\ IterInv' /\ LocalInv'
<1>0. TypeOK /\ WriterInv /\ ChainInv
  BY DEF IInv
<1>1. WriterInv' /\ ChainInv'
  BY <1>0, ChainStable
<1>2. Nodes' = Nodes /\ Refs' = Refs /\ W' = W /\ wpc' = wpc /\ Len(nodes') = Len(nodes)
  BY DEF SameChain, Nodes, Refs, W
<1>3. Nodes \subseteq Refs /\ Null \in Refs
  BY <1>0, NodeTypes DEF Nodes, Refs, Null
<1>4. \A y \in Ends : {it'[y].head, it'[y].from} \subseteq Refs
  BY <1>3 DEF OnChain
<1>5. \A n \in Nodes : nodes'[n].next \in Refs
  BY <1>0, NodeTypes DEF SameChain
<1>6. {head_', tail_', fresh'} \subseteq Refs /\ wpc' = wpc /\ want' = want /\ written' = written
  BY <1>0, <1>3 DEF TypeOK
<1>7. TypeOK'
  BY <1>0, <1>2, <1>4, <1>5, <1>6 DEF TypeOK, SameChain, Nodes
<1>8. IterInv'
  <2> SUFFICES ASSUME NEW y \in Ends PROVE OnChain(it[y])'
    BY DEF IterInv
  <2>1. it'[y].from # Null => it'[y].from \in Nodes
    BY DEF OnChain
  <2> QED
    BY <1>2, <2>1 DEF OnChain, SameChain
<1>9. LocalInv'
  BY DEF LocalInv
<1> QED
  BY <1>1, <1>7, <1>8, <1>9

\* Counters of nodes are raised.
LEMMA Counted ==
  ASSUME TypeOK, NEW c, \A n \in Nodes : c[n] \in Nat,
         nodes' = [n \in DOMAIN nodes |-> [nodes[n] EXCEPT !.ref_cnt = @ + c[n]]]
  PROVE  SameChain /\ \A n \in Nodes : nodes'[n].ref_cnt = nodes[n].ref_cnt + c[n]
<1>1. DOMAIN nodes = Nodes /\ Len(nodes) \in Nat
  BY LenProperties DEF TypeOK, Nodes
<1>2. ASSUME NEW n \in Nodes
      PROVE  /\ nodes'[n] \in NodeType /\ nodes'[n].ref_cnt = nodes[n].ref_cnt + c[n]
             /\ nodes'[n].first = nodes[n].first /\ nodes'[n].len = nodes[n].len
             /\ nodes'[n].cap = nodes[n].cap /\ nodes'[n].sync = nodes[n].sync
             /\ nodes'[n].next = nodes[n].next /\ nodes'[n].has_writer = nodes[n].has_writer
  <2>1. nodes[n] \in NodeType /\ nodes[n].ref_cnt + c[n] \in Nat
    BY NodeTypes
  <2>2. nodes'[n] = [nodes[n] EXCEPT !.ref_cnt = nodes[n].ref_cnt + c[n]]
    BY <1>1
  <2> QED
    BY ONLY <2>1, <2>2, SetRefCnt
<1>3. nodes' \in [1 .. Len(nodes) -> NodeType]
  <2>1. nodes' = [n \in Nodes |-> nodes'[n]]
    BY <1>1
  <2> QED
    BY ONLY <1>2, <2>1 DEF Nodes
<1>4. nodes' \in Seq(NodeType) /\ Len(nodes') = Len(nodes)
  <2>1. nodes' \in Seq(NodeType)
    BY ONLY <1>1, <1>3, SeqDef
  <2>2. Len(nodes') \in Nat /\ DOMAIN nodes' = 1 .. Len(nodes')
    BY ONLY <2>1, LenProperties
  <2>3. DOMAIN nodes' = 1 .. Len(nodes)
    BY ONLY <1>3
  <2> QED
    BY ONLY <1>1, <2>1, <2>2, <2>3
<1> QED
  BY <1>2, <1>4 DEF SameChain

\* The copies of one or two iterators are counted.
LEMMA Copies ==
  ASSUME NEW a \in Ends, NEW n
  PROVE  /\ Cardinality({x \in {a} : it[x].head = n}) = One(it[a].head, n)
         /\ \A b \in Ends : b # a =>
              Cardinality({x \in {a, b} : it[x].head = n}) = One(it[a].head, n) + One(it[b].head, n)
<1>1. /\ Cardinality({}) = 0 /\ \A y : Cardinality({y}) = 1
      /\ \A y, z : y # z => Cardinality({y, z}) = 2
  <2>1. Cardinality({}) = 0
    BY FS_EmptySet
  <2>2. \A y : IsFiniteSet({y}) /\ Cardinality({y}) = 1
    BY FS_Singleton
  <2>3. \A y, z : y # z => Cardinality({y, z}) = 2
    <3> SUFFICES ASSUME NEW y, NEW z, y # z PROVE Cardinality({y, z}) = 2
      OBVIOUS
    <3>1. Cardinality({y} \cup {z}) = Cardinality({y}) + 1
      BY <2>2, FS_AddElement
    <3>2. {y} \cup {z} = {y, z}
      OBVIOUS
    <3> QED
      BY <2>2, <3>1, <3>2
  <2> QED
    BY <2>1, <2>2, <2>3
<1>2. \A S : {x \in S : it[x].head = n} \subseteq S
  OBVIOUS
<1>3. Cardinality({x \in {a} : it[x].head = n}) = One(it[a].head, n)
  <2>1. CASE it[a].head = n
    <3>1. {x \in {a} : it[x].head = n} = {a}
      BY <2>1
    <3> QED
      BY <1>1, <2>1, <3>1 DEF One
  <2>2. CASE it[a].head # n
    <3>1. {x \in {a} : it[x].head = n} = {}
      BY <2>2
    <3> QED
      BY <1>1, <2>2, <3>1 DEF One
  <2> QED
    BY <2>1, <2>2
<1>4. ASSUME NEW b \in Ends, b # a
      PROVE  Cardinality({x \in {a, b} : it[x].head = n}) = One(it[a].head, n) + One(it[b].head, n)
  <2> DEFINE S == {x \in {a, b} : it[x].head = n}
  <2>1. CASE it[a].head = n /\ it[b].head = n
    <3>1. S = {a, b}
      BY <2>1
    <3>2. One(it[a].head, n) = 1 /\ One(it[b].head, n) = 1
      BY <2>1 DEF One
    <3>3. Cardinality(S) = 2
      BY ONLY <1>1, <1>4, <3>1
    <3> QED
      BY ONLY <3>2, <3>3
  <2>2. CASE it[a].head = n /\ it[b].head # n
    <3>1. S = {a}
      BY <2>2
    <3>2. One(it[a].head, n) = 1 /\ One(it[b].head, n) = 0
      BY <2>2 DEF One
    <3>3. Cardinality(S) = 1
      BY ONLY <1>1, <1>4, <3>1
    <3> QED
      BY ONLY <3>2, <3>3
  <2>3. CASE it[a].head # n /\ it[b].head = n
    <3>1. S = {b}
      BY <2>3
    <3>2. One(it[a].head, n) = 0 /\ One(it[b].head, n) = 1
      BY <2>3 DEF One
    <3>3. Cardinality(S) = 1
      BY ONLY <1>1, <1>4, <3>1
    <3> QED
      BY ONLY <3>2, <3>3
  <2>4. CASE it[a].head # n /\ it[b].head # n
    <3>1. S = {}
      BY <2>4
    <3>2. One(it[a].head, n) = 0 /\ One(it[b].head, n) = 0
      BY <2>4 DEF One
    <3>3. Cardinality(S) = 0
      BY ONLY <1>1, <1>4, <3>1
    <3> QED
      BY ONLY <3>2, <3>3
  <2> QED
    BY <2>1, <2>2, <2>3, <2>4
<1> QED
  BY <1>3, <1>4

\* What an iterator refers to has not been deleted.
LEMMA Cloned ==
  ASSUME IInv, NEW x \in Ends, NEW n \in Nodes, One(it[x].head, n) # 0
  PROVE  n \notin freed
<1>1. it[x].head = n
  BY DEF One
<1> QED
  BY <1>1, Referenced DEF IInv

\* The iterator end2 of cut_head is a copy of begin_.
LEMMA CutHeadStep == ASSUME IInv, CutHead PROVE IInv'
<1>0. TypeOK /\ WriterInv /\ ChainInv /\ IterInv /\ PresInv /\ SizeInv /\ RefInv
  BY DEF IInv
<1> DEFINE b == it["begin"]
<1>1. PICK n \in 0 .. Size("begin") :
        /\ rpc = "idle" /\ drop["reader"] = <<>> /\ Present("begin") /\ ~Present("begin2")
        /\ it' = [it EXCEPT !["end2"] = b] /\ AddRefs({"begin"})
        /\ call' = [f |-> "cut", x |-> "end2", n |-> n, has_writer |-> FALSE]
        /\ promised' = promised /\ rpc' = (IF n = 0 THEN "cut" ELSE "look")
        /\ UNCHANGED <<freed, drop, writer, ready>>
  BY DEF CutHead, ReaderAt, Clone, Call
<1>2. {"begin", "end", "begin2", "end2"} = Ends /\ Begins = {"begin", "begin2"}
  BY DEF Ends, Begins
<1>3. b \in IteratorType /\ OnChain(b) /\ it \in [Ends -> IteratorType]
  BY <1>0, <1>2 DEF IterInv, TypeOK
<1> HIDE DEF b
<1>4. /\ it' \in [Ends -> IteratorType] /\ it'["end2"] = b
      /\ \A y \in Ends : y # "end2" => it'[y] = it[y]
  BY ONLY <1>1, <1>2, <1>3
<1>5. \A y \in Ends : OnChain(it'[y])
  BY ONLY <1>0, <1>3, <1>4 DEF IterInv
<1>6. call.f = "none" /\ it["end2"].from = Null /\ it["end2"].head = Null
  <2>1. call.f = "none" /\ it["end2"].from = Null
    BY ONLY <1>0, <1>1 DEF PresInv, Present
  <2> QED
    BY ONLY <1>0, <1>2, <2>1 DEF IterInv, OnChain
<1>7. n \in Nat /\ n <= Size("begin")
  <2>1. Size("begin") \in Int
    BY <1>0, <1>2, IterTypes DEF Size, EndOf
  <2> QED
    BY ONLY <1>1, <2>1
<1>8. /\ call' \in [f : DOMAIN After \cup {"none", "read"}, x : Ends, n : Nat, has_writer : BOOLEAN]
      /\ call'.f = "cut" /\ call'.x = "end2" /\ call'.n = n
  BY ONLY <1>1, <1>2, <1>7 DEF After
<1>9. SameChain /\ \A m \in Nodes : nodes'[m].ref_cnt = nodes[m].ref_cnt + One(b.head, m)
  <2> DEFINE c == [m \in Nodes |-> Cardinality({x \in {"begin"} : it[x].head = m})]
  <2>1. \A m \in Nodes : c[m] = One(b.head, m)
    BY <1>2, Copies DEF b
  <2>2. \A m \in Nodes : c[m] \in Nat
    <3>1. \A m : One(b.head, m) \in Nat
      BY DEF One
    <3> QED
      BY ONLY <2>1, <3>1
  <2>3. nodes' = [m \in DOMAIN nodes |-> [nodes[m] EXCEPT !.ref_cnt = @ + c[m]]]
    <3>1. DOMAIN nodes = Nodes
      BY <1>0, LenProperties DEF TypeOK, Nodes
    <3> QED
      BY <1>1, <3>1 DEF AddRefs
  <2> HIDE DEF c
  <2>4. SameChain /\ \A m \in Nodes : nodes'[m].ref_cnt = nodes[m].ref_cnt + c[m]
    BY ONLY <1>0, <2>2, <2>3, Counted
  <2> QED
    BY ONLY <2>1, <2>4
<1>10. TypeOK' /\ WriterInv' /\ ChainInv' /\ IterInv' /\ LocalInv'
  <2>1. drop' \in [Threads -> Seq(Nodes)] /\ promised' \in Nat
    BY ONLY <1>0, <1>1 DEF TypeOK, Nodes
  <2>2. rpc' \in {"look", "idle", "cut", "gone"} /\ ready' = ready
    BY ONLY <1>1
  <2> QED
    BY <1>1, <1>4, <1>5, <1>8, <1>9, <2>1, <2>2, Replaced DEF writer
<1>11. PresInv'
  <2>1. head_' = head_ /\ promised' = promised
    BY ONLY <1>1 DEF writer
  <2>2. b.from # Null /\ it'["end2"].from # Null
    BY ONLY <1>1, <1>4 DEF Present, b
  <2>3. /\ it'["begin"] = it["begin"] /\ it'["end"] = it["end"] /\ it'["begin2"] = it["begin2"]
    BY ONLY <1>2, <1>4
  <2>4. rpc' \in {"cut", "look"} /\ head_ = Null
    BY ONLY <1>0, <1>1 DEF PresInv
  <2> QED
    BY ONLY <1>0, <1>1, <1>8, <2>1, <2>2, <2>3, <2>4 DEF PresInv, Present, Begins
<1>12. SizeInv'
  <2>1. ready' = 0 /\ written' = written /\ promised' = promised
    BY ONLY <1>0, <1>1 DEF SizeInv, writer
  <2>2. b.pos \in Nat /\ b.lim \in Nat /\ b.pos <= b.lim /\ b.offset \in Nat
    BY ONLY <1>3 DEF IteratorType, OnChain
  <2>3. /\ it'["begin"] = b /\ it'["end"] = it["end"] /\ it'["begin2"] = it["begin2"]
        /\ it'["end2"] = b
    BY ONLY <1>2, <1>4 DEF b
  <2>4. b.offset + n <= it["end"].offset /\ b.offset <= it["end"].offset
    <3>1. it["end"].offset \in Nat /\ Size("begin") = it["end"].offset - b.offset
      BY <1>0, <1>2, IterTypes DEF Size, EndOf, b
    <3> QED
      BY ONLY <1>7, <2>2, <3>1
  <2>5. promised <= written /\ promised <= it["end"].offset
    BY ONLY <1>0, <1>6 DEF SizeInv
  <2>6. \A y \in Begins : Present(y)' => it'[y].offset <= it'[EndOf(y)].offset
    BY ONLY <1>1, <1>2, <2>3, <2>4 DEF EndOf, Present
  <2> QED
    BY ONLY <1>2, <1>8, <2>1, <2>2, <2>3, <2>4, <2>5, <2>6 DEF SizeInv
<1>13. AdvanceComplete'
  BY ONLY <1>1, <1>8 DEF AdvanceComplete
<1>14. RefInv'
  <2>1. \A t \in Threads : Len(drop'[t]) <= 2
    BY ONLY <1>0, <1>1 DEF RefInv
  <2>2. ASSUME NEW m \in Nodes
        PROVE  /\ nodes[m].ref_cnt <= nodes'[m].ref_cnt
               /\ nodes'[m].ref_cnt = nodes[m].ref_cnt \/ m \notin freed
               /\ WriterRefs(m)' + ReaderRefs(m)' - nodes'[m].ref_cnt
                    = WriterRefs(m) + ReaderRefs(m) - nodes[m].ref_cnt
    <3>1. nodes'[m].ref_cnt = nodes[m].ref_cnt + One(b.head, m) /\ nodes[m].ref_cnt \in Nat
      BY ONLY <1>0, <1>9, NodeTypes, m \in Nodes
    <3>2. One(b.head, m) \in {0, 1} /\ One(Null, m) = 0
      BY DEF One, Nodes, Null
    <3>3. WriterRefs(m)' = WriterRefs(m)
      BY ONLY <1>1 DEF WriterRefs, Owed, writer
    <3>4. IterRefs(m)' = IterRefs(m) + One(b.head, m)
      <4>1. IterRefs(m)' = IterRefs(m) - One(it["end2"].head, m) + One(it'["end2"].head, m)
        BY <1>2, <1>4, HeadMoved
      <4>2. IterRefs(m) \in Nat
        BY RefNats
      <4> QED
        BY ONLY <1>4, <1>6, <3>2, <4>1, <4>2
    <3>5. ReaderRefs(m)' = ReaderRefs(m) + One(b.head, m)
      <4>1. One(Owed("reader", 1), m)' = One(Owed("reader", 1), m) /\ One(Owed("reader", 1), m) \in {0, 1}
        BY ONLY <1>1 DEF Owed, One
      <4>2. One(Owed("reader", 2), m)' = One(Owed("reader", 2), m) /\ One(Owed("reader", 2), m) \in {0, 1}
        BY ONLY <1>1 DEF Owed, One
      <4>3. IterRefs(m) \in Nat
        BY RefNats
      <4> QED
        BY ONLY <3>2, <3>4, <4>1, <4>2, <4>3 DEF ReaderRefs
    <3>6. One(b.head, m) = 0 \/ m \notin freed
      BY <1>2, Cloned DEF b
    <3>7. WriterRefs(m) \in Nat /\ ReaderRefs(m) \in Nat
      BY RefNats
    <3> QED
      BY ONLY <3>1, <3>2, <3>3, <3>5, <3>6, <3>7
  <2> QED
    BY ONLY <1>0, <1>1, <1>9, <2>1, <2>2, RefsTaken
<1> QED
  BY <1>10, <1>11, <1>12, <1>13, <1>14 DEF IInv

\* The pointers of one or two readers that go.
LEMMA GivenUp ==
  ASSUME NEW a \in Refs, NEW b \in Refs
  PROVE  /\ DeleteReaderPtr(a) \in Seq(Nodes) /\ Len(DeleteReaderPtr(a)) <= 1
         /\ \/ a = Null /\ DeleteReaderPtr(a) = <<>>
            \/ a # Null /\ DeleteReaderPtr(a) = <<a>>
         /\ DeleteReaderPtr(a) \o DeleteReaderPtr(b) \in Seq(Nodes)
         /\ \/ a = Null /\ b = Null /\ DeleteReaderPtr(a) \o DeleteReaderPtr(b) = <<>>
            \/ a # Null /\ b = Null /\ DeleteReaderPtr(a) \o DeleteReaderPtr(b) = <<a>>
            \/ a = Null /\ b # Null /\ DeleteReaderPtr(a) \o DeleteReaderPtr(b) = <<b>>
            \/ a # Null /\ b # Null /\ DeleteReaderPtr(a) \o DeleteReaderPtr(b) = <<a, b>>
<1>1. \A n \in Refs : n # Null => n \in Nodes
  BY DEF Refs, Nodes, Null
<1>2. \A n \in Nodes : <<n>> \in Seq(Nodes) /\ Len(<<n>>) = 1
  OBVIOUS
<1>3. \A n \in Refs : \/ n = Null /\ DeleteReaderPtr(n) = <<>>
                      \/ n # Null /\ DeleteReaderPtr(n) = <<n>>
  BY DEF DeleteReaderPtr
<1>4. \A n \in Refs : DeleteReaderPtr(n) \in Seq(Nodes) /\ Len(DeleteReaderPtr(n)) <= 1
  <2> TAKE n \in Refs
  <2>1. CASE n = Null
    <3>1. DeleteReaderPtr(n) = <<>>
      BY <2>1 DEF DeleteReaderPtr
    <3> QED
      BY ONLY <3>1
  <2>2. CASE n # Null
    <3>1. DeleteReaderPtr(n) = <<n>> /\ n \in Nodes
      BY <1>1, <2>2 DEF DeleteReaderPtr
    <3> QED
      BY ONLY <1>2, <3>1
  <2> QED
    BY <2>1, <2>2
<1>5. DeleteReaderPtr(a) \o DeleteReaderPtr(b) \in Seq(Nodes)
  BY <1>4, ConcatProperties
<1>6. <<>> \o <<>> = <<>> /\ <<a>> \o <<>> = <<a>> /\ <<>> \o <<b>> = <<b>>
  BY <1>2, ConcatEmptySeq
<1>7. <<a>> \o <<b>> = <<a, b>>
  <2> DEFINE s == <<a>> \o <<b>>
             S == {a, b}
  <2>1. <<a>> \in Seq(S) /\ <<b>> \in Seq(S) /\ Len(<<a>>) = 1 /\ Len(<<b>>) = 1
    OBVIOUS
  <2>2. s \in Seq(S) /\ Len(s) = 2 /\ \A i \in 1 .. 2 : s[i] = IF i <= 1 THEN <<a>>[i] ELSE <<b>>[i - 1]
    BY ONLY <2>1, ConcatProperties
  <2> HIDE DEF s
  <2>3. s[1] = a /\ s[2] = b
    BY ONLY <2>2
  <2>4. <<a, b>> \in Seq(S) /\ Len(<<a, b>>) = 2 /\ <<a, b>>[1] = a /\ <<a, b>>[2] = b
    BY DEF S
  <2>5. s = <<a, b>>
    BY ONLY <2>2, <2>3, <2>4, SeqEqual
  <2> QED
    BY <2>5 DEF s
<1> QED
  BY <1>3, <1>4, <1>5, <1>6, <1>7

\* begin2 is a copy of begin_, and begin_ one of end2.
LEMMA CutDoneStep == ASSUME IInv, CutDone PROVE IInv'
<1>0. TypeOK /\ WriterInv /\ ChainInv /\ IterInv /\ PresInv /\ SizeInv /\ AdvanceComplete /\ RefInv
  BY DEF IInv
<1> DEFINE b == it["begin"]
           e == it["end2"]
<1>1. /\ rpc = "cut" /\ drop["reader"] = <<>>
      /\ it' = [it EXCEPT !["begin2"] = b, !["begin"] = e] /\ AddRefs({"begin", "end2"})
      /\ drop' = [drop EXCEPT !["reader"] = DeleteReaderPtr(b.head)]
      /\ call' = NoCall(call.n) /\ promised' = promised /\ rpc' = "idle"
      /\ UNCHANGED <<freed, writer, ready>>
  BY DEF CutDone, ReaderAt, Clone
<1>2. {"begin", "end", "begin2", "end2"} = Ends /\ Begins = {"begin", "begin2"}
  BY DEF Ends, Begins
<1>3. /\ b \in IteratorType /\ OnChain(b) /\ e \in IteratorType /\ OnChain(e)
      /\ it \in [Ends -> IteratorType]
  BY <1>0, <1>2 DEF IterInv, TypeOK
<1>4. /\ call.f = "cut" /\ call.x = "end2" /\ call.n = 0
      /\ Present("begin") /\ Present("end") /\ Present("end2") /\ ~Present("begin2")
  BY ONLY <1>0, <1>1 DEF PresInv, AdvanceComplete
<1>5. b.head \in Refs /\ b.from # Null /\ e.from # Null /\ it["begin2"].head = Null
  <2>1. b.from # Null /\ e.from # Null /\ it["begin2"].from = Null
    BY <1>4 DEF Present
  <2>2. b.head \in Refs
    BY <1>0, <1>2, IterTypes
  <2> HIDE DEF b, e
  <2> QED
    BY ONLY <1>0, <1>2, <2>1, <2>2 DEF IterInv, OnChain
<1> HIDE DEF b, e
<1>6. /\ it' \in [Ends -> IteratorType]
      /\ it'["begin"] = e /\ it'["begin2"] = b /\ it'["end"] = it["end"] /\ it'["end2"] = e
  BY ONLY <1>1, <1>2, <1>3 DEF e
<1>7. \A y \in Ends : OnChain(it'[y])
  BY ONLY <1>0, <1>2, <1>3, <1>6 DEF IterInv
<1>8. /\ call' \in [f : DOMAIN After \cup {"none", "read"}, x : Ends, n : Nat, has_writer : BOOLEAN]
      /\ call'.f = "none" /\ call'.x = "end" /\ call'.n = 0
  BY ONLY <1>1, <1>2, <1>4 DEF NoCall
<1>9. /\ SameChain
      /\ \A m \in Nodes : nodes'[m].ref_cnt = nodes[m].ref_cnt + One(b.head, m) + One(e.head, m)
  <2> DEFINE c == [m \in Nodes |-> Cardinality({x \in {"begin", "end2"} : it[x].head = m})]
  <2>1. \A m \in Nodes : c[m] = One(b.head, m) + One(e.head, m)
    <3> SUFFICES ASSUME NEW m \in Nodes
                 PROVE  Cardinality({x \in {"begin", "end2"} : it[x].head = m})
                          = One(b.head, m) + One(e.head, m)
      OBVIOUS
    <3>1. "begin" \in Ends /\ "end2" \in Ends /\ "end2" # "begin"
      BY <1>2
    <3> QED
      BY ONLY <3>1, Copies DEF b, e
  <2>2. \A m : One(b.head, m) \in Nat /\ One(e.head, m) \in Nat
    BY DEF One
  <2>3. nodes' = [m \in DOMAIN nodes |-> [nodes[m] EXCEPT !.ref_cnt = @ + c[m]]]
    <3>1. DOMAIN nodes = Nodes
      BY <1>0, LenProperties DEF TypeOK, Nodes
    <3> QED
      BY <1>1, <3>1 DEF AddRefs
  <2> HIDE DEF c
  <2>4. \A m \in Nodes : c[m] \in Nat
    BY ONLY <2>1, <2>2
  <2>5. SameChain /\ \A m \in Nodes : nodes'[m].ref_cnt = nodes[m].ref_cnt + c[m]
    BY ONLY <1>0, <2>3, <2>4, Counted
  <2>6. \A m \in Nodes : nodes[m].ref_cnt \in Nat
    BY ONLY <1>0, NodeTypes
  <2> QED
    BY ONLY <2>1, <2>2, <2>5, <2>6
<1>10. \/ drop'["reader"] = <<>> /\ b.head = Null
       \/ drop'["reader"] = <<b.head>> /\ b.head # Null /\ b.head \in Nodes
  <2>1. drop'["reader"] = DeleteReaderPtr(b.head)
    BY ONLY <1>0, <1>1 DEF TypeOK, Threads
  <2> QED
    BY ONLY <1>5, <2>1 DEF DeleteReaderPtr, Refs, Nodes, Null
<1>11. TypeOK' /\ WriterInv' /\ ChainInv' /\ IterInv' /\ LocalInv'
  <2>1. DeleteReaderPtr(b.head) \in Seq(Nodes)
    BY ONLY <1>5, GivenUp
  <2>2. drop' \in [Threads -> Seq(Nodes)] /\ promised' \in Nat
    BY ONLY <1>0, <1>1, <2>1 DEF TypeOK, Nodes
  <2>3. rpc' \in {"look", "idle", "cut", "gone"} /\ ready' = ready
    BY ONLY <1>1
  <2> QED
    BY <1>1, <1>6, <1>7, <1>8, <1>9, <2>2, <2>3, Replaced DEF writer
<1>12. PresInv'
  <2>1. head_' = Null /\ rpc' = "idle"
    BY ONLY <1>0, <1>1 DEF writer, PresInv
  <2>2. /\ it'["begin"].from # Null /\ it'["end"].from # Null
        /\ it'["begin2"].from # Null /\ it'["end2"].from # Null
    BY ONLY <1>4, <1>5, <1>6 DEF Present
  <2>3. Present("begin")' /\ Present("end")' /\ Present("begin2")' /\ Present("end2")'
    BY ONLY <2>2 DEF Present
  <2>4. call'.f = "none"
    BY ONLY <1>8
  <2> QED
    BY ONLY <2>1, <2>3, <2>4 DEF PresInv
<1>13. SizeInv'
  <2>1. ready' = 0 /\ written' = written /\ promised' = promised
    BY ONLY <1>0, <1>1 DEF SizeInv, writer
  <2>2. it'["end"].pos \in Nat /\ it'["end"].lim \in Nat /\ it'["end"].pos <= it'["end"].lim
    BY ONLY <1>2, <1>6, <1>7 DEF IteratorType, OnChain
  <2>3. b.offset \in Nat /\ e.offset \in Nat /\ it["end"].offset \in Nat
    BY ONLY <1>2, <1>3 DEF IteratorType
  <2>4. e.offset <= it["end"].offset /\ b.offset <= e.offset
    <3>1. e.offset + 0 <= it["end"].offset /\ b.offset <= e.offset
      BY ONLY <1>0, <1>4 DEF SizeInv, b, e
    <3> QED
      BY ONLY <2>3, <3>1
  <2>5. promised <= written /\ promised <= it["end"].offset
    BY ONLY <1>0, <1>4 DEF SizeInv
  <2>6. \A y \in Begins : it'[y].offset <= it'[EndOf(y)].offset
    BY ONLY <1>2, <1>6, <2>4 DEF EndOf
  <2> QED
    BY ONLY <1>2, <1>6, <1>8, <2>1, <2>2, <2>5, <2>6 DEF SizeInv
<1>14. AdvanceComplete'
  BY ONLY <1>8 DEF AdvanceComplete
<1>15. RefInv'
  <2>1. \A t \in Threads : Len(drop'[t]) <= 2
    <3>1. Len(drop'["reader"]) <= 2
      <4>1. drop'["reader"] = DeleteReaderPtr(b.head)
        BY ONLY <1>0, <1>1 DEF TypeOK, Threads
      <4>2. Len(drop'["reader"]) <= 1 /\ Len(drop'["reader"]) \in Nat
        BY ONLY <1>5, <4>1, GivenUp, LenProperties
      <4> QED
        BY ONLY <4>2
    <3>2. Len(drop'["writer"]) <= 2
      <4>1. drop'["writer"] = drop["writer"]
        BY ONLY <1>0, <1>1 DEF TypeOK, Threads
      <4> QED
        BY ONLY <1>0, <4>1 DEF RefInv, Threads
    <3> QED
      BY ONLY <3>1, <3>2 DEF Threads
  <2>2. /\ Owed("reader", 1) = Null /\ Owed("reader", 2) = Null
        /\ Owed("reader", 1)' = b.head /\ Owed("reader", 2)' = Null
    BY ONLY <1>1, <1>10, OwesNothing, OwedNow
  <2>3. ASSUME NEW m \in Nodes
        PROVE  /\ nodes[m].ref_cnt <= nodes'[m].ref_cnt
               /\ nodes'[m].ref_cnt = nodes[m].ref_cnt \/ m \notin freed
               /\ WriterRefs(m)' + ReaderRefs(m)' - nodes'[m].ref_cnt
                    = WriterRefs(m) + ReaderRefs(m) - nodes[m].ref_cnt
    <3>1. /\ nodes'[m].ref_cnt = nodes[m].ref_cnt + One(b.head, m) + One(e.head, m)
          /\ nodes[m].ref_cnt \in Nat
      BY ONLY <1>0, <1>9, NodeTypes, m \in Nodes
    <3>2. One(b.head, m) \in {0, 1} /\ One(e.head, m) \in {0, 1} /\ One(Null, m) = 0
      BY DEF One, Nodes, Null
    <3>3. WriterRefs(m)' = WriterRefs(m)
      <4>1. drop'["writer"] = drop["writer"]
        BY ONLY <1>0, <1>1 DEF TypeOK, Threads
      <4> QED
        BY ONLY <1>1, <4>1 DEF WriterRefs, Owed, writer
    <3>4. IterRefs(m)' = IterRefs(m) + One(e.head, m)
      <4>1. One(it["begin2"].head, m) = 0
        BY ONLY <1>5, <3>2
      <4>2. IterRefs(m) = One(b.head, m) + One(it["end"].head, m) + 0 + One(e.head, m)
        BY ONLY <4>1 DEF IterRefs, b, e
      <4>3. IterRefs(m)' = One(e.head, m) + One(it["end"].head, m) + One(b.head, m) + One(e.head, m)
        BY ONLY <1>6 DEF IterRefs, One
      <4>4. One(it["end"].head, m) \in {0, 1}
        BY DEF One
      <4> QED
        BY ONLY <3>2, <4>2, <4>3, <4>4
    <3>5. ReaderRefs(m)' = ReaderRefs(m) + One(b.head, m) + One(e.head, m)
      <4>1. ReaderRefs(m) = IterRefs(m) + 0 + 0
        BY ONLY <2>2, <3>2 DEF ReaderRefs
      <4>2. ReaderRefs(m)' = IterRefs(m)' + One(b.head, m) + 0
        BY ONLY <2>2, <3>2 DEF ReaderRefs, One
      <4>3. IterRefs(m) \in Nat
        BY RefNats
      <4> QED
        BY ONLY <3>2, <3>4, <4>1, <4>2, <4>3
    <3>6. (One(b.head, m) = 0 /\ One(e.head, m) = 0) \/ m \notin freed
      BY <1>2, Cloned DEF b, e
    <3>7. WriterRefs(m) \in Nat /\ ReaderRefs(m) \in Nat
      BY RefNats
    <3> QED
      BY ONLY <3>1, <3>2, <3>3, <3>5, <3>6, <3>7
  <2> QED
    BY ONLY <1>0, <1>1, <1>9, <2>1, <2>3, RefsTaken
<1> QED
  BY <1>11, <1>12, <1>13, <1>14, <1>15 DEF IInv

\* A reader goes: end_, then begin_.
LEMMA DestroyStep ==
  ASSUME IInv, NEW x \in Begins, rpc \in {"idle", "drop"}, drop["reader"] = <<>>,
         call.f \in {"none", "move"}, Present(x), Destroy(x)
  PROVE  IInv'
<1>0. TypeOK /\ WriterInv /\ ChainInv /\ IterInv /\ PresInv /\ SizeInv /\ AdvanceComplete /\ RefInv
  BY DEF IInv
<1> DEFINE e == EndOf(x)
           a == it[e].head
           b == it[x].head
           none == IF x = "begin" THEN {"begin", "end"} ELSE {"begin2", "end2"}
<1>1. /\ drop' = [drop EXCEPT !["reader"] = DeleteReaderPtr(a) \o DeleteReaderPtr(b)]
      /\ rpc' = (IF \E y \in Begins \ {x} : Present(y) THEN "idle" ELSE "gone")
      /\ call' = NoCall(call.n) /\ promised' = promised
      /\ UNCHANGED <<nodes, freed, writer, ready>>
  BY DEF Destroy
<1>2. {"begin", "end", "begin2", "end2"} = Ends /\ Begins = {"begin", "begin2"}
  BY DEF Ends, Begins
<1>3. \/ x = "begin" /\ e = "end" /\ none = {"begin", "end"}
      \/ x = "begin2" /\ e = "end2" /\ none = {"begin2", "end2"}
  BY ONLY <1>2, x \in Begins DEF EndOf
<1>4. x \in Ends /\ e \in Ends /\ x # e /\ none = {x, e}
  BY ONLY <1>2, <1>3
<1>5. a \in Refs /\ b \in Refs
  BY <1>0, <1>4, IterTypes
<1>6. \A y \in Ends : it[y] \in IteratorType /\ it[y].offset \in Nat /\ OnChain(it[y])
  BY <1>0, IterTypes DEF IterInv
<1>7. /\ NoIterator \in IteratorType /\ OnChain(NoIterator)
      /\ \A i \in Nat : /\ [NoIterator EXCEPT !.offset = i] \in IteratorType
                        /\ [NoIterator EXCEPT !.offset = i].offset = i
                        /\ [NoIterator EXCEPT !.offset = i].head = Null
                        /\ [NoIterator EXCEPT !.offset = i].from = Null
                        /\ [NoIterator EXCEPT !.offset = i].pos = 0
                        /\ [NoIterator EXCEPT !.offset = i].lim = 0
  BY DEF NoIterator, IteratorType, OnChain, Null
<1>8. NoIterator.from = Null /\ NoIterator.head = Null
  BY DEF NoIterator
<1>9. /\ it' \in [Ends -> IteratorType]
      /\ \A y \in Ends : y \notin none => it'[y] = it[y]
      /\ \A y \in none : OnChain(it'[y]) /\ it'[y].head = Null /\ it'[y].from = Null
      /\ it'["end"].offset = it["end"].offset /\ it'["begin"].offset = it["begin"].offset
  <2>1. it' = [y \in Ends |->
                 IF y \notin none THEN it[y]
                 ELSE [NoIterator EXCEPT !.offset = IF x = "begin" THEN it[y].offset ELSE 0]]
    BY <1>2, <1>3 DEF Destroy
  <2> HIDE DEF none, e
  <2>2. \A y \in Ends : y \notin none => it'[y] = it[y]
    BY ONLY <2>1
  <2>3. none \subseteq Ends
    BY ONLY <1>4
  <2>4. ASSUME NEW y \in none
        PROVE  /\ it'[y] \in IteratorType /\ OnChain(it'[y])
               /\ it'[y].head = Null /\ it'[y].from = Null
               /\ x = "begin" => it'[y].offset = it[y].offset
    <3> DEFINE i == IF x = "begin" THEN it[y].offset ELSE 0
    <3>1. it'[y] = [NoIterator EXCEPT !.offset = i]
      BY ONLY <2>1, <2>3, <2>4
    <3>2. i \in Nat
      BY ONLY <1>6, <2>3, <2>4
    <3>3. x = "begin" => i = it[y].offset
      OBVIOUS
    <3> HIDE DEF i
    <3>4. /\ it'[y] \in IteratorType /\ it'[y].head = Null /\ it'[y].from = Null
          /\ it'[y].pos = 0 /\ it'[y].lim = 0 /\ it'[y].offset = i
      BY ONLY <1>7, <3>1, <3>2
    <3> QED
      BY ONLY <3>3, <3>4 DEF OnChain
  <2>5. it' = [y \in Ends |-> it'[y]]
    BY ONLY <2>1
  <2>6. \A y \in Ends : it'[y] \in IteratorType
    BY ONLY <1>6, <2>2, <2>4
  <2>7. it' \in [Ends -> IteratorType]
    BY ONLY <2>5, <2>6
  <2>8. it'["end"].offset = it["end"].offset /\ it'["begin"].offset = it["begin"].offset
    BY ONLY <1>2, <1>3, <2>2, <2>4
  <2> QED
    BY ONLY <2>2, <2>4, <2>7, <2>8
<1> HIDE DEF e, a, b, none
<1>10. \A y \in Ends : OnChain(it'[y])
  BY ONLY <1>6, <1>9
<1>11. /\ call' \in [f : DOMAIN After \cup {"none", "read"}, x : Ends, n : Nat, has_writer : BOOLEAN]
       /\ call'.f = "none" /\ call'.x = "end" /\ call'.n = 0
  <2>1. call.n = 0
    BY ONLY <1>0, rpc \in {"idle", "drop"} DEF AdvanceComplete
  <2> QED
    BY ONLY <1>1, <1>2, <2>1 DEF NoCall
<1>12. SameChain
  BY ONLY <1>0, <1>1 DEF SameChain, TypeOK
<1>13. TypeOK' /\ WriterInv' /\ ChainInv' /\ IterInv' /\ LocalInv'
  <2>1. DeleteReaderPtr(a) \o DeleteReaderPtr(b) \in Seq(Nodes)
    BY ONLY <1>5, GivenUp
  <2>2. drop' \in [Threads -> Seq(Nodes)] /\ promised' \in Nat
    BY ONLY <1>0, <1>1, <2>1 DEF TypeOK, Nodes
  <2>3. rpc' \in {"look", "idle", "cut", "gone"} /\ ready' = ready
    BY ONLY <1>1
  <2> QED
    BY <1>1, <1>9, <1>10, <1>11, <1>12, <2>2, <2>3, Replaced DEF writer
<1>14. PresInv'
  <2>1. head_' = Null /\ rpc' \in {"idle", "gone"}
    BY ONLY <1>0, <1>1, rpc \in {"idle", "drop"} DEF writer, PresInv
  <2>2. \A y \in Ends : (it'[y].from # Null) <=> (y \notin none /\ it[y].from # Null)
    BY ONLY <1>9
  <2>3. /\ it["begin"].from # Null <=> it["end"].from # Null
        /\ it["begin2"].from # Null <=> it["end2"].from # Null
    BY ONLY <1>0, call.f \in {"none", "move"} DEF PresInv, Present
  <2>4. /\ it'["begin"].from # Null <=> it'["end"].from # Null
        /\ it'["begin2"].from # Null <=> it'["end2"].from # Null
    BY ONLY <1>2, <1>3, <2>2, <2>3
  <2>5. rpc' = "gone" => \A y \in Ends : it'[y].from = Null
    <3> SUFFICES ASSUME rpc' = "gone" PROVE \A y \in Ends : it'[y].from = Null
      OBVIOUS
    <3>1. \A y \in Begins \ {x} : it[y].from = Null
      BY ONLY <1>1, rpc' = "gone" DEF Present
    <3>2. \A y \in Begins : it'[y].from = Null
      BY ONLY <1>2, <1>3, <2>2, <3>1
    <3> QED
      BY ONLY <1>2, <2>4, <3>2
  <2> QED
    BY ONLY <1>11, <2>1, <2>4, <2>5 DEF PresInv, Present
<1>15. SizeInv'
  <2>1. ready' = 0 /\ written' = written /\ promised' = promised
    BY ONLY <1>0, <1>1, rpc \in {"idle", "drop"} DEF SizeInv, writer
  <2>2. it'["end"].pos \in Nat /\ it'["end"].lim \in Nat /\ it'["end"].pos <= it'["end"].lim
    BY ONLY <1>2, <1>9, <1>10 DEF IteratorType, OnChain
  <2>3. promised <= written /\ promised <= it["end"].offset
    BY ONLY <1>0, call.f \in {"none", "move"} DEF SizeInv
  <2>4. \A y \in Begins : Present(y)' => it'[y].offset <= it'[EndOf(y)].offset
    <3> SUFFICES ASSUME NEW y \in Begins, it'[y].from # Null
                 PROVE  it'[y].offset <= it'[EndOf(y)].offset
      BY DEF Present
    <3>1. y \notin none /\ EndOf(y) \notin none /\ y \in Ends /\ EndOf(y) \in Ends
      BY ONLY <1>2, <1>3, <1>9, y \in Begins, it'[y].from # Null DEF EndOf
    <3>2. it'[y] = it[y] /\ it'[EndOf(y)] = it[EndOf(y)]
      BY ONLY <1>9, <3>1
    <3>3. Present(y)
      BY ONLY <3>2, it'[y].from # Null DEF Present
    <3> QED
      BY ONLY <1>0, y \in Begins, <3>2, <3>3 DEF SizeInv
  <2> QED
    BY ONLY <1>2, <1>9, <1>11, <2>1, <2>2, <2>3, <2>4 DEF SizeInv
<1>16. AdvanceComplete'
  BY ONLY <1>11 DEF AdvanceComplete
<1>17. RefInv'
  <2>1. \/ a = Null /\ b = Null /\ drop'["reader"] = <<>>
        \/ a # Null /\ b = Null /\ drop'["reader"] = <<a>>
        \/ a = Null /\ b # Null /\ drop'["reader"] = <<b>>
        \/ a # Null /\ b # Null /\ drop'["reader"] = <<a, b>>
    <3>1. drop'["reader"] = DeleteReaderPtr(a) \o DeleteReaderPtr(b)
      BY ONLY <1>0, <1>1 DEF TypeOK, Threads
    <3> QED
      BY ONLY <1>5, <3>1, GivenUp
  <2>2. drop'["writer"] = drop["writer"]
    BY ONLY <1>0, <1>1 DEF TypeOK, Threads
  <2>3. \A t \in Threads : Len(drop'[t]) <= 2
    <3>1. Len(drop'["reader"]) <= 2
      <4>1. \A c, d : Len(<<>>) <= 2 /\ Len(<<c>>) <= 2 /\ Len(<<c, d>>) <= 2
        OBVIOUS
      <4> QED
        BY ONLY <2>1, <4>1
    <3>2. Len(drop'["writer"]) <= 2
      BY ONLY <1>0, <2>2 DEF RefInv, Threads
    <3> QED
      BY ONLY <3>1, <3>2 DEF Threads
  <2>4. \/ Owed("reader", 1)' = a /\ Owed("reader", 2)' = b
        \/ Owed("reader", 1)' = b /\ Owed("reader", 2)' = a
    BY ONLY <2>1, OwedNow
  <2>5. Owed("reader", 1) = Null /\ Owed("reader", 2) = Null
    BY ONLY drop["reader"] = <<>>, OwesNothing
  <2>6. ASSUME NEW m \in Nodes
        PROVE  WriterRefs(m)' + ReaderRefs(m)' = WriterRefs(m) + ReaderRefs(m)
    <3>1. WriterRefs(m)' = WriterRefs(m)
      BY ONLY <1>1, <2>2 DEF WriterRefs, Owed, writer
    <3>2. One(Null, m) = 0 /\ \A c, d : One(c, d) \in {0, 1}
      BY DEF One, Nodes, Null
    <3>3. IterRefs(m)' = IterRefs(m) - One(a, m) - One(b, m)
      <4>1. IterRefs(m)' = One(it'["begin"].head, m) + One(it'["end"].head, m)
                            + One(it'["begin2"].head, m) + One(it'["end2"].head, m)
        BY DEF IterRefs, One
      <4>2. CASE x = "begin"
        <5>1. One(it'["begin"].head, m) = 0 /\ One(it'["end"].head, m) = 0
          BY ONLY <1>3, <1>9, <3>2, <4>2
        <5>2. it'["begin2"] = it["begin2"] /\ it'["end2"] = it["end2"]
          BY ONLY <1>2, <1>3, <1>9, <4>2
        <5>3. a = it["end"].head /\ b = it["begin"].head
          BY ONLY <1>3, <4>2 DEF a, b
        <5> QED
          BY ONLY <3>2, <4>1, <5>1, <5>2, <5>3 DEF IterRefs
      <4>3. CASE x # "begin"
        <5>1. One(it'["begin2"].head, m) = 0 /\ One(it'["end2"].head, m) = 0
          BY ONLY <1>3, <1>9, <3>2, <4>3
        <5>2. it'["begin"] = it["begin"] /\ it'["end"] = it["end"]
          BY ONLY <1>2, <1>3, <1>9, <4>3
        <5>3. a = it["end2"].head /\ b = it["begin2"].head
          BY ONLY <1>3, <4>3 DEF a, b
        <5> QED
          BY ONLY <3>2, <4>1, <5>1, <5>2, <5>3 DEF IterRefs
      <4> QED
        BY ONLY <4>2, <4>3
    <3>4. ReaderRefs(m) = IterRefs(m) + 0 + 0
      BY ONLY <2>5, <3>2 DEF ReaderRefs
    <3>5. \/ ReaderRefs(m)' = IterRefs(m)' + One(a, m) + One(b, m)
          \/ ReaderRefs(m)' = IterRefs(m)' + One(b, m) + One(a, m)
      BY ONLY <2>4 DEF ReaderRefs, One
    <3>6. IterRefs(m) \in Nat /\ WriterRefs(m) \in Nat /\ One(a, m) \in Nat /\ One(b, m) \in Nat
      BY ONLY <3>2, RefNats
    <3> QED
      BY ONLY <3>1, <3>3, <3>4, <3>5, <3>6
  <2>7. Len(nodes) \in Nat /\ Len(nodes') = Len(nodes)
    BY ONLY <1>0, <1>1, NodeTypes
  <2>8. \A m \in Nodes : nodes'[m].ref_cnt = nodes[m].ref_cnt /\ nodes'[m].next = nodes[m].next
    BY ONLY <1>1
  <2> QED
    BY ONLY <1>0, <1>1, <2>3, <2>6, <2>7, <2>8, RefsMoved
<1> QED
  BY <1>13, <1>14, <1>15, <1>16, <1>17 DEF IInv

\* The reader of a chain is extracted at its start.
LEMMA ExtractReaderStep == ASSUME IInv, ExtractReader PROVE IInv'
<1>0. TypeOK /\ WriterInv /\ ChainInv /\ IterInv /\ PresInv /\ SizeInv /\ RefInv
  BY DEF IInv
<1> DEFINE r == Iterator(1, 0)
<1>1. /\ rpc = "none" /\ rpc' = "look" /\ wpc = "idle" /\ head_ # Null
      /\ nodes' = [nodes EXCEPT ![head_].ref_cnt = @ + 1]
      /\ it' = [x \in Ends |-> IF x \in {"begin", "end"} THEN Iterator(head_, 0) ELSE NoIterator]
      /\ head_' = Null
      /\ call' = [f |-> "sync", x |-> "end", n |-> 0, has_writer |-> FALSE] /\ promised' = written
      /\ UNCHANGED <<freed, drop, tail_, wpc, want, fresh, written, ready>>
  BY DEF ExtractReader, WriterAt, Call
<1>2. {"begin", "end", "begin2", "end2"} = Ends /\ Begins = {"begin", "begin2"}
  BY DEF Ends, Begins
<1>3. /\ head_ = 1 /\ 1 \in Nodes /\ 1 <= W /\ Len(nodes) \in Nat /\ nodes[1] \in NodeType
      /\ nodes[1].first = 0 /\ nodes[1].len \in Nat /\ nodes[1].sync \in BOOLEAN
      /\ nodes[1].ref_cnt \in Nat
  <2>1. head_ = 1 /\ Len(nodes) >= 1 /\ tail_ = Len(nodes) /\ Len(nodes) \in Nat
    BY ONLY <1>0, <1>1, NodeTypes DEF WriterInv
  <2>2. 1 \in Nodes /\ 1 <= W
    BY ONLY <1>1, <2>1 DEF Nodes, W
  <2> QED
    BY ONLY <1>0, <2>1, <2>2, NodeTypes DEF ChainInv
<1>4. /\ r \in IteratorType /\ r.head = 1 /\ r.from = 1 /\ r.pos = 0 /\ r.offset = 0
      /\ r.lim = (IF nodes[1].sync THEN 0 ELSE nodes[1].len) /\ r.need_sync = nodes[1].sync
  BY ONLY <1>3 DEF Iterator, IteratorType
<1> HIDE DEF r
<1>5. r.lim \in Nat /\ OnChain(r)
  <2>1. r.lim \in Nat /\ r.lim <= nodes[1].len /\ (~nodes[1].sync => r.lim = nodes[1].len)
    BY ONLY <1>3, <1>4
  <2> QED
    BY ONLY <1>3, <1>4, <2>1 DEF OnChain, Null
<1>6. /\ NoIterator \in IteratorType /\ OnChain(NoIterator)
      /\ NoIterator.from = Null /\ NoIterator.head = Null
  BY DEF NoIterator, IteratorType, OnChain, Null
<1>7. /\ it' \in [Ends -> IteratorType]
      /\ it'["begin"] = r /\ it'["end"] = r /\ it'["begin2"] = NoIterator /\ it'["end2"] = NoIterator
  <2>1. it' = [x \in Ends |-> IF x \in {"begin", "end"} THEN r ELSE NoIterator]
    BY ONLY <1>1, <1>3 DEF r
  <2> QED
    BY ONLY <1>2, <1>4, <1>6, <2>1
<1>8. \A y \in Ends : OnChain(it'[y])
  BY ONLY <1>2, <1>5, <1>6, <1>7
<1>9. /\ call' \in [f : DOMAIN After \cup {"none", "read"}, x : Ends, n : Nat, has_writer : BOOLEAN]
      /\ call'.f = "sync" /\ call'.x = "end" /\ call'.n = 0
  BY ONLY <1>1, <1>2 DEF After
<1>10. SameChain /\ \A m \in Nodes : nodes'[m].ref_cnt = nodes[m].ref_cnt + One(1, m)
  <2> DEFINE a == [nodes[1] EXCEPT !.ref_cnt = nodes[1].ref_cnt + 1]
  <2>1. nodes' = [nodes EXCEPT ![1] = a]
    BY <1>1, <1>3
  <2>2. nodes[1].ref_cnt + 1 \in Nat
    BY ONLY <1>3
  <2>3. /\ a \in NodeType /\ a.ref_cnt = nodes[1].ref_cnt + 1
        /\ a.first = nodes[1].first /\ a.len = nodes[1].len /\ a.cap = nodes[1].cap
        /\ a.sync = nodes[1].sync /\ a.next = nodes[1].next
        /\ a.has_writer = nodes[1].has_writer
    BY ONLY <1>3, <2>2, SetRefCnt
  <2> HIDE DEF a
  <2>4. /\ nodes' \in Seq(NodeType) /\ Len(nodes') = Len(nodes)
        /\ nodes'[1] = a /\ \A m \in Nodes : m # 1 => nodes'[m] = nodes[m]
    BY ONLY <1>0, <1>3, <2>1, <2>3, StoreNode
  <2>5. SameChain
    BY ONLY <2>3, <2>4 DEF SameChain
  <2>6. \A m \in Nodes : nodes[m].ref_cnt \in Nat
    BY ONLY <1>0, NodeTypes
  <2>7. \A m \in Nodes : nodes'[m].ref_cnt = nodes[m].ref_cnt + One(1, m)
    BY ONLY <2>3, <2>4, <2>6 DEF One
  <2> QED
    BY ONLY <2>5, <2>7
<1>11. TypeOK' /\ WriterInv' /\ ChainInv' /\ IterInv' /\ LocalInv'
  <2>1. drop' \in [Threads -> Seq(Nodes)] /\ promised' \in Nat
    BY ONLY <1>0, <1>1 DEF TypeOK, Nodes
  <2>2. rpc' \in {"look", "idle", "cut", "gone"} /\ ready' = ready /\ head_' \in {Null, head_}
    BY ONLY <1>1
  <2> QED
    BY <1>1, <1>7, <1>8, <1>9, <1>10, <2>1, <2>2, Replaced
<1>12. PresInv'
  BY ONLY <1>1, <1>4, <1>6, <1>7, <1>9 DEF PresInv, Present, Null, Begins
<1>13. SizeInv'
  <2>1. ready' = 0 /\ written' = written /\ promised' = written /\ written \in Nat
    BY ONLY <1>0, <1>1 DEF SizeInv, TypeOK
  <2>2. \A y \in Begins : Present(y)' => it'[y].offset <= it'[EndOf(y)].offset
    BY ONLY <1>2, <1>4, <1>6, <1>7 DEF Present, EndOf
  <2>3. ready' <= it'["end"].lim - it'["end"].pos
    BY ONLY <1>4, <1>5, <1>7, <2>1
  <2> QED
    BY ONLY <1>2, <1>9, <2>1, <2>2, <2>3 DEF SizeInv
<1>14. AdvanceComplete'
  BY ONLY <1>1 DEF AdvanceComplete
<1>15. RefInv'
  <2>1. \A t \in Threads : Len(drop'[t]) <= 2
    BY ONLY <1>0, <1>1 DEF RefInv
  <2>2. \A y \in Ends : it[y].head = Null
    BY ONLY <1>0, <1>1 DEF PresInv, Present, IterInv, OnChain
  <2>3. ASSUME NEW m \in Nodes
        PROVE  /\ nodes[m].ref_cnt <= nodes'[m].ref_cnt
               /\ nodes'[m].ref_cnt = nodes[m].ref_cnt \/ m \notin freed
               /\ WriterRefs(m)' + ReaderRefs(m)' - nodes'[m].ref_cnt
                    = WriterRefs(m) + ReaderRefs(m) - nodes[m].ref_cnt
    <3>1. nodes'[m].ref_cnt = nodes[m].ref_cnt + One(1, m) /\ nodes[m].ref_cnt \in Nat
      BY ONLY <1>0, <1>10, NodeTypes, m \in Nodes
    <3>2. One(Null, m) = 0 /\ \A c, d : One(c, d) \in {0, 1}
      BY DEF One, Nodes, Null
    <3>3. \A t : One(Owed(t, 1), m)' = One(Owed(t, 1), m) /\ One(Owed(t, 2), m)' = One(Owed(t, 2), m)
      BY ONLY <1>1 DEF Owed, One
    <3>4. WriterRefs(m)' = WriterRefs(m) - One(1, m)
      <4>1. One(head_, m) = One(1, m) /\ One(head_, m)' = 0
        BY ONLY <1>1, <1>3, <3>2 DEF One
      <4>2. One(tail_, m)' = One(tail_, m) /\ One(fresh, m)' = One(fresh, m)
        BY ONLY <1>1 DEF One
      <4> QED
        BY ONLY <3>2, <3>3, <4>1, <4>2 DEF WriterRefs
    <3>5. IterRefs(m) = 0 /\ IterRefs(m)' = One(1, m) + One(1, m)
      <4>1. IterRefs(m) = 0
        BY ONLY <1>2, <2>2, <3>2 DEF IterRefs
      <4>2. /\ it'["begin"].head = 1 /\ it'["end"].head = 1
            /\ it'["begin2"].head = Null /\ it'["end2"].head = Null
        BY ONLY <1>4, <1>6, <1>7
      <4>3. IterRefs(m)' = One(1, m) + One(1, m) + One(Null, m) + One(Null, m)
        BY ONLY <4>2 DEF IterRefs, One
      <4> QED
        BY ONLY <3>2, <4>1, <4>3
    <3>6. ReaderRefs(m)' = ReaderRefs(m) + One(1, m) + One(1, m)
      BY ONLY <3>2, <3>3, <3>5 DEF ReaderRefs
    <3>7. One(1, m) = 0 \/ m \notin freed
      <4> SUFFICES ASSUME One(1, m) # 0 PROVE m \notin freed
        OBVIOUS
      <4>1. head_ = m
        BY ONLY <1>3, One(1, m) # 0 DEF One
      <4> QED
        BY ONLY <1>0, <4>1, m \in Nodes, Referenced
    <3>8. WriterRefs(m) \in Nat /\ ReaderRefs(m) \in Nat
      BY RefNats
    <3> QED
      BY ONLY <3>1, <3>2, <3>4, <3>6, <3>7, <3>8
  <2> QED
    BY ONLY <1>0, <1>1, <1>10, <2>1, <2>3, RefsTaken
<1> QED
  BY <1>11, <1>12, <1>13, <1>14, <1>15 DEF IInv

-----------------------------------------------------------------------------
(* The invariant holds in every reachable state.                           *)

LEMMA InitInv == Init => IInv
<1> SUFFICES ASSUME Init PROVE IInv
  OBVIOUS
<1>0. {"begin", "end", "begin2", "end2"} = Ends /\ Begins = {"begin", "begin2"}
  BY DEF Ends, Begins
<1> DEFINE a == [Node(0, 0, InitCapacity, TRUE) EXCEPT !.ref_cnt = 2]
<1>1. /\ a \in NodeType /\ a.first = 0 /\ a.len = 0 /\ a.cap = InitCapacity /\ a.sync = TRUE
      /\ a.next = Null /\ a.has_writer = TRUE /\ a.ref_cnt = 2 /\ InitCapacity \in Nat
  BY ChainAssumption DEF NodeType, Node, Null
<1>2. nodes = <<a>>
  BY DEF Init
<1> HIDE DEF a
<1>3. nodes \in Seq(NodeType) /\ Len(nodes) = 1 /\ nodes[1] = a
  BY ONLY <1>1, <1>2
<1>4. /\ freed = {} /\ drop = [t \in Threads |-> <<>>]
      /\ head_ = 1 /\ tail_ = 1 /\ wpc = "idle" /\ want = 0 /\ fresh = Null /\ written = 0
      /\ it = [x \in Ends |-> NoIterator]
      /\ rpc = "none" /\ call = NoCall(0) /\ ready = 0 /\ promised = 0
  BY DEF Init, Threads
<1>5. Nodes = {1} /\ Refs = {0, 1} /\ W = 1 /\ Last = 1
  BY ONLY <1>3, <1>4 DEF Nodes, Refs, W, Last
<1>6. /\ NoIterator \in IteratorType /\ OnChain(NoIterator)
      /\ NoIterator.from = Null /\ NoIterator.head = Null /\ NoIterator.offset = 0
      /\ NoIterator.pos = 0 /\ NoIterator.lim = 0
  BY DEF NoIterator, IteratorType, OnChain, Null
<1>7. it \in [Ends -> IteratorType] /\ \A x \in Ends : it[x] = NoIterator
  BY ONLY <1>4, <1>6
<1>8. /\ call.f = "none" /\ call.x = "end" /\ call.n = 0
      /\ call \in [f : DOMAIN After \cup {"none", "read"}, x : Ends, n : Nat, has_writer : BOOLEAN]
  BY ONLY <1>0, <1>4 DEF NoCall
<1>9. TypeOK
  <2>1. drop \in [Threads -> Seq(1 .. Len(nodes))]
    BY ONLY <1>4
  <2>2. freed \subseteq 1 .. Len(nodes) /\ \A n \in 1 .. Len(nodes) : nodes[n].next \in Refs
    BY ONLY <1>1, <1>3, <1>4, <1>5 DEF Nodes, Null
  <2>3. {head_, tail_, fresh} \subseteq Refs
    BY ONLY <1>4, <1>5 DEF Null
  <2>4. \A x \in Ends : {it[x].head, it[x].from} \subseteq Refs
    BY ONLY <1>5, <1>6, <1>7 DEF Null
  <2>5. want \in Nat /\ written \in Nat /\ ready \in Nat /\ promised \in Nat
    BY ONLY <1>4
  <2> QED
    BY ONLY <1>3, <1>4, <1>7, <1>8, <2>1, <2>2, <2>3, <2>4, <2>5 DEF TypeOK
<1>10. WriterInv
  BY ONLY <1>1, <1>3, <1>4, <1>5 DEF WriterInv, End, Null
<1>11. ChainInv
  BY ONLY <1>1, <1>3, <1>4, <1>5 DEF ChainInv, End, Null
<1>12. IterInv
  BY ONLY <1>6, <1>7 DEF IterInv
<1>13. PresInv
  BY ONLY <1>0, <1>4, <1>6, <1>7, <1>8 DEF PresInv, Present
<1>14. LocalInv
  BY ONLY <1>4 DEF LocalInv
<1>15. SizeInv
  BY ONLY <1>0, <1>4, <1>6, <1>7, <1>8 DEF SizeInv, Present
<1>16. AdvanceComplete
  BY ONLY <1>4 DEF AdvanceComplete
<1>17. RefInv
  <2>1. \A t \in Threads : Len(drop[t]) <= 2
    BY ONLY <1>4
  <2>2. /\ Owed("writer", 1) = Null /\ Owed("writer", 2) = Null
        /\ Owed("reader", 1) = Null /\ Owed("reader", 2) = Null
    BY <1>4, OwesNothing DEF Threads
  <2>3. WriterRefs(1) = 2
    BY ONLY <1>4, <2>2 DEF WriterRefs, One, Null
  <2>4. ReaderRefs(1) = 0
    BY ONLY <1>0, <1>6, <1>7, <2>2 DEF ReaderRefs, IterRefs, One, Null
  <2>5. NextRefs(1) = 0
    BY DEF NextRefs
  <2>6. \A n \in Nodes :
          /\ nodes[n].ref_cnt = WriterRefs(n) + ReaderRefs(n) + NextRefs(n)
          /\ n \in freed <=> nodes[n].ref_cnt = 0
    BY ONLY <1>1, <1>3, <1>4, <1>5, <2>3, <2>4, <2>5
  <2>7. freed = 1 .. 0 /\ 0 \in 0 .. Len(nodes)
    BY ONLY <1>3, <1>4
  <2> QED
    BY ONLY <2>1, <2>6, <2>7 DEF RefInv
<1> QED
  BY ONLY <1>9, <1>10, <1>11, <1>12, <1>13, <1>14, <1>15, <1>16, <1>17 DEF IInv

\* A reader's size is a number, that of what its iterators are apart.
LEMMA SizeNat ==
  ASSUME IInv, NEW x \in Begins, Present(x)
  PROVE  Size(x) \in Nat
<1>1. x \in Ends /\ EndOf(x) \in Ends
  BY DEF EndOf, Begins, Ends
<1>2. it[x].offset \in Nat /\ it[EndOf(x)].offset \in Nat
  BY <1>1, IterTypes DEF IInv
<1>3. it[x].offset <= it[EndOf(x)].offset
  BY DEF IInv, SizeInv
<1> QED
  BY ONLY <1>2, <1>3 DEF Size

LEMMA WriterStep == ASSUME IInv, Writer PROVE IInv'
BY AppendSliceStep, AppendBufferSliceStep, AppendAtLeastStep, ConfirmAppendStep, AllocStep,
   LinkStep, ReleaseStep, CloseStep, DropStep DEF Writer, Threads

LEMMA ReaderStep == ASSUME IInv, Reader PROVE IInv'
<1>1. CASE ExtractReader
  BY <1>1, ExtractReaderStep
<1>2. CASE SyncWithWriter
  BY <1>2, StartStep DEF SyncWithWriter
<1>3. CASE CutHead
  BY <1>3, CutHeadStep
<1>4. CASE InCall
  <2>1. CASE Look \/ LoadHasWriter \/ SyncSlice \/ NextNode \/ ConfirmRead \/ CutDone
    BY <2>1, LookStep, LoadHasWriterStep, SyncSliceStep, NextNodeStep, ConfirmReadStep, CutDoneStep
  <2>2. CASE MoveDone
    <3>1. rpc = "drop" /\ drop["reader"] = <<>> /\ Destroy(call.x)
      BY <2>2 DEF MoveDone, ReaderAt
    <3>2. call.f = "move" /\ call.x \in Begins /\ Present(call.x)
      BY <3>1 DEF IInv, PresInv
    <3> QED
      BY <3>1, <3>2, DestroyStep
  <2>3. CASE Drop("reader")
    BY <2>3, DropStep DEF Threads
  <2> QED
    BY <1>4, <2>1, <2>2, <2>3 DEF InCall
<1>5. CASE DropReader
  <2>1. call.f = "none"
    BY <1>5 DEF DropReader, ReaderAt, IInv, PresInv
  <2> QED
    BY <1>5, <2>1, DestroyStep DEF DropReader, ReaderAt
<1>6. ASSUME NEW x \in Begins, PrepareRead(x) \/ Advance(x) \/ MoveAsBufferSlice(x)
      PROVE  IInv'
  <2>1. CASE PrepareRead(x)
    BY <1>6, <2>1, StartStep DEF PrepareRead
  <2>2. CASE Advance(x)
    <3>1. PICK n \in 1 .. Size(x) : Start("advance", x, n)
      BY <2>2 DEF Advance
    <3>2. Size(x) \in Nat
      BY <1>6, <3>1, SizeNat DEF Start
    <3>3. n \in Nat /\ n <= Size(x)
      BY ONLY <3>1, <3>2
    <3> QED
      BY <1>6, <3>1, <3>3, StartStep
  <2>3. CASE MoveAsBufferSlice(x)
    <3>1. Start("move", x, Size(x))
      BY <2>3 DEF MoveAsBufferSlice
    <3>2. Size(x) \in Nat
      BY <1>6, <3>1, SizeNat DEF Start
    <3>3. Size(x) <= Size(x)
      BY ONLY <3>2
    <3> QED
      BY <1>6, <3>1, <3>2, <3>3, StartStep
  <2> QED
    BY <1>6, <2>1, <2>2, <2>3
<1> QED
  BY <1>1, <1>2, <1>3, <1>4, <1>5, <1>6 DEF Reader

LEMMA NextInv == IInv /\ [Next]_vars => IInv'
<1> SUFFICES ASSUME IInv, [Next]_vars PROVE IInv'
  OBVIOUS
<1>1. CASE Writer
  BY <1>1, WriterStep
<1>2. CASE Reader
  BY <1>2, ReaderStep
<1>3. CASE UNCHANGED vars
  <2>1. UNCHANGED <<nodes, freed, drop, writer, it>>
    BY <1>3 DEF vars, reader
  <2>2. WriterInv' /\ ChainInv' /\ RefInv'
    BY <2>1, ReaderOnly
  <2> QED
    BY <1>3, <2>2 DEF IInv, vars, writer, reader, TypeOK, Refs, IterInv, OnChain, Nodes, W,
                      PresInv, Present, LocalInv, SizeInv, Size, End, AdvanceComplete
<1> QED
  BY <1>1, <1>2, <1>3 DEF Next, Done

LEMMA Invariance == Spec => []IInv
BY InitInv, NextInv, PTL DEF Spec

-----------------------------------------------------------------------------
(* Theorems.                                                               *)

\* Type correctness: every pointer is null or that of a node made, and no size,
\* position or counter of references gets below zero.
THEOREM TypeCorrect == Spec => []TypeOK
<1>1. IInv => TypeOK
  BY DEF IInv
<1> QED
  BY <1>1, Invariance, PTL

\* No slice or copy is appended beyond the end of its buffer.
WithinBuffer == \A n \in Nodes : nodes[n].len <= nodes[n].cap

\* confirm_append stores no end_ beyond the buffer, whatever is appended.
THEOREM NoOverflow == Spec => []WithinBuffer
<1>1. IInv => WithinBuffer
  BY DEF IInv, ChainInv, WithinBuffer
<1> QED
  BY <1>1, Invariance, PTL

\* Each iterator hands out the byte at its own offset in the stream, from bytes that
\* were appended.
THEOREM BytesInOrder == Spec => []InOrder
<1>1. IInv => InOrder
  <2> SUFFICES ASSUME IInv, NEW x \in Ends, it[x].pos < it[x].lim
               PROVE  /\ nodes[it[x].from].first + it[x].pos = it[x].offset
                      /\ it[x].lim <= nodes[it[x].from].len
    BY DEF InOrder
  <2>1. OnChain(it[x])
    BY DEF IInv, IterInv
  <2>2. it[x].from # Null
    BY <2>1 DEF OnChain
  <2> QED
    BY <2>1, <2>2 DEF OnChain
<1> QED
  BY <1>1, Invariance, PTL

\* A reader takes no more than its size() and size() counts no more than was written.
THEOREM SizeCounts == Spec => []WithinSize
<1>1. IInv => WithinSize
  <2> SUFFICES ASSUME IInv, NEW x \in Begins, Present(x)
               PROVE  /\ it[x].offset + (IF call.x = x THEN ready ELSE 0) <= it[EndOf(x)].offset
                      /\ it[EndOf(x)].offset <= written
    BY DEF WithinSize
  <2>1. x \in Ends /\ EndOf(x) \in Ends
    BY DEF EndOf, Begins, Ends
  <2>2. it[x].offset \in Nat /\ it[EndOf(x)].offset \in Nat /\ ready \in Nat
    BY <2>1, IterTypes DEF IInv, TypeOK
  <2>3. it[x].offset <= it[EndOf(x)].offset
    BY DEF IInv, SizeInv
  <2>4. call.x = x => ready <= it[EndOf(x)].offset - it[x].offset
    BY DEF IInv, SizeInv, Size
  <2>5. Present(EndOf(x))
    BY DEF IInv, PresInv, EndOf, Begins
  <2>6. it[EndOf(x)].offset <= written
    BY <2>1, <2>5, OffsetWritten
  <2> QED
    BY ONLY <2>2, <2>3, <2>4, <2>6
<1> QED
  BY <1>1, Invariance, PTL

\* advance, cut_head and move_as_buffer_slice find every byte that size() counts.
THEOREM CallsComplete == Spec => []AdvanceComplete
<1>1. IInv => AdvanceComplete
  BY DEF IInv
<1> QED
  BY <1>1, Invariance, PTL

\* sync_with_writer finds every byte whose append had returned before the call.
THEOREM SyncComplete == Spec => []SyncSeesAppended
<1>1. IInv => SyncSeesAppended
  <2> SUFFICES ASSUME IInv, rpc = "idle" PROVE it["end"].offset >= promised
    BY DEF SyncSeesAppended
  <2>1. promised <= it["end"].offset
    BY DEF IInv, PresInv, SizeInv
  <2>2. "end" \in Ends
    BY DEF Ends
  <2>3. promised \in Nat /\ it["end"].offset \in Nat
    BY <2>2, IterTypes DEF IInv, TypeOK
  <2> QED
    BY ONLY <2>1, <2>3
<1> QED
  BY <1>1, Invariance, PTL

\* The writer stores next_ of a node before the reader may load it.
THEOREM NextNotRaced == Spec => []NoRaceOnNext
<1>1. IInv => NoRaceOnNext
  <2> SUFFICES ASSUME IInv, wpc = "link", rpc = "next", it[call.x].head = tail_ PROVE FALSE
    BY DEF NoRaceOnNext
  <2>1. tail_ # Null /\ ~nodes[tail_].has_writer
    BY DEF IInv, LocalInv
  <2>2. tail_ \in Nodes /\ tail_ \in Nat
    BY <2>1 DEF IInv, TypeOK, Refs, Nodes, Null
  <2>3. nodes[tail_].has_writer
    <3>1. tail_ >= tail_
      BY ONLY <2>2
    <3> QED
      BY <2>2, <3>1 DEF IInv, ChainInv
  <2> QED
    BY <2>1, <2>3
<1> QED
  BY <1>1, Invariance, PTL

\* No thread holds a pointer to a deleted node, and no live node leads to one.
THEOREM NodesAlive == Spec => []NoUseAfterFree
<1>1. IInv => NoUseAfterFree
  <2> SUFFICES ASSUME IInv PROVE NoUseAfterFree
    OBVIOUS
  <2>0. TypeOK /\ ChainInv /\ RefInv /\ freed \subseteq Nodes
    BY DEF IInv, TypeOK, Nodes
  <2>1. {head_, tail_, fresh} \cap freed = {}
    BY <2>0, Referenced
  <2>2. \A x \in Ends : it[x].head \notin freed
    BY <2>0, Referenced
  <2>3. ASSUME NEW n \in Nodes \ freed PROVE nodes[n].next \notin freed
    <3> SUFFICES ASSUME nodes[n].next \in freed PROVE FALSE
      OBVIOUS
    <3> DEFINE m == nodes[n].next
    <3>1. m \in Nodes /\ n \in Nat /\ n >= 1
      <4>1. m \in Nodes
        BY <2>0
      <4> QED
        BY ONLY <2>3, <4>1 DEF Nodes
    <3>2. m = n + 1
      BY ONLY <2>0, <2>3, <3>1 DEF ChainInv, Nodes, Null
    <3>3. m > 1 /\ m - 1 = n
      BY ONLY <3>1, <3>2
    <3>4. NextRefs(m) = 1
      BY <2>3, <3>3 DEF NextRefs
    <3> QED
      BY <2>0, <3>1, <3>4, Referenced
  <2> QED
    BY <2>1, <2>2, <2>3 DEF NoUseAfterFree, Nodes
<1> QED
  BY <1>1, Invariance, PTL

\* Once the writer and the readers are gone, every node has been deleted.
THEOREM NodesDeleted == Spec => []NoLeak
<1>1. IInv => NoLeak
  <2> SUFFICES ASSUME IInv, wpc = "closed", rpc \in {"none", "gone"},
                      \A t \in Threads : drop[t] = <<>>
               PROVE  freed = Nodes
    BY DEF NoLeak, Nodes
  <2>1. PICK k \in 0 .. Len(nodes) : freed = 1 .. k
    BY DEF IInv, RefInv
  <2>2. Len(nodes) \in Nat
    BY NodeTypes DEF IInv
  <2>3. CASE k = Len(nodes)
    BY <2>1, <2>3 DEF Nodes
  <2>4. CASE k # Len(nodes)
    <3> DEFINE n == k + 1
    <3>1. n \in Nodes /\ n \notin freed /\ (n > 1 => n - 1 \in freed) /\ n # Null
      BY ONLY <2>1, <2>2, <2>4 DEF Nodes, Null
    <3> HIDE DEF n
    <3>2. /\ head_ = Null /\ tail_ = Null /\ fresh = Null
          /\ \A t \in Threads : Owed(t, 1) = Null /\ Owed(t, 2) = Null
      BY OwesNothing DEF IInv, WriterInv
    <3>3. \A x \in Ends : it[x].head = Null
      BY DEF IInv, PresInv, Present, IterInv, OnChain
    <3>4. One(Null, n) = 0
      BY ONLY <3>1 DEF One
    <3>5. WriterRefs(n) = 0
      BY ONLY <3>2, <3>4 DEF WriterRefs, Threads
    <3>6. ReaderRefs(n) = 0
      BY ONLY <3>2, <3>3, <3>4 DEF ReaderRefs, IterRefs, Threads, Ends, Begins
    <3>7. NextRefs(n) = 0
      BY ONLY <3>1 DEF NextRefs
    <3>8. nodes[n].ref_cnt = 0
      BY <3>1, <3>5, <3>6, <3>7 DEF IInv, RefInv
    <3> QED
      BY <3>1, <3>8 DEF IInv, RefInv
  <2> QED
    BY <2>3, <2>4
<1> QED
  BY <1>1, Invariance, PTL

-----------------------------------------------------------------------------
(* The chain implements a byte stream.                                     *)

\* No iterator is ahead of what was written.
WithinWritten == \A x \in Ends : Present(x) => it[x].offset <= written

LEMMA NoneAhead == IInv => WithinWritten
BY OffsetWritten DEF WithinWritten

\* A step of the reader moves end_ or begin_, but not both, or neither.
LEMMA ReaderTakes ==
  ASSUME IInv, IInv', UNCHANGED <<wpc, written>>,
         it'["end"].offset = it["end"].offset
         \/ (/\ Present("end") /\ it'["end"].from # Null
             /\ it["end"].offset <= it'["end"].offset
             /\ it'["begin"].offset = it["begin"].offset),
         it'["begin"].offset = it["begin"].offset
         \/ (/\ Present("begin") /\ it'["begin"].from # Null
             /\ it["begin"].offset <= it'["begin"].offset
             /\ it'["end"].offset = it["end"].offset)
  PROVE  [Stream!Next]_(Stream!vars)
<1>1. {"begin", "end"} \subseteq Ends /\ "begin" \in Begins /\ EndOf("begin") = "end"
  BY DEF Ends, Begins, EndOf
<1>2. it \in [Ends -> IteratorType] /\ it' \in [Ends -> IteratorType] /\ written \in Nat
  BY DEF IInv, TypeOK
<1>3. /\ it["end"].offset \in Nat /\ it'["end"].offset \in Nat
      /\ it["begin"].offset \in Nat /\ it'["begin"].offset \in Nat
  BY ONLY <1>1, <1>2 DEF IteratorType
<1>4. it'["end"].from # Null => it'["end"].offset <= written
  <2>1. WithinWritten'
    BY NoneAhead, PTL
  <2> QED
    BY <1>1, <2>1 DEF WithinWritten, Present
<1>5. it'["begin"].from # Null => it'["begin"].offset <= it'["end"].offset
  <2>1. SizeInv'
    BY DEF IInv
  <2> QED
    BY <1>1, <2>1 DEF SizeInv, Present
<1>6. CASE it'["end"].offset = it["end"].offset /\ it'["begin"].offset = it["begin"].offset
  BY <1>6 DEF Stream!vars
<1>7. CASE it'["end"].offset # it["end"].offset
  <2>1. it'["end"].offset \in (it["end"].offset + 1) .. written
    BY ONLY <1>2, <1>3, <1>4, <1>7,
            it'["end"].offset = it["end"].offset
            \/ (/\ Present("end") /\ it'["end"].from # Null
                /\ it["end"].offset <= it'["end"].offset
                /\ it'["begin"].offset = it["begin"].offset)
  <2>2. Stream!See
    BY <1>7, <2>1 DEF Stream!See
  <2> QED
    BY <2>2 DEF Stream!Next
<1>8. CASE it'["end"].offset = it["end"].offset /\ it'["begin"].offset # it["begin"].offset
  <2>1. it'["begin"].offset \in (it["begin"].offset + 1) .. it["end"].offset
    BY ONLY <1>3, <1>5, <1>8,
            it'["begin"].offset = it["begin"].offset
            \/ (/\ Present("begin") /\ it'["begin"].from # Null
                /\ it["begin"].offset <= it'["begin"].offset
                /\ it'["end"].offset = it["end"].offset)
  <2>2. Stream!Consume
    BY <1>8, <2>1 DEF Stream!Consume
  <2> QED
    BY <2>2 DEF Stream!Next
<1> QED
  BY <1>6, <1>7, <1>8

\* The iterator of a call moves on.
LEMMA IteratorMoves ==
  ASSUME IInv, IInv', UNCHANGED <<wpc, written>>, NEW x \in Ends, Present(x),
         \A y \in Ends : y # x => it'[y] = it[y],
         it'[x].from # Null, it[x].offset <= it'[x].offset
  PROVE  [Stream!Next]_(Stream!vars)
<1>1. {"begin", "end"} \subseteq Ends
  BY DEF Ends, Begins
<1>2. x # "end" => it'["end"].offset = it["end"].offset
  BY <1>1
<1>3. x # "begin" => it'["begin"].offset = it["begin"].offset
  BY <1>1
<1> QED
  BY <1>2, <1>3, ReaderTakes

\* So does it when prepare_read returns.
LEMMA ReturnMoves ==
  ASSUME IInv, IInv', UNCHANGED writer, NEW r \in IteratorType, NEW size \in Nat,
         Return(r, size), Present(call.x), r.from = it[call.x].from,
         r.offset = it[call.x].offset
  PROVE  [Stream!Next]_(Stream!vars)
<1> DEFINE x == call.x
           n == IF call.f = "sync" \/ size < call.n THEN size ELSE call.n
           moved == [r EXCEPT !.pos = r.pos + n, !.offset = r.offset + n]
<1>1. x \in Ends /\ call.n \in Nat /\ it \in [Ends -> IteratorType] /\ r.offset \in Nat
  <2>1. TypeOK
    BY DEF IInv
  <2> QED
    BY <2>1, CallTypes DEF TypeOK, IteratorType
<1>2. n \in Nat
  BY <1>1
<1>3. it' = [it EXCEPT ![x] = r] \/ it' = [it EXCEPT ![x] = moved]
  BY DEF Return
<1> HIDE DEF n
<1>4. moved.from = r.from /\ moved.offset = r.offset + n
  BY ONLY <1>2, r \in IteratorType, MovedOn
<1> HIDE DEF moved
<1>5. /\ \A y \in Ends : y # x => it'[y] = it[y]
      /\ it'[x] = r \/ it'[x] = moved
  BY ONLY <1>1, <1>3
<1>6. it'[x].from # Null /\ it[x].offset <= it'[x].offset
  <2>1. r.from # Null /\ r.offset = it[x].offset
    BY DEF Present
  <2> QED
    BY ONLY <1>1, <1>2, <1>4, <1>5, <2>1
<1> QED
  BY <1>1, <1>5, <1>6, IteratorMoves DEF writer

\* Every step of the writer is a step of the stream or none of it.
LEMMA WriterStreams ==
  ASSUME IInv, IInv', Writer
  PROVE  [Stream!Next]_(Stream!vars)
<1>1. it' = it
  BY DEF Writer, AppendSlice, AppendBufferSlice, AppendAtLeast, Append_, ConfirmAppend, Alloc,
         Link, Release, Close, Drop, reader
<1>2. CASE AppendSlice \/ AppendBufferSlice \/ AppendAtLeast
  <2>1. written' = written /\ wpc # "closed" /\ wpc' # "closed"
    BY <1>2 DEF AppendSlice, AppendBufferSlice, AppendAtLeast, Append_, WriterAt
  <2> QED
    BY <1>1, <2>1 DEF Stream!vars
<1>3. CASE Alloc \/ Link
  <2>1. written' = written /\ wpc # "closed" /\ wpc' # "closed"
    BY <1>3 DEF Alloc, Link, WriterAt
  <2> QED
    BY <1>1, <2>1 DEF Stream!vars
<1>4. CASE ConfirmAppend
  <2>1. /\ wpc = "append" /\ wpc' \in {"idle", "append"} /\ written' = written + shift /\ Room > 0
    BY <1>4 DEF ConfirmAppend, WriterAt
  <2>2. written \in Nat /\ want \in Nat /\ want > 0
    BY <2>1 DEF IInv, TypeOK, WriterInv
  <2>3. Room \in Int
    <3>1. tail_ \in Nodes
      BY <2>1, NodeTypes DEF IInv, WriterInv, Nodes
    <3>2. nodes[tail_].cap \in Nat /\ nodes[tail_].len \in Nat
      BY <3>1, NodeTypes DEF IInv
    <3> QED
      BY ONLY <3>2 DEF Room
  <2>4. written' \in Nat /\ written' > written
    <3>1. shift \in Nat /\ shift > 0
      BY ONLY <2>1, <2>2, <2>3 DEF shift
    <3> QED
      BY ONLY <2>1, <2>2, <3>1
  <2>5. Stream!Write
    BY <1>1, <2>1, <2>4 DEF Stream!Write
  <2> QED
    BY <2>5 DEF Stream!Next
<1>5. CASE Release
  <2>1. wpc = "release" /\ wpc' \in {"idle", "append"} /\ written' = written + nodes[fresh].len
    BY <1>5 DEF Release, WriterAt
  <2>2. written \in Nat /\ nodes[fresh].len \in Nat
    <3>1. fresh \in Nodes
      BY <2>1, NodeTypes DEF IInv, WriterInv, Nodes
    <3> QED
      BY <3>1, NodeTypes DEF IInv, TypeOK
  <2>3. CASE nodes[fresh].len = 0
    BY <1>1, <2>1, <2>2, <2>3 DEF Stream!vars
  <2>4. CASE nodes[fresh].len # 0
    <3>1. written' \in Nat /\ written' > written
      BY ONLY <2>1, <2>2, <2>4
    <3>2. Stream!Write
      BY <1>1, <2>1, <3>1 DEF Stream!Write
    <3> QED
      BY <3>2 DEF Stream!Next
  <2> QED
    BY <2>3, <2>4
<1>6. CASE Close
  <2>1. Stream!Close
    BY <1>1, <1>6 DEF Close, WriterAt, Stream!Close
  <2> QED
    BY <2>1 DEF Stream!Next
<1>7. CASE Drop("writer")
  BY <1>7 DEF Drop, writer, reader, Stream!vars
<1> QED
  BY <1>2, <1>3, <1>4, <1>5, <1>6, <1>7 DEF Writer

\* So is every step of the reader.
LEMMA ReaderStreams ==
  ASSUME IInv, IInv', Reader
  PROVE  [Stream!Next]_(Stream!vars)
<1>0. /\ TypeOK /\ PresInv /\ IterInv /\ LocalInv /\ SizeInv
      /\ it \in [Ends -> IteratorType] /\ {"begin", "end", "end2"} \subseteq Ends
  BY DEF IInv, TypeOK, Ends, Begins
<1>1. CASE ExtractReader
  <2>1. it["begin"].offset = 0 /\ it["end"].offset = 0
    BY <1>0, <1>1 DEF PresInv, ExtractReader
  <2>2. it'["begin"].offset = 0 /\ it'["end"].offset = 0
    BY <1>0, <1>1 DEF ExtractReader, Iterator
  <2> QED
    BY <1>1, <2>1, <2>2 DEF ExtractReader, Stream!vars
<1>2. CASE \/ SyncWithWriter \/ LoadHasWriter \/ Drop("reader")
           \/ \E x \in Begins : PrepareRead(x) \/ Advance(x) \/ MoveAsBufferSlice(x)
  <2>1. it' = it /\ UNCHANGED writer
    BY <1>2 DEF SyncWithWriter, LoadHasWriter, Drop, PrepareRead, Advance, MoveAsBufferSlice, Start, reader
  <2> QED
    BY <2>1 DEF Stream!vars, writer
<1>3. CASE CutHead
  <2>1. it' = [it EXCEPT !["end2"] = it["begin"]] /\ UNCHANGED writer
    BY <1>3 DEF CutHead, Clone
  <2>2. it'["begin"] = it["begin"] /\ it'["end"] = it["end"]
    BY <1>0, <2>1
  <2> QED
    BY <2>1, <2>2 DEF Stream!vars, writer
<1>4. CASE Look
  <2>1. /\ call.x \in Ends /\ Present(call.x) /\ it[call.x] \in IteratorType /\ UNCHANGED writer
    BY <1>0, <1>4, CallTypes DEF Look, ReaderAt, PresInv
  <2>2. it[call.x].pos \in Nat /\ it[call.x].lim \in Nat
    BY ONLY <2>1 DEF IteratorType
  <2>3. CASE it' = it
    BY <2>1, <2>3 DEF Stream!vars, writer
  <2>4. CASE it' # it
    <3>1. \/ Return(it[call.x], 0)
          \/ it[call.x].pos < it[call.x].lim /\ Return(it[call.x], it[call.x].lim - it[call.x].pos)
      BY <1>4, <2>4 DEF Look
    <3>2. it[call.x].pos < it[call.x].lim => it[call.x].lim - it[call.x].pos \in Nat
      BY ONLY <2>2
    <3>3. PICK size \in Nat : Return(it[call.x], size)
      BY <3>1, <3>2
    <3> QED
      BY <2>1, <3>3, ReturnMoves
  <2> QED
    BY <2>3, <2>4
<1>5. CASE SyncSlice
  <2> DEFINE x == call.x
             old == it[x]
             r == IF old.need_sync THEN [old EXCEPT !.lim = nodes[old.from].len] ELSE old
  <2>1. /\ x \in Ends /\ Present(x) /\ old \in IteratorType /\ OnChain(old)
        /\ old.pos = old.lim /\ UNCHANGED writer
    BY <1>0, <1>5, CallTypes DEF SyncSlice, ReaderAt, PresInv, IterInv, LocalInv
  <2>2. old.from \in Nodes /\ nodes[old.from].len \in Nat
    BY <1>0, <2>1, NodeTypes DEF OnChain, Present
  <2>3. old.pos \in Nat /\ old.lim \in Nat /\ old.offset \in Nat /\ old.lim <= nodes[old.from].len
    BY ONLY <2>1 DEF IteratorType, OnChain, Present
  <2>4. /\ r \in IteratorType /\ r.from = old.from /\ r.pos = old.pos /\ r.offset = old.offset
        /\ r.lim \in {old.lim, nodes[old.from].len}
    <3>1. CASE old.need_sync
      BY <2>1, <2>2, <3>1, Synced
    <3>2. CASE ~old.need_sync
      BY <2>1, <3>2
    <3> QED
      BY <3>1, <3>2
  <2>5. Return(r, r.lim - r.pos) \/ it' = [it EXCEPT ![x] = r]
    BY <1>5 DEF SyncSlice
  <2> HIDE DEF r
  <2>6. CASE Return(r, r.lim - r.pos)
    <3>1. r.lim - r.pos \in Nat
      BY ONLY <2>1, <2>2, <2>3, <2>4
    <3> QED
      BY <2>1, <2>4, <2>6, <3>1, ReturnMoves
  <2>7. CASE it' = [it EXCEPT ![x] = r]
    <3>1. \A y \in Ends : it'[y].offset = it[y].offset
      BY <1>0, <2>1, <2>4, <2>7
    <3> QED
      BY <1>0, <2>1, <3>1 DEF Stream!vars, writer
  <2> QED
    BY <2>5, <2>6, <2>7
<1>6. CASE NextNode
  <2>1. call.x \in Ends /\ it[call.x] \in IteratorType /\ UNCHANGED writer
    BY <1>0, <1>6, CallTypes DEF NextNode
  <2>2. \/ it' = [it EXCEPT ![call.x].head = Null]
        \/ \E n : it' = [it EXCEPT ![call.x] = Iterator(n, it[call.x].offset)]
    BY <1>6 DEF NextNode
  <2>3. \A y \in Ends : it'[y].offset = it[y].offset
    <3>1. CASE it' = [it EXCEPT ![call.x].head = Null]
      BY ONLY <1>0, <2>1, <3>1 DEF IteratorType
    <3>2. ASSUME NEW n, it' = [it EXCEPT ![call.x] = Iterator(n, it[call.x].offset)]
          PROVE  \A y \in Ends : it'[y].offset = it[y].offset
      <4>1. Iterator(n, it[call.x].offset).offset = it[call.x].offset
        BY DEF Iterator
      <4> QED
        BY ONLY <1>0, <2>1, <3>2, <4>1
    <3> QED
      BY <2>2, <3>1, <3>2
  <2> QED
    BY <1>0, <2>1, <2>3 DEF Stream!vars, writer
<1>7. CASE ConfirmRead
  <2>1. call.x \in Ends /\ it[call.x] \in IteratorType /\ UNCHANGED writer /\ Present(call.x)
    BY <1>0, <1>7, CallTypes DEF ConfirmRead, ReaderAt, PresInv
  <2>2. ready \in Nat
    BY <1>0 DEF TypeOK
  <2>3. PICK size \in 0 .. ready :
          it' = [it EXCEPT ![call.x].pos = @ + size, ![call.x].offset = @ + size]
    BY <1>7 DEF ConfirmRead
  <2> DEFINE s == [it[call.x] EXCEPT !.pos = it[call.x].pos + size,
                                     !.offset = it[call.x].offset + size]
  <2>4. it' = [it EXCEPT ![call.x] = s]
    BY <1>0, <2>1, <2>3
  <2>5. s.from = it[call.x].from /\ s.offset = it[call.x].offset + size /\ size \in Nat
    <3>1. size \in Nat
      BY ONLY <2>2, size \in 0 .. ready
    <3> QED
      BY ONLY <2>1, <3>1, MovedOn
  <2> HIDE DEF s
  <2>6. it'[call.x] = s /\ \A y \in Ends : y # call.x => it'[y] = it[y]
    BY ONLY <1>0, <2>1, <2>4
  <2>7. it'[call.x].from # Null /\ it[call.x].offset <= it'[call.x].offset
    <3>1. it[call.x].offset \in Nat
      BY ONLY <2>1 DEF IteratorType
    <3> QED
      BY ONLY <2>1, <2>5, <2>6, <3>1 DEF Present
  <2> QED
    BY <2>1, <2>6, <2>7, IteratorMoves DEF writer
<1>8. CASE CutDone
  <2>1. /\ it' = [it EXCEPT !["begin2"] = it["begin"], !["begin"] = it["end2"]]
        /\ UNCHANGED writer /\ rpc = "cut"
    BY <1>8 DEF CutDone, Clone, ReaderAt
  <2>2. /\ call.f = "cut" /\ Present("begin") /\ Present("end2")
        /\ it["begin"].offset <= it["end2"].offset
    BY <1>0, <2>1 DEF PresInv, SizeInv
  <2>3. it'["begin"] = it["end2"] /\ it'["end"] = it["end"]
    BY ONLY <1>0, <2>1
  <2>4. UNCHANGED <<wpc, written>>
    BY <2>1 DEF writer
  <2> QED
    BY <2>2, <2>3, <2>4, ReaderTakes DEF Present
<1>9. CASE DropReader \/ MoveDone
  <2>1. PICK x \in Begins : Destroy(x)
    <3>1. rpc = "drop" => call.x \in Begins
      BY <1>0 DEF PresInv
    <3> QED
      BY <1>9, <3>1 DEF DropReader, MoveDone, ReaderAt
  <2>2. it' = [y \in Ends |->
                 IF y \notin {x, EndOf(x)} THEN it[y]
                 ELSE [NoIterator EXCEPT !.offset = IF x = "begin" THEN it[y].offset ELSE 0]]
    BY <2>1 DEF Destroy
  <2>3. \A o \in Nat : [NoIterator EXCEPT !.offset = o].offset = o
    BY DEF NoIterator
  <2>4. ASSUME NEW y \in {"begin", "end"} PROVE it'[y].offset = it[y].offset
    <3>1. y \in Ends /\ it[y].offset \in Nat
      BY ONLY <1>0, <2>4 DEF IteratorType
    <3>2. x # "begin" => y \notin {x, EndOf(x)}
      BY <2>4 DEF EndOf, Begins
    <3> QED
      BY ONLY <2>2, <2>3, <3>1, <3>2
  <2> QED
    BY <2>1, <2>4 DEF Destroy, Stream!vars, writer
<1> QED
  BY <1>1, <1>2, <1>3, <1>4, <1>5, <1>6, <1>7, <1>8, <1>9 DEF Reader, InCall

\* The chain implements the byte stream, for every number of nodes, every length of
\* the buffers and any interleaving of the two threads' accesses: nothing is lost,
\* repeated or reordered, and the reader consumes no more than it has learned of.
THEOREM Implements == Spec => ImplementsByteStream
<1>1. Init => Stream!Init
  <2> SUFFICES ASSUME Init PROVE Stream!Init
    OBVIOUS
  <2>1. "begin" \in Ends /\ "end" \in Ends
    BY DEF Ends, Begins
  <2>2. it["begin"].offset = 0 /\ it["end"].offset = 0
    BY <2>1 DEF Init, NoIterator
  <2> QED
    BY <2>2 DEF Init, Stream!Init
<1>2. IInv /\ IInv' /\ [Next]_vars => [Stream!Next]_(Stream!vars)
  <2> SUFFICES ASSUME IInv, IInv', [Next]_vars PROVE [Stream!Next]_(Stream!vars)
    OBVIOUS
  <2>1. CASE Writer
    BY <2>1, WriterStreams
  <2>2. CASE Reader
    BY <2>2, ReaderStreams
  <2>3. CASE UNCHANGED vars
    BY <2>3 DEF vars, writer, reader, Stream!vars
  <2> QED
    BY <2>1, <2>2, <2>3 DEF Next, Done
<1> QED
  BY <1>1, <1>2, Invariance, PTL DEF Spec, ImplementsByteStream, Stream!Spec

-----------------------------------------------------------------------------
(* The calls of the reader come to an end.                                 *)

\* How far each statement is into prepare_read and what follows it.
Phase ==
  [look |-> 1, load |-> 2, sync |-> 3, next |-> 4,
   confirm |-> 5, cut |-> 5, drop |-> 5, idle |-> 6, gone |-> 6]

\* The call takes bytes, of which there are no more than were written.
TakesBytes ==
  /\ it'[call.x].offset > it[call.x].offset
  /\ it'[call.x].offset <= written

\* It leaves a node for the next one, or the last one for good.
LeavesNode ==
  /\ rpc = "next" /\ it'[call.x].offset = it[call.x].offset
  /\ it[call.x].head # Null
  /\ it'[call.x].head \in {it[call.x].head + 1, Null}

\* It gets to a later statement, and stays where it is in the chain until it has
\* left prepare_read.
GoesOn ==
  /\ Phase[rpc'] > Phase[rpc]
  /\ Phase[rpc'] <= 4 =>
       it'[call.x].offset = it[call.x].offset /\ it'[call.x].head = it[call.x].head

\* A reference is given up, or one more node is deleted.
GivesUp ==
  /\ drop["reader"] # <<>> /\ UNCHANGED reader
  /\ \/ Len(drop'["reader"]) < Len(drop["reader"])
     \/ \E n \in Nodes \ freed : freed' = freed \cup {n}

\* The statements, one by one.
LEMMA Phases ==
  /\ Phase["look"] = 1 /\ Phase["load"] = 2 /\ Phase["sync"] = 3 /\ Phase["next"] = 4
  /\ Phase["confirm"] = 5 /\ Phase["cut"] = 5 /\ Phase["drop"] = 5
  /\ Phase["idle"] = 6 /\ Phase["gone"] = 6
BY DEF Phase

\* A statement further down that is no longer in prepare_read.
LEMMA Leaves ==
  ASSUME \/ rpc \in {"look", "sync"} /\ rpc' \in {"confirm", "cut", "drop", "idle"}
         \/ rpc \in {"confirm", "cut", "drop"} /\ rpc' \in {"idle", "gone"}
  PROVE  GoesOn
BY Phases DEF GoesOn

\* One that is.
LEMMA StaysInNode ==
  ASSUME \/ rpc = "look" /\ rpc' = "load"
         \/ rpc = "load" /\ rpc' = "sync"
         \/ rpc = "sync" /\ rpc' = "next",
         it'[call.x].offset = it[call.x].offset, it'[call.x].head = it[call.x].head
  PROVE  GoesOn
BY Phases DEF GoesOn

\* prepare_read returns to whoever called it.
LEMMA ReturnGoesOn ==
  ASSUME IInv, IInv', rpc \in {"look", "sync"}, UNCHANGED writer,
         NEW r \in IteratorType, NEW size \in Nat, Return(r, size),
         Present(call.x), r.from = it[call.x].from, r.offset = it[call.x].offset
  PROVE  TakesBytes \/ GoesOn
<1> DEFINE x == call.x
           n == IF call.f = "sync" \/ size < call.n THEN size ELSE call.n
           left == IF call.f = "sync" THEN 0 ELSE call.n - n
           more == size # 0 /\ (call.f = "sync" \/ left > 0)
           moved == [r EXCEPT !.pos = r.pos + n, !.offset = r.offset + n]
<1>1. /\ x \in Ends /\ call.n \in Nat /\ it \in [Ends -> IteratorType] /\ r.offset \in Nat
      /\ call.f \in {"sync", "advance", "cut", "move", "read"}
  <2>1. TypeOK /\ PresInv
    BY DEF IInv
  <2> QED
    BY <2>1, CallTypes DEF TypeOK, IteratorType, PresInv
<1>2. CASE call.f = "read"
  <2>1. rpc' = "confirm"
    BY <1>2 DEF Return
  <2> QED
    BY <2>1, Leaves
<1>3. CASE call.f # "read" /\ ~more
  <2>1. rpc' = After[call.f]
    BY <1>3 DEF Return
  <2>2. After[call.f] \in {"idle", "cut", "drop"}
    BY <1>1, <1>3 DEF After
  <2> QED
    BY <2>1, <2>2, Leaves
<1>4. CASE call.f # "read" /\ more
  <2>1. n \in Nat /\ n > 0
    BY <1>1, <1>4
  <2>2. it' = [it EXCEPT ![x] = moved]
    BY <1>4 DEF Return
  <2> HIDE DEF n
  <2>3. moved.from = r.from /\ moved.offset = r.offset + n
    BY ONLY <2>1, r \in IteratorType, MovedOn
  <2> HIDE DEF moved
  <2>4. it'[x] = moved
    BY ONLY <1>1, <2>2
  <2>5. it'[x].offset <= written
    <3>1. WithinWritten'
      BY NoneAhead, PTL
    <3>2. \A y \in Ends : it'[y].from # Null => it'[y].offset <= written'
      BY ONLY <3>1 DEF WithinWritten, Present
    <3>3. it'[x].from # Null /\ written' = written
      BY <2>3, <2>4 DEF Present, writer
    <3> QED
      BY ONLY <1>1, <3>2, <3>3
  <2>6. it'[x].offset > it[x].offset
    BY <1>1, <2>1, <2>3, <2>4
  <2> QED
    BY ONLY <2>5, <2>6 DEF TakesBytes
<1> QED
  BY <1>2, <1>3, <1>4

\* What was loaded of the node is looked at.
LEMMA LookGoesOn ==
  ASSUME IInv, IInv', Look
  PROVE  TakesBytes \/ GoesOn
<1>1. /\ call.x \in Ends /\ Present(call.x) /\ it[call.x] \in IteratorType /\ UNCHANGED writer
      /\ rpc = "look"
  BY CallTypes DEF IInv, TypeOK, Look, ReaderAt, PresInv
<1>2. it[call.x].pos \in Nat /\ it[call.x].lim \in Nat
  BY ONLY <1>1 DEF IteratorType
<1>3. \/ Return(it[call.x], 0)
      \/ it[call.x].pos < it[call.x].lim /\ Return(it[call.x], it[call.x].lim - it[call.x].pos)
      \/ rpc' = "load" /\ it' = it
  BY DEF Look
<1>4. CASE rpc' = "load" /\ it' = it
  BY <1>1, <1>4, StaysInNode
<1>5. CASE ~(rpc' = "load" /\ it' = it)
  <2>1. it[call.x].pos < it[call.x].lim => it[call.x].lim - it[call.x].pos \in Nat
    BY ONLY <1>2
  <2>2. PICK size \in Nat : Return(it[call.x], size)
    BY <1>3, <1>5, <2>1
  <2> QED
    BY <1>1, <2>2, ReturnGoesOn
<1> QED
  BY <1>4, <1>5

\* What the writer has added to it since is loaded.
LEMMA SyncGoesOn ==
  ASSUME IInv, IInv', SyncSlice
  PROVE  TakesBytes \/ GoesOn
<1> DEFINE x == call.x
           old == it[x]
           r == IF old.need_sync THEN [old EXCEPT !.lim = nodes[old.from].len] ELSE old
<1>1. /\ x \in Ends /\ Present(x) /\ old \in IteratorType /\ OnChain(old)
      /\ old.pos = old.lim /\ UNCHANGED writer /\ rpc = "sync"
  <2>1. TypeOK /\ PresInv /\ IterInv /\ LocalInv
    BY DEF IInv
  <2> QED
    BY <2>1, CallTypes DEF TypeOK, SyncSlice, ReaderAt, PresInv, IterInv, LocalInv
<1>2. old.from \in Nodes /\ nodes[old.from].len \in Nat
  BY <1>1, NodeTypes DEF IInv, OnChain, Present
<1>3. old.pos \in Nat /\ old.lim \in Nat /\ old.lim <= nodes[old.from].len
  BY ONLY <1>1 DEF IteratorType, OnChain, Present
<1>4. /\ r \in IteratorType /\ r.from = old.from /\ r.pos = old.pos /\ r.offset = old.offset
      /\ r.head = old.head /\ r.lim \in {old.lim, nodes[old.from].len}
  <2>1. CASE old.need_sync
    BY <1>1, <1>2, <2>1, Synced
  <2>2. CASE ~old.need_sync
    BY <1>1, <2>2
  <2> QED
    BY <2>1, <2>2
<1>5. Return(r, r.lim - r.pos) \/ (it' = [it EXCEPT ![x] = r] /\ rpc' = "next")
  BY DEF SyncSlice
<1> HIDE DEF r
<1>6. CASE Return(r, r.lim - r.pos)
  <2>1. r.lim - r.pos \in Nat
    BY ONLY <1>1, <1>2, <1>3, <1>4
  <2> QED
    BY <1>1, <1>4, <1>6, <2>1, ReturnGoesOn
<1>7. CASE it' = [it EXCEPT ![x] = r] /\ rpc' = "next"
  <2>1. it \in [Ends -> IteratorType]
    BY DEF IInv, TypeOK
  <2>2. it'[x] = r
    BY ONLY <1>1, <1>7, <2>1
  <2> QED
    BY <1>1, <1>4, <1>7, <2>2, StaysInNode
<1> QED
  BY <1>5, <1>6, <1>7

\* The node is left.
LEMMA NextNodeLeaves ==
  ASSUME IInv, NextNode
  PROVE  LeavesNode
<1> DEFINE x == call.x
           n == it[x].head
           new == nodes[n].next
<1>1. x \in Ends /\ rpc = "next" /\ n # Null /\ it \in [Ends -> IteratorType]
  BY CallTypes DEF IInv, TypeOK, LocalInv, NextNode, ReaderAt
<1>2. n \in Nodes
  BY <1>1 DEF IInv, IterInv, OnChain
<1>3. new \in {n + 1, Null}
  BY <1>2 DEF IInv, ChainInv
<1>4. CASE new = Null
  <2>1. it' = [it EXCEPT ![x].head = Null]
    BY <1>4 DEF NextNode
  <2>2. it'[x].head = Null /\ it'[x].offset = it[x].offset
    BY ONLY <1>1, <2>1 DEF IteratorType
  <2> QED
    BY <1>1, <2>2 DEF LeavesNode
<1>5. CASE new # Null
  <2>1. it' = [it EXCEPT ![x] = Iterator(new, it[x].offset)]
    BY <1>5 DEF NextNode
  <2>2. Iterator(new, it[x].offset).head = new
        /\ Iterator(new, it[x].offset).offset = it[x].offset
    BY DEF Iterator
  <2> HIDE DEF new
  <2>3. it'[x].head = new /\ it'[x].offset = it[x].offset
    BY ONLY <1>1, <2>1, <2>2
  <2> QED
    BY <1>1, <1>3, <2>3 DEF LeavesNode
<1> QED
  BY <1>4, <1>5

\* A reference is given up.
LEMMA DropGivesUp ==
  ASSUME IInv, Drop("reader")
  PROVE  GivesUp
<1> DEFINE d == drop["reader"]
           n == Head(d)
           left == nodes[n].ref_cnt - 1
<1>1. /\ d # <<>> /\ UNCHANGED reader
      /\ freed' = IF left = 0 THEN freed \cup {n} ELSE freed
      /\ drop' = [drop EXCEPT !["reader"] =
           IF left = 0 /\ nodes[n].next # Null THEN <<nodes[n].next>> \o Tail(d) ELSE Tail(d)]
  BY DEF Drop
<1>2. drop \in [Threads -> Seq(Nodes)] /\ "reader" \in Threads /\ d \in Seq(Nodes)
  BY DEF IInv, TypeOK, Nodes, Threads
<1>3. n \in Nodes /\ Len(Tail(d)) < Len(d)
  BY ONLY <1>1, <1>2, HeadTailProperties
<1>4. CASE left = 0
  <2>1. nodes[n].ref_cnt \in Nat
    BY <1>3, NodeTypes DEF IInv
  <2>2. nodes[n].ref_cnt # 0
    BY ONLY <1>4, <2>1
  <2>3. n \notin freed
    BY <1>3, <2>2 DEF IInv, RefInv
  <2> QED
    BY <1>1, <1>3, <1>4, <2>3 DEF GivesUp
<1>5. CASE left # 0
  <2>1. drop' = [drop EXCEPT !["reader"] = Tail(d)]
    BY <1>1, <1>5
  <2>2. drop'["reader"] = Tail(d)
    BY ONLY <1>2, <2>1
  <2> QED
    BY <1>1, <1>3, <2>2 DEF GivesUp
<1> QED
  BY <1>4, <1>5

\* What EverythingRead rests on besides fairness and the owner who keeps asking: no
\* call of the reader loops, whatever the writer does meanwhile.  Each of its steps
\* takes bytes that were written, leaves a node for the next one of the chain, goes
\* on to a later statement or gives up a reference, and no step of the writer
\* takes it back.
THEOREM CallsAdvance ==
  Spec => /\ [][InCall => TakesBytes \/ LeavesNode \/ GoesOn \/ GivesUp]_vars
          /\ [][Writer => UNCHANGED reader /\ written <= written']_vars
<1> DEFINE Further == InCall => TakesBytes \/ LeavesNode \/ GoesOn \/ GivesUp
           Alone == Writer => UNCHANGED reader /\ written <= written'
<1>1. IInv /\ IInv' /\ [Next]_vars => [Further]_vars
  <2> SUFFICES ASSUME IInv, IInv', InCall
               PROVE  TakesBytes \/ LeavesNode \/ GoesOn \/ GivesUp
    OBVIOUS
  <2>1. CASE Look \/ SyncSlice
    BY <2>1, LookGoesOn, SyncGoesOn
  <2>2. CASE LoadHasWriter
    BY <2>2, StaysInNode DEF LoadHasWriter, ReaderAt
  <2>3. CASE NextNode
    BY <2>3, NextNodeLeaves
  <2>4. CASE ConfirmRead
    BY <2>4, Leaves DEF ConfirmRead, ReaderAt
  <2>5. CASE CutDone
    BY <2>5, Leaves DEF CutDone, ReaderAt
  <2>6. CASE MoveDone
    <3>1. rpc = "drop" /\ rpc' \in {"idle", "gone"}
      BY <2>6 DEF MoveDone, Destroy, ReaderAt
    <3> QED
      BY <3>1, Leaves
  <2>7. CASE Drop("reader")
    BY <2>7, DropGivesUp
  <2> QED
    BY <2>1, <2>2, <2>3, <2>4, <2>5, <2>6, <2>7 DEF InCall
<1>2. IInv /\ IInv' /\ [Next]_vars => [Alone]_vars
  <2> SUFFICES ASSUME IInv, IInv', Writer
               PROVE  UNCHANGED reader /\ written <= written'
    OBVIOUS
  <2>1. UNCHANGED reader
    BY DEF Writer, AppendSlice, AppendBufferSlice, AppendAtLeast, Append_, ConfirmAppend,
           Alloc, Link, Release, Close, Drop
  <2>2. [Stream!Next]_(Stream!vars)
    BY WriterStreams
  <2>3. written \in Nat
    BY DEF IInv, TypeOK
  <2> QED
    BY <2>1, <2>2, <2>3 DEF Stream!Next, Stream!Write, Stream!See, Stream!Consume,
       Stream!Close, Stream!vars
<1> HIDE DEF Further, Alone
<1>3. Spec => [][Further]_vars /\ [][Alone]_vars
  BY <1>1, <1>2, Invariance, PTL DEF Spec
<1> QED
  BY <1>3 DEF Further, Alone
=============================================================================
