---------------------------- MODULE ChainBuffer -----------------------------
(***************************************************************************)
(* ChainBufferWriter and ChainBufferReader of td/utils/buffer.h: a linked  *)
(* list of buffers that one thread appends to while another one reads it.  *)
(*                                                                         *)
(* A step is one access to what the threads share: end_ of a buffer, and   *)
(* next_, has_writer_ and ref_cnt_ of a node.  Flags and counters are      *)
(* stored with release and loaded with acquire, so that the steps may be   *)
(* taken to interleave.  A byte is its position in the stream: a node      *)
(* holds the len bytes from position first on.                             *)
(***************************************************************************)
EXTENDS Integers, Sequences, FiniteSets

CONSTANTS
  InitCapacity,  \* of the buffer that create_writer(0) makes
  HintLimit,     \* an allocation of fewer bytes than this (1 << 10) ...
  AllocSize,     \* ... makes a buffer of this many (1 << 12)
  SmallSlice,    \* a slice of fewer bytes than this (1 << 8) is copied
  MaxBytes       \* bound on the bytes of the stream

ASSUME ChainAssumption ==
  /\ {InitCapacity, HintLimit, AllocSize, SmallSlice, MaxBytes} \subseteq Nat
  /\ AllocSize > 0

VARIABLES
  nodes,       \* every node made so far
  freed,       \* indices of the nodes that were deleted
  drop,        \* references that a thread is about to give up
  \* the writer
  head_, tail_,
  wpc,         \* where the writer is
  want,        \* bytes the current append has still to copy
  fresh,       \* new_tail
  written,     \* bytes whose append is visible
  \* the reader
  it,          \* the iterators begin_ and end_ of the reader, and begin2 and end2 of
               \* the one that cut_head made, whose sync_flag_ is not set
  rpc,         \* where the reader is
  call,        \* the function that runs, the iterator whose prepare_read it calls,
               \* the bytes that it has still to advance by, and the local has_writer
  ready,       \* size of the slice handed to the caller of prepare_read
  promised     \* written, when sync_with_writer or extract_reader was called

writer == <<head_, tail_, wpc, want, fresh, written>>
reader == <<it, rpc, call, ready, promised>>
vars == <<nodes, freed, drop, writer, reader>>

Null == 0
Begins == {"begin", "begin2"}
Ends == Begins \cup {"end", "end2"}

\* Fault: the node starts with one reference too many.
Node_TwoRefs(first, len, cap, sync) ==
  [first |-> first, len |-> len, cap |-> cap, sync |-> sync,
   next |-> Null, has_writer |-> TRUE, ref_cnt |-> 2]

Node(first, len, cap, sync) ==
  [first |-> first, len |-> len, cap |-> cap, sync |-> sync,
   next |-> Null, has_writer |-> TRUE, ref_cnt |-> 1]

\* An iterator at the start of node n: load_head copies its slice_, which for
\* a buffer with a writer is the empty one of when the node was made.
Iterator(n, offset) ==
  [head |-> n, from |-> n, pos |-> 0,
   lim |-> IF nodes[n].sync THEN 0 ELSE nodes[n].len,
   need_sync |-> nodes[n].sync, offset |-> offset]

NoCall(n) == [f |-> "none", x |-> "end", n |-> n, has_writer |-> FALSE]

NoIterator ==
  [head |-> Null, from |-> Null, pos |-> 0, lim |-> 0, need_sync |-> FALSE, offset |-> 0]

Init ==
  /\ nodes = <<[Node(0, 0, InitCapacity, TRUE) EXCEPT !.ref_cnt = 2]>>
  /\ freed = {} /\ drop = [t \in {"writer", "reader"} |-> <<>>]
  /\ head_ = 1 /\ tail_ = 1
  /\ wpc = "idle" /\ want = 0 /\ fresh = Null /\ written = 0
  /\ it = [x \in Ends |-> NoIterator]
  /\ rpc = "none" /\ call = NoCall(0) /\ ready = 0 /\ promised = 0

\* ChainBufferNode::dec_ref_cnt: the last reference deletes the node and goes
\* on with the one to the next node.
Drop(t) ==
  /\ drop[t] # <<>>
  /\ LET n == Head(drop[t])
         left == nodes[n].ref_cnt - 1
     IN  /\ nodes' = [nodes EXCEPT ![n].ref_cnt = left]
         /\ freed' = IF left = 0 THEN freed \cup {n} ELSE freed
         /\ drop' = [drop EXCEPT ![t] =
              IF left = 0 /\ nodes[n].next # Null
              THEN <<nodes[n].next>> \o Tail(@) ELSE Tail(@)]
  /\ UNCHANGED <<writer, reader>>

\* A null pointer has no reference to give up.
DeleteReaderPtr(n) == IF n = Null THEN <<>> ELSE <<n>>

---------------------------------------------------------------------------
(* The writer.                                                             *)

WriterAt(l) == wpc = l /\ drop["writer"] = <<>>

\* prepare_append_inplace; a null writer_ has no room.
Room == IF nodes[tail_].sync THEN nodes[tail_].cap - nodes[tail_].len ELSE 0

Append_(size) ==
  /\ wpc' = "append" /\ want' = size
  /\ UNCHANGED <<nodes, freed, drop, head_, tail_, fresh, written, reader>>

AppendSlice ==
  /\ WriterAt("idle")
  /\ \E size \in 1 .. MaxBytes - written : Append_(size)

\* A BufferSlice is copied if it is small or fits, else it becomes a node.
AppendBufferSlice ==
  /\ WriterAt("idle")
  /\ \E size \in 1 .. MaxBytes - written :
       IF size < SmallSlice \/ Room >= size
       THEN Append_(size)
       ELSE /\ nodes' = Append(nodes, Node(written, size, size, FALSE))
            /\ fresh' = Len(nodes) + 1 /\ wpc' = "link"
            /\ UNCHANGED <<freed, drop, head_, tail_, want, written, reader>>

\* prepare_append_at_least: what room is left is given up if it is not enough.
AppendAtLeast ==
  /\ WriterAt("idle")
  /\ \E size \in 1 .. MaxBytes - written :
       want' = size /\ wpc' = IF Room >= size THEN "append" ELSE "alloc"
  /\ UNCHANGED <<nodes, freed, drop, head_, tail_, fresh, written, reader>>

\* Fault: more is confirmed than was copied.
shift_Room == Room

shift == IF Room < want THEN Room ELSE want

\* Copy what fits, and confirm_append stores end_.
ConfirmAppend ==
  /\ WriterAt("append") /\ Room > 0
  /\ nodes' = [nodes EXCEPT ![tail_].len = @ + shift]
  /\ want' = want - shift /\ written' = written + shift
  /\ wpc' = IF want = shift THEN "idle" ELSE "append"
  /\ UNCHANGED <<freed, drop, head_, tail_, fresh, reader>>

\* prepare_append_alloc
Alloc ==
  /\ WriterAt("alloc") \/ (WriterAt("append") /\ Room = 0)
  /\ nodes' = Append(nodes,
       Node(written, 0, IF want < HintLimit THEN AllocSize ELSE want, TRUE))
  /\ fresh' = Len(nodes) + 1 /\ wpc' = "link"
  /\ UNCHANGED <<freed, drop, head_, tail_, want, written, reader>>

\* Fault: next_ holds no reference of its own.
Link_NoRef ==
  /\ WriterAt("link")
  /\ nodes' = [nodes EXCEPT ![tail_].next = fresh]
  /\ wpc' = "release"
  /\ UNCHANGED <<freed, drop, head_, tail_, want, fresh, written, reader>>

\* tail_->next_ = clone(new_tail)
Link ==
  /\ WriterAt("link")
  /\ nodes' = [nodes EXCEPT ![fresh].ref_cnt = @ + 1, ![tail_].next = fresh]
  /\ wpc' = "release"
  /\ UNCHANGED <<freed, drop, head_, tail_, want, fresh, written, reader>>

\* tail_ = std::move(new_tail): the old tail loses its writer, then a reference.
Release ==
  /\ WriterAt("release")
  /\ nodes' = [nodes EXCEPT ![tail_].has_writer = FALSE]
  /\ drop' = [drop EXCEPT !["writer"] = <<tail_>>]
  /\ tail_' = fresh /\ fresh' = Null
  /\ written' = written + nodes[fresh].len
  /\ wpc' = IF want = 0 THEN "idle" ELSE "append"
  /\ UNCHANGED <<freed, head_, want, reader>>

\* The destructor: tail_ is released, and head_ if no reader was extracted.
Close ==
  /\ WriterAt("idle")
  /\ nodes' = [nodes EXCEPT ![tail_].has_writer = FALSE]
  /\ drop' = [drop EXCEPT !["writer"] = IF head_ = Null THEN <<tail_>> ELSE <<tail_, head_>>]
  /\ tail_' = Null /\ head_' = Null /\ wpc' = "closed"
  /\ UNCHANGED <<freed, want, fresh, written, reader>>

---------------------------------------------------------------------------
(* The reader.                                                             *)

ReaderAt(l) == rpc = l /\ drop["reader"] = <<>>

EndOf(x) == IF x = "begin" THEN "end" ELSE "end2"
Size(x) == it[EndOf(x)].offset - it[x].offset
Present(x) == it[x].from # Null

\* The function f starts, on the iterator x.
Call(f, x, n) ==
  /\ call' = [f |-> f, x |-> x, n |-> n, has_writer |-> FALSE]
  /\ promised' = IF f = "sync" /\ x = "end" THEN written ELSE promised

\* Copies of the iterators in xs hold references of their own.
AddRefs(xs) ==
  nodes' = [n \in DOMAIN nodes |->
    [nodes[n] EXCEPT !.ref_cnt = @ + Cardinality({x \in xs : it[x].head = n})]]

\* begin_ gets a reference of its own, end_ the one of head_, and end_ starts
\* advance_till_end.
ExtractReader ==
  /\ rpc = "none" /\ WriterAt("idle") /\ head_ # Null
  /\ nodes' = [nodes EXCEPT ![head_].ref_cnt = @ + 1]
  /\ it' = [x \in Ends |-> IF x \in {"begin", "end"} THEN Iterator(head_, 0) ELSE NoIterator]
  /\ head_' = Null
  /\ Call("sync", "end", 0) /\ rpc' = "look"
  /\ UNCHANGED <<freed, drop, tail_, wpc, want, fresh, written, ready>>

\* A call of a reader starts.
Start(f, x, n) ==
  /\ ReaderAt("idle") /\ Present(x) /\ Call(f, x, n) /\ rpc' = "look"
  /\ UNCHANGED <<nodes, freed, drop, writer, it, ready>>

SyncWithWriter == Start("sync", "end", 0)

PrepareRead(x) == Start("read", x, 0)

Advance(x) == \E n \in 1 .. Size(x) : Start("advance", x, n)

\* All of the reader, in one slice; of nothing it calls prepare_read, too.
MoveAsBufferSlice(x) == Start("move", x, Size(x))

\* Fault: the copy does not look at what the writer adds.
Clone_NoSync(r) == [r EXCEPT !.need_sync = FALSE]

Clone(r) == r

\* cut_head: a copy of begin_ advances by n bytes, ...
CutHead ==
  /\ ReaderAt("idle") /\ Present("begin") /\ ~Present("begin2")
  /\ it' = [it EXCEPT !["end2"] = Clone(it["begin"])]
  /\ AddRefs({"begin"})
  /\ \E n \in 0 .. Size("begin") :
       Call("cut", "end2", n) /\ rpc' = IF n = 0 THEN "cut" ELSE "look"
  /\ UNCHANGED <<freed, drop, writer, ready>>

\* ... another one is where the head begins, and the reader goes on after it.
CutDone ==
  /\ ReaderAt("cut")
  /\ it' = [it EXCEPT !["begin2"] = Clone(it["begin"]), !["begin"] = Clone(it["end2"])]
  /\ AddRefs({"begin", "end2"})
  /\ drop' = [drop EXCEPT !["reader"] = DeleteReaderPtr(it["begin"].head)]
  /\ rpc' = "idle" /\ call' = NoCall(call.n)
  /\ UNCHANGED <<freed, writer, ready, promised>>

\* Fault: the reader hands out what its own size() does not count.
Cut_Not(size) == size

\* What ChainBufferReader::prepare_read leaves of size bytes.
Cut(size) == IF size < Size(call.x) THEN size ELSE Size(call.x)

After == [sync |-> "idle", advance |-> "idle", cut |-> "cut", move |-> "drop"]

\* ChainBufferIterator::prepare_read of r returns size bytes.  ChainBufferReader
\* hands them to its caller, cut to its own size.  advance_till_end confirms them
\* and asks again until there are none; advance does until it has enough.
Return(r, size) ==
  LET n == IF call.f = "sync" \/ size < call.n THEN size ELSE call.n
      left_ == IF call.f = "sync" THEN 0 ELSE call.n - n
      more == size # 0 /\ (call.f = "sync" \/ left_ > 0)
      to == IF more THEN "look" ELSE After[call.f]
  IN IF call.f = "read"
     THEN /\ it' = [it EXCEPT ![call.x] = r]
          /\ ready' = Cut(size) /\ rpc' = "confirm"
          /\ UNCHANGED call
     ELSE /\ it' = [it EXCEPT ![call.x] = [r EXCEPT !.pos = @ + n, !.offset = @ + n]]
          /\ rpc' = to /\ call' = IF to = "idle" THEN NoCall(left_) ELSE [call EXCEPT !.n = left_]
          /\ UNCHANGED ready

Look ==
  /\ ReaderAt("look")
  /\ LET r == it[call.x]
     IN  IF r.head = Null \/ r.pos < r.lim
         THEN Return(r, IF r.head = Null THEN 0 ELSE r.lim - r.pos)
         ELSE rpc' = "load" /\ UNCHANGED <<it, call, ready>>
  /\ UNCHANGED <<nodes, freed, drop, writer, promised>>

\* Fault: the next node is tried without asking if the writer is done.
LoadHasWriter_Unchecked ==
  /\ ReaderAt("load")
  /\ rpc' = "sync" /\ call' = [call EXCEPT !.has_writer = FALSE]
  /\ UNCHANGED <<nodes, freed, drop, writer, it, ready, promised>>

\* Fault: a writer, once seen, is thought to be there for good.
LoadHasWriter_Stale ==
  /\ ReaderAt("load")
  /\ rpc' = "sync" /\ call' = [call EXCEPT !.has_writer = TRUE]
  /\ UNCHANGED <<nodes, freed, drop, writer, it, ready, promised>>

LoadHasWriter ==
  /\ ReaderAt("load")
  /\ rpc' = "sync" /\ call' = [call EXCEPT !.has_writer = nodes[it[call.x].head].has_writer]
  /\ UNCHANGED <<nodes, freed, drop, writer, it, ready, promised>>

SyncSlice ==
  /\ ReaderAt("sync")
  /\ LET old == it[call.x]
         r == IF old.need_sync THEN [old EXCEPT !.lim = nodes[old.from].len] ELSE old
     IN  IF r.pos < r.lim \/ call.has_writer
         THEN Return(r, r.lim - r.pos)
         ELSE it' = [it EXCEPT ![call.x] = r] /\ rpc' = "next" /\ UNCHANGED <<call, ready>>
  /\ UNCHANGED <<nodes, freed, drop, writer, promised>>

\* head_ = clone(head_->next_) takes the new reference before it gives up the
\* old one; then load_head.
NextNode ==
  /\ ReaderAt("next")
  /\ LET old == it[call.x].head
         new == nodes[old].next
     IN  /\ drop' = [drop EXCEPT !["reader"] = <<old>>]
         /\ IF new = Null
            THEN it' = [it EXCEPT ![call.x].head = Null] /\ UNCHANGED nodes
            ELSE /\ it' = [it EXCEPT ![call.x] = Iterator(new, @.offset)]
                 /\ nodes' = [nodes EXCEPT ![new].ref_cnt = @ + 1]
  /\ rpc' = "look"
  /\ call' = [call EXCEPT !.has_writer = FALSE]
  /\ UNCHANGED <<freed, writer, ready, promised>>

\* The caller of prepare_read takes any part of what it was handed.
ConfirmRead ==
  /\ ReaderAt("confirm")
  /\ \E size \in 0 .. ready :
       it' = [it EXCEPT ![call.x].pos = @ + size, ![call.x].offset = @ + size]
  /\ ready' = 0 /\ rpc' = "idle" /\ call' = NoCall(0)
  /\ UNCHANGED <<nodes, freed, drop, writer, promised>>

\* The end of a reader: end_ goes, then begin_.
Destroy(x) ==
  /\ drop' = [drop EXCEPT !["reader"] =
       DeleteReaderPtr(it[EndOf(x)].head) \o DeleteReaderPtr(it[x].head)]
  /\ it' = [y \in Ends |->
              IF y \notin {x, EndOf(x)} THEN it[y]
              ELSE [NoIterator EXCEPT !.offset = IF x = "begin" THEN it[y].offset ELSE 0]]
  /\ rpc' = IF \E y \in Begins \ {x} : Present(y) THEN "idle" ELSE "gone"
  /\ call' = NoCall(call.n)
  /\ UNCHANGED <<nodes, freed, writer, ready, promised>>

DropReader == ReaderAt("idle") /\ \E x \in Begins : Present(x) /\ Destroy(x)

\* move_as_buffer_slice leaves an empty reader.
MoveDone == ReaderAt("drop") /\ Destroy(call.x)

---------------------------------------------------------------------------
Writer ==
  AppendSlice \/ AppendBufferSlice \/ AppendAtLeast \/ ConfirmAppend \/ Alloc \/ Link \/ Release \/ Close
  \/ Drop("writer")

\* Steps inside a call of the reader.
InCall ==
  Look \/ LoadHasWriter \/ SyncSlice \/ NextNode \/ ConfirmRead \/ CutDone \/ MoveDone
  \/ Drop("reader")

Reader ==
  \/ ExtractReader \/ SyncWithWriter \/ CutHead \/ InCall \/ DropReader
  \/ \E x \in Begins :
       PrepareRead(x) \/ Advance(x) \/ MoveAsBufferSlice(x)

Done ==
  /\ wpc = "closed" /\ rpc \in {"none", "gone"} /\ drop["writer"] = <<>> /\ drop["reader"] = <<>>
  /\ UNCHANGED vars

Next == Writer \/ Reader \/ Done

\* A call of the reader runs to its end, and its owner keeps asking for bytes
\* and takes them when it is handed some.
Polling ==
  /\ WF_vars(InCall)
  /\ SF_vars(SyncWithWriter) /\ SF_vars(PrepareRead("begin"))
  /\ SF_vars(ConfirmRead /\ it'["begin"].offset > it["begin"].offset)

Spec == Init /\ [][Next]_vars /\ Polling

---------------------------------------------------------------------------
(* Properties.                                                             *)

Threads == {"writer", "reader"}
Refs == 0 .. Len(nodes)

NodeType ==
  [first : Nat, len : Nat, cap : Nat, sync : BOOLEAN,
   next : Nat, has_writer : BOOLEAN, ref_cnt : Nat]

IteratorType ==
  [head : Nat, from : Nat, pos : Nat, lim : Nat, need_sync : BOOLEAN, offset : Nat]

\* The variables have their types, and every reference is to a node made.
TypeOK ==
  /\ nodes \in Seq(NodeType) /\ freed \subseteq 1 .. Len(nodes)
  /\ \A n \in 1 .. Len(nodes) : nodes[n].next \in Refs
  /\ drop \in [Threads -> Seq(1 .. Len(nodes))]
  /\ {head_, tail_, fresh} \subseteq Refs
  /\ wpc \in {"idle", "append", "alloc", "link", "release", "closed"}
  /\ want \in Nat /\ written \in Nat
  /\ it \in [Ends -> IteratorType] /\ \A x \in Ends : {it[x].head, it[x].from} \subseteq Refs
  /\ rpc \in {"none", "idle", "look", "load", "sync", "next", "confirm", "cut", "drop", "gone"}
  /\ call \in [f : DOMAIN After \cup {"none", "read"}, x : Ends, n : Nat, has_writer : BOOLEAN] /\ ready \in Nat /\ promised \in Nat

\* What prepare_read hands out next is the byte at the iterator's own offset in
\* the stream, and the buffer holds every byte handed out: an iterator that
\* moves to the next node has missed none that was appended to the old one.
InOrder ==
  \A x \in Ends : LET r == it[x] IN r.pos < r.lim =>
    /\ nodes[r.from].first + r.pos = r.offset
    /\ r.lim <= nodes[r.from].len

\* A reader never takes more than size(), and size() never more than was written:
\* what begin_ sees ahead of end_ is cut off.
WithinSize ==
  \A x \in {y \in Begins : Present(y)} :
    /\ it[x].offset + (IF call.x = x THEN ready ELSE 0) <= it[EndOf(x)].offset
    /\ it[EndOf(x)].offset <= written

\* advance, cut_head and move_as_buffer_slice find every byte that size() counts,
\* though begin_ gets to it after end_ did and sees a later state of the writer:
\* the slice that move_as_buffer_slice makes has no bytes that were never set.
AdvanceComplete == rpc \in {"idle", "cut", "drop", "gone"} => call.n = 0

\* When sync_with_writer or extract_reader returns, size() counts every byte
\* whose append had returned before the call.
SyncSeesAppended == rpc = "idle" => it["end"].offset >= promised

\* next_ of a node is not atomic: the writer is done with it before the reader
\* looks at it.
NoRaceOnNext == ~(wpc = "link" /\ rpc = "next" /\ it[call.x].head = tail_)

\* No thread holds a node that was deleted, and no live node leads to one.
NoUseAfterFree ==
  /\ {head_, tail_, fresh} \cap freed = {}
  /\ \A x \in Ends : it[x].head \notin freed
  /\ \A n \in 1 .. Len(nodes) \ freed : nodes[n].next \notin freed

\* Once the writer and the reader are gone, every node has been deleted.
NoLeak ==
  wpc = "closed" /\ rpc \in {"none", "gone"} /\ (\A t \in Threads : drop[t] = <<>>) =>
    freed = 1 .. Len(nodes)

\* The chain of nodes is a byte stream to its users.
Stream == INSTANCE ByteStream WITH
  seen <- it["end"].offset, consumed <- it["begin"].offset, closed <- wpc = "closed"

ImplementsByteStream == Stream!Spec

\* Once the writer is gone, a reader that keeps asking takes every byte.
EverythingRead ==
  wpc = "closed" /\ Present("begin") ~>
    (it["begin"].offset = written \/ ~Present("begin"))
=============================================================================
