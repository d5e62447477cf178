----------------------------- MODULE MpmcQueue ------------------------------
(***************************************************************************)
(* MpmcQueue of td/utils/MpmcQueue.h: a queue between threads, as a chain  *)
(* of nodes whose slots writers and readers claim by counting up; and      *)
(* HazardPointers of td/utils/HazardPointers.h, by which a reader that     *)
(* unlinks a node finds out whether it may delete it.                      *)
(*                                                                         *)
(* A step is one access to memory that threads share.  A slot that its     *)
(* reader reaches before its writer is Taken, and lost to both: they try   *)
(* the next one.  The memory of a deleted node is used again.              *)
(***************************************************************************)
EXTENDS Integers, Sequences, FiniteSets

CONSTANTS
  Writers, Readers,  \* their thread_ids
  Nodes,             \* the places of nodes in memory: a bound
  Null,
  Size,              \* slots of a node (1024)
  Calls              \* how often each thread calls push or try_pop: a bound

Threads == Writers \cup Readers
LastThread == Cardinality(Threads) - 1

ASSUME MpmcQueueAssumption ==
  /\ LastThread \in Nat /\ Threads = 0 .. LastThread
  /\ Writers \cap Readers = {}
  /\ Null \notin Nodes /\ Nodes # {} /\ Size \in Nat \ {0} /\ Calls \in Nat

VARIABLES
  write_pos, read_pos,  \* write_pos_ and read_pos_: nodes
  mem,                  \* the nodes: next, and the block's write_pos, read_pos and data
  live,                 \* the places that hold a node
  hazard, retired,      \* hazard_ and to_delete_ of each thread
  pc,
  local,                \* of push and try_pop: node; pos; next or new_node
  at,                   \* retire: the place in to_delete_ and the thread to look at
  calls,                \* how many calls each thread has begun
  \* History: the values that were put in the queue and taken out; those that were
  \* in before a reader's call began, and those before the push of a value did.
  pushed, popped, before, older

queue == <<write_pos, read_pos, mem, live>>
history == <<pushed, popped, before, older>>
vars == <<queue, hazard, retired, pc, local, at, calls, history>>

Values == Writers \X (1 .. Calls)
Empty == <<>>
Taken == <<0>>

Blank == [next |-> Null, wpos |-> 0, rpos |-> 0, data |-> [i \in 0 .. Size - 1 |-> Empty]]

\* The locals of a thread that knows no more than its node.
At(n) == [node |-> n, pos |-> 0, target |-> Null]

Init ==
  /\ write_pos \in Nodes
  /\ read_pos = write_pos /\ live = {write_pos} /\ mem = [n \in Nodes |-> Blank]
  /\ hazard = [t \in Threads |-> Null] /\ retired = [t \in Threads |-> <<>>]
  /\ pc = [t \in Threads |-> "idle"]
  /\ local = [t \in Threads |-> At(Null)] /\ at = [t \in Threads |-> <<1, 0>>]
  /\ calls = [t \in Threads |-> 0]
  /\ pushed = {} /\ popped = {} /\ before = [r \in Readers |-> {}]
  /\ older = [v \in Values |-> {}]

\* A step of thread t, to the place l, where its locals are x.
Goto(t, l, x) == pc' = [pc EXCEPT ![t] = l] /\ local' = [local EXCEPT ![t] = x]
Go(t, from, to) == pc[t] = from /\ Goto(t, to, local[t])

Begin(t) == calls[t] < Calls /\ calls' = [calls EXCEPT ![t] = @ + 1]

Node(t) == local[t].node
Here(t) == mem[Node(t)]
Slot(t) == Here(t).data[local[t].pos]
Arg(w) == <<w, calls[w]>>

---------------------------------------------------------------------------
(* HazardPointers.                                                         *)

\* protect: the pointer is announced, and must then still be the same.
Root(t) == IF t \in Writers THEN write_pos ELSE read_pos

Protect(t) ==
  /\ pc[t] = "protect" /\ Goto(t, "announce", At(Root(t)))
  /\ UNCHANGED <<queue, hazard, retired, at, calls, history>>

Announce(t) ==
  /\ Go(t, "announce", "recheck") /\ hazard' = [hazard EXCEPT ![t] = Node(t)]
  /\ UNCHANGED <<queue, retired, at, calls, history>>

\* Fault: the pointer is not read again.
Recheck_Not(t) ==
  /\ Go(t, "recheck", IF t \in Writers THEN "claim" ELSE "look")
  /\ UNCHANGED <<queue, hazard, retired, at, calls, history>>

Recheck(t) ==
  /\ pc[t] = "recheck"
  /\ Goto(t, CASE Root(t) # Node(t) -> "announce"
               [] Root(t) = Node(t) /\ t \in Writers -> "claim"
               [] OTHER -> "look", At(Root(t)))
  /\ UNCHANGED <<queue, hazard, retired, at, calls, history>>

\* The end of push and try_pop.
Clear(t) ==
  /\ pc[t] \in {"done", "empty"} /\ Goto(t, "idle", At(Null))
  /\ hazard' = [hazard EXCEPT ![t] = Null]
  /\ before' = [r \in Readers |-> IF r = t THEN {} ELSE before[r]]
  /\ UNCHANGED <<queue, retired, at, calls, pushed, popped, older>>

\* retire: for each node in to_delete_, the threads' pointers one after the other.
Look(t) ==
  LET i == at[t][1]
      k == at[t][2]
      keep == hazard[k] = retired[t][i]
      free == ~keep /\ k = LastThread
      rest == SubSeq(retired[t], 1, i - 1) \o SubSeq(retired[t], i + 1, Len(retired[t]))
      last == i = Len(retired[t]) /\ (keep \/ free)
      back == IF pc[t] = "gc" THEN "idle" ELSE "protect"
  IN /\ pc[t] \in {"retire", "gc"}
     /\ retired' = IF free THEN [retired EXCEPT ![t] = rest] ELSE retired
     /\ live' = IF free THEN live \ {retired[t][i]} ELSE live
     /\ mem' = IF free THEN [mem EXCEPT ![retired[t][i]] = Blank] ELSE mem
     /\ at' = [at EXCEPT ![t] = CASE last -> <<1, 0>>
                                  [] ~last /\ keep -> <<i + 1, 0>>
                                  [] ~last /\ free -> <<i, 0>>
                                  [] OTHER -> <<i, k + 1>>]
     /\ Goto(t, IF last THEN back ELSE pc[t], At(Null))
     /\ UNCHANGED <<write_pos, read_pos, hazard, calls, history>>

Gc(t) ==
  /\ retired[t] # <<>> /\ Go(t, "idle", "gc")
  /\ UNCHANGED <<queue, hazard, retired, at, calls, history>>

---------------------------------------------------------------------------
(* push.                                                                   *)

Push(w) ==
  /\ Begin(w) /\ Go(w, "idle", "protect")
  /\ older' = [older EXCEPT ![<<w, calls'[w]>>] = pushed]
  /\ UNCHANGED <<queue, hazard, retired, at, pushed, popped, before>>

ClaimWrite(w) ==
  LET p == Here(w).wpos
  IN /\ pc[w] = "claim" /\ mem' = [mem EXCEPT ![Node(w)].wpos = @ + 1]
     /\ IF p < Size THEN Goto(w, "set", [local[w] EXCEPT !.pos = p])
                    ELSE Goto(w, "next", local[w])
     /\ UNCHANGED <<write_pos, read_pos, live, hazard, retired, at, calls, history>>

\* Fault: a slot that its reader gave up is written to.
SetValue_Taken(w) ==
  /\ Go(w, "set", "done") /\ pushed' = pushed \cup {Arg(w)}
  /\ mem' = [mem EXCEPT ![Node(w)].data[local[w].pos] = Arg(w)]
  /\ UNCHANGED <<write_pos, read_pos, live, hazard, retired, at, calls, popped, before, older>>

SetValue(w) ==
  /\ pc[w] = "set"
  /\ IF Slot(w) = Empty
     THEN /\ mem' = [mem EXCEPT ![Node(w)].data[local[w].pos] = Arg(w)]
          /\ pushed' = pushed \cup {Arg(w)} /\ Goto(w, "done", At(Null))
     ELSE Goto(w, "protect", At(Null)) /\ UNCHANGED <<mem, pushed>>
  /\ UNCHANGED <<write_pos, read_pos, live, hazard, retired, at, calls, popped, before, older>>

\* The node is full: there is a next one, or the value goes into a new node.
NextNode(w) ==
  /\ pc[w] = "next"
  /\ \/ /\ Here(w).next # Null /\ UNCHANGED <<mem, live>>
        /\ Goto(w, "swing", [local[w] EXCEPT !.target = Here(w).next])
     \/ /\ Here(w).next = Null
        /\ \E n \in Nodes \ live :
             /\ live' = live \cup {n} /\ Goto(w, "link", [local[w] EXCEPT !.target = n])
             /\ mem' = [mem EXCEPT ![n].wpos = 1, ![n].data[0] = Arg(w)]
  /\ UNCHANGED <<write_pos, read_pos, hazard, retired, at, calls, history>>

\* Fault: the node that another writer has linked since is cut off.
Link_Store(w) ==
  /\ Go(w, "link", "finish") /\ pushed' = pushed \cup {Arg(w)}
  /\ mem' = [mem EXCEPT ![Node(w)].next = local[w].target]
  /\ UNCHANGED <<write_pos, read_pos, live, hazard, retired, at, calls, popped, before, older>>

Link(w) ==
  /\ pc[w] = "link"
  /\ IF Here(w).next = Null
     THEN /\ mem' = [mem EXCEPT ![Node(w)].next = local[w].target] /\ UNCHANGED live
          /\ pushed' = pushed \cup {Arg(w)} /\ Goto(w, "finish", local[w])
     ELSE /\ mem' = [mem EXCEPT ![local[w].target] = Blank]
          /\ live' = live \ {local[w].target}
          /\ Goto(w, "protect", At(Null)) /\ UNCHANGED pushed
  /\ UNCHANGED <<write_pos, read_pos, hazard, retired, at, calls, popped, before, older>>

Swing(w) ==
  /\ \/ pc[w] = "swing" /\ Goto(w, "protect", At(Null))
     \/ pc[w] = "finish" /\ Goto(w, "done", At(Null))
  /\ write_pos' = IF write_pos = Node(w) THEN local[w].target ELSE write_pos
  /\ UNCHANGED <<read_pos, mem, live, hazard, retired, at, calls, history>>

---------------------------------------------------------------------------
(* try_pop, which pop calls until it has a value.                          *)

TryPop(r) ==
  /\ Begin(r) /\ Go(r, "idle", "protect") /\ before' = [before EXCEPT ![r] = pushed \ popped]
  /\ UNCHANGED <<queue, hazard, retired, at, pushed, popped, older>>

\* The block's write_pos, then its read_pos, then next.  C++ leaves open which
\* counter is read first; the other order lets the reader do nothing more.
ReadWritePos(r) ==
  /\ pc[r] = "look" /\ Goto(r, "compare", [local[r] EXCEPT !.pos = Here(r).wpos])
  /\ UNCHANGED <<queue, hazard, retired, at, calls, history>>

Compare(r) ==
  /\ pc[r] = "compare"
  /\ Goto(r, IF local[r].pos <= Here(r).rpos THEN "last" ELSE "take", At(Node(r)))
  /\ UNCHANGED <<queue, hazard, retired, at, calls, history>>

\* Fault: the queue is empty when the reader has caught up in this node.
LastNode_Unchecked(r) ==
  /\ Go(r, "last", "empty")
  /\ UNCHANGED <<queue, hazard, retired, at, calls, history>>

LastNode(r) ==
  /\ pc[r] = "last" /\ Goto(r, IF Here(r).next = Null THEN "empty" ELSE "take", local[r])
  /\ UNCHANGED <<queue, hazard, retired, at, calls, history>>

ClaimRead(r) ==
  LET p == Here(r).rpos
  IN /\ pc[r] = "take" /\ mem' = [mem EXCEPT ![Node(r)].rpos = @ + 1]
     /\ IF p < Size THEN Goto(r, "get", [local[r] EXCEPT !.pos = p])
                    ELSE Goto(r, "after", local[r])
     /\ UNCHANGED <<write_pos, read_pos, live, hazard, retired, at, calls, history>>

GetValue(r) ==
  /\ pc[r] = "get" /\ mem' = [mem EXCEPT ![Node(r)].data[local[r].pos] = Taken]
  /\ IF Slot(r) \in Values
     THEN popped' = popped \cup {Slot(r)} /\ Goto(r, "done", At(Null))
     ELSE Goto(r, "protect", At(Null)) /\ UNCHANGED popped
  /\ UNCHANGED <<write_pos, read_pos, live, hazard, retired, at, calls, pushed, before, older>>

\* Fault: the reader goes on from the last node, too.
After_Unchecked(r) ==
  /\ pc[r] = "after" /\ Goto(r, "advance", [local[r] EXCEPT !.target = Here(r).next])
  /\ UNCHANGED <<queue, hazard, retired, at, calls, history>>

After(r) ==
  /\ pc[r] = "after"
  /\ Goto(r, IF Here(r).next = Null THEN "empty" ELSE "advance",
             [local[r] EXCEPT !.target = Here(r).next])
  /\ UNCHANGED <<queue, hazard, retired, at, calls, history>>

\* Fault: every reader that finds the node used up retires it.
Advance_Always(r) ==
  /\ Go(r, "advance", "release")
  /\ read_pos' = IF read_pos = Node(r) THEN local[r].target ELSE read_pos
  /\ UNCHANGED <<write_pos, mem, live, hazard, retired, at, calls, history>>

Advance(r) ==
  /\ pc[r] = "advance"
  /\ IF read_pos = Node(r)
     THEN read_pos' = local[r].target /\ Goto(r, "release", At(Node(r)))
     ELSE Goto(r, "protect", At(Null)) /\ UNCHANGED read_pos
  /\ UNCHANGED <<write_pos, mem, live, hazard, retired, at, calls, history>>

\* Its own pointer would protect the node from itself.
Release(r) ==
  /\ pc[r] = "release" /\ Goto(r, "retire", At(Null))
  /\ hazard' = [hazard EXCEPT ![r] = Null]
  /\ retired' = [retired EXCEPT ![r] = Append(@, Node(r))]
  /\ UNCHANGED <<queue, at, calls, history>>

---------------------------------------------------------------------------
Next ==
  \/ \E t \in Threads : Protect(t) \/ Announce(t) \/ Recheck(t) \/ Clear(t)
  \/ \E w \in Writers :
       \/ Push(w) \/ ClaimWrite(w) \/ SetValue(w) \/ NextNode(w) \/ Link(w) \/ Swing(w)
  \/ \E r \in Readers :
       \/ TryPop(r) \/ ReadWritePos(r) \/ Compare(r) \/ LastNode(r) \/ ClaimRead(r)
       \/ GetValue(r) \/ After(r) \/ Advance(r) \/ Release(r) \/ Look(r) \/ Gc(r)

Spec == Init /\ [][Next]_vars

---------------------------------------------------------------------------
(* Properties.                                                             *)

TypeOK ==
  /\ {write_pos, read_pos} \subseteq Nodes /\ live \subseteq Nodes
  /\ \A n \in Nodes :
       /\ mem[n].next \in Nodes \cup {Null} /\ {mem[n].wpos, mem[n].rpos} \subseteq Nat
       /\ \A i \in 0 .. Size - 1 : mem[n].data[i] \in Values \cup {Empty, Taken}
  /\ \A t \in Threads :
       /\ {hazard[t], Node(t), local[t].target} \subseteq Nodes \cup {Null}
       /\ local[t].pos \in Nat
       /\ retired[t] \in Seq(Nodes) /\ calls[t] \in 0 .. Calls
  /\ popped \subseteq pushed /\ pushed \subseteq Values

\* The nodes from n on: they are in every set that has n and the next of each.
Closed(S) == \A n \in S : mem[n].next \in S \cup {Null}
ChainFrom(n) == {m \in Nodes : \A S \in SUBSET Nodes : n \in S /\ Closed(S) => m \in S}

\* The slots that the readers have still to claim, and those they are at.
Unread == {s \in ChainFrom(read_pos) \X (0 .. Size - 1) : s[2] >= mem[s[1]].rpos}
AtReaders == {<<Node(r), local[r].pos>> : r \in {s \in Readers : pc[s] = "get"}}

Holds(slots, v) == {s \in slots : mem[s[1]].data[s[2]] = v}

\* A value that was pushed is in one slot that a reader will get to, or that one
\* is at, until one reader has popped it: none is lost and none comes out twice.
Conserved ==
  \A v \in pushed :
    Cardinality(Holds(Unread \cup AtReaders, v)) = IF v \in popped THEN 0 ELSE 1

Reached(v) == v \in popped \/ Holds(AtReaders, v) # {}

\* First in, first out: readers get to values in the order in which they were
\* pushed, by whomever, where one push began after the other had taken effect.
InOrder == \A v \in pushed : Reached(v) => \A u \in older[v] : Reached(u)

\* try_pop says that the queue is empty only if readers have got to everything
\* that was in it before the call.
EmptyIsTrue ==
  \A r \in Readers : pc[r] = "empty" => \A v \in before[r] : Holds(Unread, v) = {}

InNode == {"claim", "set", "next", "link", "look", "compare", "last", "take", "get", "after"}

\* A reader that is in a node, whatever the others do, is in one that exists, and
\* read_pos_ is to such a node.
ReadersSafe ==
  read_pos \in live /\ \A r \in Readers : pc[r] \in InNode => Node(r) \in live

\* The same for the writers: a queue of many producers.
NoUseAfterFree ==
  write_pos \in live /\ \A w \in Writers : pc[w] \in InNode => Node(w) \in live

\* No writer has used a deleted node so far, nor compares write_pos_ to one.  What
\* happens after that is undefined.
Defined ==
  /\ write_pos \in live
  /\ \A w \in Writers : pc[w] \in InNode \cup {"swing", "finish"} => Node(w) \in live

DefinedSpec == Init /\ [][Defined /\ Next]_vars

Listed(n) ==
  UNION {{<<t, i>> : i \in {j \in DOMAIN retired[t] : retired[t][j] = n}} : t \in Threads}
Private == {local[w].target : w \in {x \in Writers : pc[x] = "link"}}
Unlinked == {Node(r) : r \in {s \in Readers : pc[s] = "release"}}

\* Every node in memory is in the chain, or a writer's own that is not linked yet,
\* or was unlinked by one reader, in whose to_delete_ it is once: none is leaked
\* or deleted twice.
NodesAccounted ==
  \A n \in Nodes :
    Cardinality(Listed(n)) =
      IF n \in live \ (ChainFrom(read_pos) \cup Private \cup Unlinked) THEN 1 ELSE 0
=============================================================================
