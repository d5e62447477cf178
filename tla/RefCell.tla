------------------------------ MODULE RefCell -------------------------------
(***************************************************************************)
(* What an atomic reference promises: the class AtomicRefSpinlock of       *)
(* common/AtomicRef.h, whose operations happen one at a time under a lock, *)
(* over objects that exist for as long as somebody refers to them and that *)
(* nobody changes while somebody else refers to them.                      *)
(***************************************************************************)
CONSTANTS Threads, Objects, NoObj

VARIABLES
  value,    \* ref_: the object the cell refers to, or NoObj
  ref,      \* the Ref of each thread
  writing   \* the threads that are changing the object they refer to

vars == <<value, ref, writing>>

Init == value = NoObj /\ ref = [t \in Threads |-> NoObj] /\ writing = {}

Referenced == {value} \cup {ref[t] : t \in Threads}

Get(t, o) == ref' = [ref EXCEPT ![t] = o]

\* make_ref: a new object is one that nobody refers to.
New(t) ==
  /\ ref[t] = NoObj /\ \E o \in Objects \ Referenced : Get(t, o)
  /\ UNCHANGED <<value, writing>>

Copy(t, u) ==
  /\ ref[t] # NoObj /\ t \notin writing /\ ref[u] = NoObj /\ Get(u, ref[t])
  /\ UNCHANGED <<value, writing>>

Clear(t) == t \notin writing /\ Get(t, NoObj) /\ UNCHANGED <<value, writing>>

Load(t) == ref[t] = NoObj /\ Get(t, value) /\ UNCHANGED <<value, writing>>

Store(t) == t \notin writing /\ value' = ref[t] /\ Get(t, NoObj) /\ UNCHANGED writing

\* The caller's Ref is moved from; the lock-free class leaves it to the caller.
StoreIfEmpty(t) ==
  /\ ref[t] # NoObj /\ t \notin writing
  /\ value = NoObj /\ value' = ref[t]
  /\ Get(t, NoObj) \/ UNCHANGED ref
  /\ UNCHANGED writing

Extract(t) ==
  /\ ref[t] = NoObj /\ Get(t, value)
  /\ value' = NoObj /\ UNCHANGED writing

\* The end of the cell itself.
Destroy == value' = NoObj /\ UNCHANGED <<ref, writing>>

Exclusive(t) == value # ref[t] /\ \A u \in Threads \ {t} : ref[u] # ref[t]

\* Ref::write: in place if nobody else refers to the object, else in a copy.
Write(t) ==
  /\ ref[t] # NoObj /\ t \notin writing
  /\ \/ Exclusive(t) /\ UNCHANGED ref
     \/ \E o \in Objects \ Referenced : Get(t, o)
  /\ writing' = writing \cup {t} /\ UNCHANGED value

WriteEnd(t) ==
  /\ t \in writing /\ writing' = writing \ {t}
  /\ UNCHANGED <<value, ref>>

Next ==
  \/ Destroy
  \/ \E t \in Threads :
       \/ New(t) \/ Clear(t) \/ Load(t) \/ Store(t) \/ StoreIfEmpty(t) \/ Extract(t)
       \/ Write(t) \/ WriteEnd(t) \/ \E u \in Threads : Copy(t, u)

Spec == Init /\ [][Next]_vars
=============================================================================
