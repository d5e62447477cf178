----------------------------- MODULE ByteStream -----------------------------
(***************************************************************************)
(* What a chain buffer promises: a stream of bytes from one writer to one  *)
(* reader.  The reader learns of what was written with some delay and      *)
(* consumes no more than it has learned of; nothing is lost, repeated or   *)
(* reordered, so counts of bytes say it all.                               *)
(***************************************************************************)
EXTENDS Naturals

VARIABLES
  written,   \* bytes appended
  seen,      \* bytes the reader knows of
  consumed,  \* bytes the reader has taken
  closed     \* no more bytes will come

vars == <<written, seen, consumed, closed>>

Init == written = 0 /\ seen = 0 /\ consumed = 0 /\ closed = FALSE

Write ==
  /\ ~closed /\ written' \in Nat /\ written' > written
  /\ UNCHANGED <<seen, consumed, closed>>

See ==
  /\ seen' \in (seen + 1) .. written
  /\ UNCHANGED <<written, consumed, closed>>

Consume ==
  /\ consumed' \in (consumed + 1) .. seen
  /\ UNCHANGED <<written, seen, closed>>

Close ==
  /\ ~closed /\ closed' = TRUE
  /\ UNCHANGED <<written, seen, consumed>>

Next == Write \/ See \/ Consume \/ Close

Spec == Init /\ [][Next]_vars
=============================================================================
