------------------------------ MODULE Contest -------------------------------
(***************************************************************************)
(* What tester/run_tests.py promises about a solution, with no processes,  *)
(* no timers and no files: the blocks are judged one after the other, a    *)
(* block passes only if the solution is able to carry it, and the judging  *)
(* comes to an end.                                                        *)
(***************************************************************************)
EXTENDS Naturals, Sequences

VARIABLES
  tests,     \* the blocks to judge
  able,      \* the blocks that the solution can compress and restore
  verdicts,  \* of the blocks judged so far: did it pass?
  over

vars == <<tests, able, verdicts, over>>

Init == verdicts = <<>> /\ over = FALSE

Judge ==
  /\ ~over /\ Len(verdicts) < Len(tests)
  /\ \E passed \in BOOLEAN :
       /\ passed => tests[Len(verdicts) + 1] \in able
       /\ verdicts' = Append(verdicts, passed)
  /\ UNCHANGED <<tests, able, over>>

Close ==
  /\ ~over /\ over' = TRUE
  /\ Len(verdicts) = Len(tests)
  /\ UNCHANGED <<tests, able, verdicts>>

\* A file that holds no acceptable block ends the judging early.
GiveUp ==
  /\ ~over /\ over' = TRUE
  /\ Len(verdicts) < Len(tests) /\ tests[Len(verdicts) + 1] \notin able
  /\ UNCHANGED <<tests, able, verdicts>>

Next == Judge \/ Close \/ GiveUp

Spec == Init /\ [][Next]_vars /\ WF_vars(Next)
=============================================================================
