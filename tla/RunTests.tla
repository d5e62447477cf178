------------------------------ MODULE RunTests ------------------------------
(***************************************************************************)
(* tester/run_tests.py (and test.py, the same program with a shorter time  *)
(* limit): for every test file, run ./solution to compress the block and   *)
(* then to decompress what it printed, compare, and keep the score.        *)
(*                                                                         *)
(* Here the child process is anything: once spawned it may exit at any     *)
(* time with any status and any output.  SolutionTests puts the solutions  *)
(* of the repository in its place.                                         *)
(***************************************************************************)
EXTENDS Integers, Sequences, FiniteSets

CONSTANTS
  Texts,       \* what can stand in a test file or come out of a process
  EmptyText,   \* no token at all
  NotUtf8,     \* texts that subprocess.run cannot decode
  NotAscii,    \* texts on which b64decode raises ValueError, not binascii.Error
  Base64Size,  \* KiB that a text decodes to, None where binascii.Error is raised
  ExitCodes,   \* statuses of a process; 0 is success
  Listings     \* contents of tests/: the second token of each file, in sorted order

None == -1

ASSUME HarnessAssumption ==
  /\ EmptyText \in Texts
  /\ NotUtf8 \subseteq Texts /\ NotAscii \subseteq Texts
  /\ EmptyText \notin NotUtf8 \cup NotAscii
  /\ Base64Size \in [Texts -> Nat \cup {None}]
  /\ Base64Size[EmptyText] = 0
  /\ \A t \in Texts : Base64Size[t] = 0 => t = EmptyText
  /\ ExitCodes \subseteq Int /\ 0 \in ExitCodes
  /\ Listings \subseteq Seq(Texts)

VARIABLES
  tests,             \* the listing this run of the script found
  phase,             \* where the loop of the script is
  child,             \* the process started by subprocess.run
  compressed_block,  \* stdout of the first run of this test
  report,            \* the rows printed so far, one per judged test
  n_ok,
  total_points

harness == <<tests, phase, compressed_block, report, n_ok, total_points>>
vars == <<harness, child>>

MaxBlock == 2048                                     \* 2 ** 21 bytes

Tags == {"TL", "RE", "PE", "WA", "OK"}
Row(tag, size) == [tag |-> tag, size |-> size]

\* The current test is the one after the rows printed.
test == Len(report) + 1
original_block == tests[test]

NoChild == [state |-> "none", mode |-> "none", text |-> EmptyText,
            stdout |-> EmptyText, code |-> 0]

Spawned(mode, text) ==
  [NoChild EXCEPT !.state = "spawned", !.mode = mode, !.text = text]

\* Fault: the ratio of the sizes instead of their share.
Points_Ratio(original_size, packed_size) ==
  (2000 * original_size) \div (packed_size + 1)

\* Points of a passed test; the script keeps fractions, the model rounds down.
Points(original_size, packed_size) ==
  (2000 * original_size) \div (original_size + packed_size)

Init ==
  /\ tests \in Listings
  /\ phase = "next" /\ compressed_block = EmptyText
  /\ report = <<>> /\ n_ok = 0 /\ total_points = 0
  /\ child = NoChild

---------------------------------------------------------------------------
(* The loop body.                                                          *)

NoTests ==
  /\ phase = "next" /\ tests = <<>>
  /\ phase' = "exit2"
  /\ UNCHANGED <<tests, child, compressed_block, report, n_ok, total_points>>

\* split()[1] finds a token, and neither get_base64_size nor an assert raises.
AcceptableBlock ==
  /\ original_block # EmptyText
  /\ original_block \notin NotUtf8 \cup NotAscii
  /\ Base64Size[original_block] # None
  /\ Base64Size[original_block] <= MaxBlock

StartCompress ==
  /\ phase = "next" /\ test <= Len(tests) /\ AcceptableBlock
  /\ phase' = "compress"
  /\ child' = Spawned("compress", original_block)
  /\ UNCHANGED <<tests, compressed_block, report, n_ok, total_points>>

\* An exception nothing catches ends the script: no row, no totals.
Raise ==
  /\ phase' = "crashed"
  /\ UNCHANGED <<tests, child, compressed_block, report, n_ok, total_points>>

BadTestFile ==
  /\ phase = "next" /\ test <= Len(tests) /\ ~AcceptableBlock
  /\ Raise

\* Fault: the process outlives its test.
Fails_NoKill(tag, size) ==
  /\ report' = Append(report, Row(tag, size))
  /\ phase' = "next"
  /\ UNCHANGED <<tests, child, compressed_block, n_ok, total_points>>

\* Print the row of a test that did not pass, and continue.
Fails(tag, size) ==
  /\ report' = Append(report, Row(tag, size))
  /\ phase' = "next" /\ child' = NoChild
  /\ UNCHANGED <<tests, compressed_block, n_ok, total_points>>

Waiting(p) == phase = p /\ child.state \in {"spawned", "running"}
\* subprocess.run returned, which it does only if it could decode stdout.
Returned(p) == phase = p /\ child.state = "exited" /\ child.stdout \notin NotUtf8

\* Fault: subprocess.run without a time limit.
CompressTimeout_Never == FALSE

\* subprocess.run kills the process before it raises TimeoutExpired.
CompressTimeout ==
  /\ Waiting("compress")
  /\ Fails("TL", None)

\* UnicodeDecodeError, whatever the exit code, in either run of a test.
UndecodableOutput ==
  /\ phase \in {"compress", "decompress"}
  /\ child.state = "exited" /\ child.stdout \in NotUtf8
  /\ Raise

CompressError ==
  /\ Returned("compress") /\ child.code # 0
  /\ Fails("RE", None)

\* get_base64_size catches binascii.Error only.
NotAsciiOutput ==
  /\ Returned("compress") /\ child.code = 0 /\ child.stdout \in NotAscii
  /\ Raise

\* The size of the output is known or is None.
Measured ==
  Returned("compress") /\ child.code = 0 /\ child.stdout \notin NotAscii

InvalidBase64 ==
  /\ Measured /\ Base64Size[child.stdout] = None
  /\ Fails("PE", None)

\* Fault: no "continue" after the row is printed.
TooBigOutput_NoContinue ==
  /\ Measured /\ Base64Size[child.stdout] > MaxBlock
  /\ report' = Append(report, Row("PE", None))
  /\ phase' = "decompress" /\ compressed_block' = child.stdout
  /\ child' = Spawned("decompress", child.stdout)
  /\ UNCHANGED <<tests, n_ok, total_points>>

TooBigOutput ==
  /\ Measured /\ Base64Size[child.stdout] > MaxBlock
  /\ Fails("PE", None)

StartDecompress ==
  /\ Measured
  /\ Base64Size[child.stdout] # None /\ Base64Size[child.stdout] <= MaxBlock
  /\ phase' = "decompress" /\ compressed_block' = child.stdout
  /\ child' = Spawned("decompress", child.stdout)
  /\ UNCHANGED <<tests, report, n_ok, total_points>>

compressed_size == Base64Size[compressed_block]

DecompressTimeout ==
  /\ Waiting("decompress")
  /\ Fails("TL", compressed_size)

DecompressError ==
  /\ Returned("decompress") /\ child.code # 0
  /\ Fails("RE", compressed_size)

WrongBlock ==
  /\ Returned("decompress") /\ child.code = 0 /\ child.stdout # original_block
  /\ Fails("WA", compressed_size)

\* Fault: the points of a block that did not shrink are taken for its own.
Score_Original ==
  /\ n_ok' = n_ok + 1
  /\ total_points' =
       total_points + Points(Base64Size[original_block], Base64Size[original_block])

Score ==
  /\ n_ok' = n_ok + 1
  /\ total_points' = total_points + Points(Base64Size[original_block], compressed_size)

Passes ==
  /\ report' = Append(report, Row("OK", compressed_size))
  /\ Score
  /\ phase' = "next" /\ child' = NoChild
  /\ UNCHANGED <<tests, compressed_block>>

\* Fault: the blocks are not compared.
Pass_NoCompare == Returned("decompress") /\ child.code = 0 /\ Passes

Pass ==
  /\ Returned("decompress") /\ child.code = 0 /\ child.stdout = original_block
  /\ Passes

PrintTotals ==
  /\ phase = "next" /\ tests # <<>> /\ test > Len(tests)
  /\ phase' = "finished"
  /\ UNCHANGED <<tests, child, compressed_block, report, n_ok, total_points>>

Harness ==
  \/ NoTests \/ StartCompress \/ BadTestFile
  \/ CompressTimeout \/ UndecodableOutput \/ CompressError \/ NotAsciiOutput
  \/ InvalidBase64 \/ TooBigOutput \/ StartDecompress
  \/ DecompressTimeout \/ DecompressError \/ WrongBlock \/ Pass
  \/ PrintTotals

---------------------------------------------------------------------------
(* ./solution, about which the script knows nothing.                       *)

ChildRuns ==
  /\ child.state = "spawned"
  /\ child' = [child EXCEPT !.state = "running"]
  /\ UNCHANGED harness

ChildExits ==
  /\ child.state \in {"spawned", "running"}
  /\ \E code \in ExitCodes, out \in Texts :
       child' = [child EXCEPT !.state = "exited", !.code = code, !.stdout = out]
  /\ UNCHANGED harness

Stopped == {"finished", "crashed", "exit2"}

Terminated == phase \in Stopped /\ UNCHANGED vars

Next == Harness \/ ChildRuns \/ ChildExits \/ Terminated

\* The timer of subprocess.run makes the script go on; nothing makes the child.
Spec == Init /\ [][Next]_vars /\ WF_vars(Harness)

---------------------------------------------------------------------------
(* Properties.                                                             *)

ProcessStates == {"none", "spawned", "running", "exited"}

RowType == [tag : Tags, size : Nat \cup {None}]

ChildType ==
  [state : ProcessStates, mode : {"none", "compress", "decompress"},
   text : Texts, stdout : Texts, code : ExitCodes]

\* The variables have their types, and the rows never outnumber the tests.
TypeOK ==
  /\ tests \in Listings
  /\ phase \in {"next", "compress", "decompress"} \cup Stopped
  /\ child \in ChildType
  /\ compressed_block \in Texts
  /\ report \in Seq(RowType) /\ Len(report) <= Len(tests)
  /\ n_ok \in Nat /\ total_points \in Nat

Passed == {k \in DOMAIN report : report[k].tag = "OK"}

\* n_ok counts the OK rows that were printed.
OkRowsCounted == n_ok = Cardinality(Passed)

\* What a row is worth, by the sizes of that row's own test; and the first k rows.
Worth(k) ==
  IF report[k].tag = "OK" THEN Points(Base64Size[tests[k]], report[k].size) ELSE 0
Earned[k \in 0 .. Len(report)] == IF k = 0 THEN 0 ELSE Earned[k - 1] + Worth(k)

\* The totals that run_tests.py prints at the end are those of the rows it
\* printed: n_ok counts the OK rows, and total_points is the sum of their
\* points, each taken from the sizes of that row's own test.
TotalsMatchRows == OkRowsCounted /\ total_points = Earned[Len(report)]

\* No solution scores more than 2000 points on a test, even one that prints
\* nothing when it compresses, so the average printed is at most 2000.
ScoreBound == n_ok <= Len(tests) /\ total_points <= 2000 * n_ok

\* A process is alive only while the script waits for it, so a solution that
\* timed out cannot run on beside the next test; and the process waited for
\* was given this test's block, or what its first run printed.
OneChild ==
  /\ child.state \in {"spawned", "running"} => phase \in {"compress", "decompress"}
  /\ phase = "compress" => child.mode = "compress" /\ child.text = original_block
  /\ phase = "decompress" =>
       /\ child.mode = "decompress" /\ child.text = compressed_block
       /\ compressed_size \in 0 .. MaxBlock

\* While a test runs, its block is one that the asserts let through.
Judging == phase \in {"compress", "decompress"} => test <= Len(tests) /\ AcceptableBlock

\* Whatever the solution does, the script comes to its end, and unless an
\* exception ended it every test of the listing has its row.
EveryTestJudged ==
  <>(\/ phase = "crashed"
     \/ phase \in Stopped /\ Len(report) = Len(tests))

\* run_tests.py:57-59 prints "PE invalid base64" for an output that is not
\* base64 and goes on: nothing that a solution prints ends the script.
OutputNeverEndsScript == phase = "crashed" => child.state # "exited"
=============================================================================
