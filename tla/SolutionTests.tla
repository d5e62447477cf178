--------------------------- MODULE SolutionTests ----------------------------
(***************************************************************************)
(* tester/run_tests.py with a solution of the repository as ./solution:    *)
(* tester/solution.cpp ("gzip"), examples/solution.cpp ("example") or      *)
(* ton-compress-contest-linux/solution.cpp ("reference").  Two processes   *)
(* that share only the pipe: the script may kill the solution at any step, *)
(* and any allocation of the solution may fail.                            *)
(***************************************************************************)
EXTENDS Solutions

CONSTANTS
  TestFiles,  \* what test files may hold
  Listings    \* sequences of those

ASSUME TestsAssumption ==
  /\ \A t \in TestFiles : Given(t)
  /\ Listings \subseteq Seq(TestFiles)

VARIABLES
  hurt,       \* tests in which a timeout or a failed allocation struck
  tests, phase, compressed_block, report, n_ok, total_points

AllTexts ==
  {EmptyText} \cup TestFiles
  \cup UNION {{Canonical(b), Text(PlainForm(b)), Text(GzipForm(b))} : b \in Blocks}

Script == INSTANCE RunTests WITH
  Texts <- AllTexts,
  NotUtf8 <- {},
  NotAscii <- {},
  Base64Size <- [t \in AllTexts |->
    CASE t.text = "base64" -> SizeOf(t.of) [] t.text = "none" -> 0 [] OTHER -> -1],
  ExitCodes <- {0, 1, SigAbrt}

script == <<tests, phase, compressed_block, report, n_ok, total_points>>
vars == <<script, child, memory, prog, hurt>>

Init ==
  /\ prog \in Programs /\ hurt = {}
  /\ Script!Init /\ ProcessInit

\* A step the script takes while the process is alive is a timeout.
ScriptStep ==
  /\ Script!Harness
  /\ hurt' = IF child.state \in {"spawned", "running"}
             THEN hurt \cup {Script!test} ELSE hurt
  /\ UNCHANGED <<memory, prog>>

SolutionStep == Work /\ UNCHANGED <<script, prog, hurt>>

OutOfMemory ==
  /\ BadAlloc
  /\ hurt' = hurt \cup {Script!test}
  /\ UNCHANGED <<script, prog>>

Terminated == phase \in Script!Stopped /\ UNCHANGED vars

Next == ScriptStep \/ SolutionStep \/ OutOfMemory \/ Terminated

Spec == Init /\ [][Next]_vars /\ WF_vars(ScriptStep)

---------------------------------------------------------------------------
(* Properties.                                                             *)

\* The blocks that a solution can carry: mode 2 within its LZ4 limit, a
\* compressed form that the script accepts and, for tester/solution.cpp, one
\* that gzip did not make larger.
Fits(p, b) ==
  /\ SizeOf(Canonical(b).of) <= Script!MaxBlock
  /\ PackedSize[b] <= Script!MaxBlock
  /\ SizeOf(Boc(b, 2)) <= Limit(p) /\ (p = "gzip" => b \in GzFits)

Able(p) == {Canonical(b) : b \in {c \in Blocks : Fits(p, c)}}

\* Unless a timeout or a failed allocation struck in it, a test passes exactly
\* when the solution can carry its block: no interleaving of the script and
\* the solution, and no result of an earlier test, changes a verdict.
PassIffFits ==
  \A k \in DOMAIN report \ hurt : report[k].tag = "OK" <=> tests[k] \in Able(prog)

\* A process that decompresses what was made of a mode-31 block prints that
\* block, or nothing, whatever fails: the checksum of mode 2 stops a block that
\* LZ4 mangled before it can be printed as another one.
NeverAnotherBlock ==
  child.state = "exited" /\ child.mode = "decompress" /\ child.stdout # EmptyText =>
    \/ child.stdout = Script!original_block
    \/ Script!original_block \notin {Canonical(b) : b \in Blocks}

\* The exit code tells success: a process that printed a block returned 0, and
\* without a failed allocation one that printed none did not return 0, except
\* the compressor of tester/solution.cpp when gzip did not shrink its data.
CodeTellsOutput ==
  child.state = "exited" =>
    /\ child.stdout # EmptyText => child.code = 0
    /\ child.stdout = EmptyText /\ Script!test \notin hurt =>
         \/ child.code # 0
         \/ /\ prog = "gzip" /\ child.mode = "compress"
            /\ \E b \in Blocks \ GzFits : \E m \in Modes :
                 Script!original_block = Text(Boc(b, m))

\* The script over a real solution is the script over an arbitrary process:
\* the solutions print and return nothing that RunTests does not allow for,
\* and what is shown there of every process holds here.
ImplementsRunTests == Script!Spec

Scores == INSTANCE Contest WITH
  able <- Able(prog),
  verdicts <- [k \in DOMAIN report |-> report[k].tag = "OK"],
  over <- phase \in Script!Stopped

\* With its processes, timers and pipes, the script judges as Contest says.
ImplementsContest == Scores!Spec

\* run_tests.py:40 admits every block of at most 2 ** 21 bytes; one that
\* compresses to no more than that is expected to pass.
AdmittedBlocksPass ==
  \A k \in DOMAIN report \ hurt :
    \A b \in GzFits : tests[k] = Canonical(b) /\ PackedSize[b] <= Script!MaxBlock =>
      report[k].tag = "OK"
=============================================================================
