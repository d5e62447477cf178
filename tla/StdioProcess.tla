---------------------------- MODULE StdioProcess ----------------------------
(***************************************************************************)
(* What the solutions that talk over standard streams have in common: the  *)
(* process as its parent sees it, and the memory of main and of the        *)
(* function it is in.  The modules of the solutions extend this one and    *)
(* have one action per statement that can fail.                            *)
(***************************************************************************)
EXTENDS TonLib

VARIABLES
  child,   \* state, the tokens on stdin, the token on stdout, exit code
  pc,      \* the statement the process is at
  buf,     \* the BufferSlice in hand or, between the two boc calls, the root cell
  i,       \* offset of the chunk loop
  frames   \* pieces handed to lz4_compress so far, as <<from, to>>

SigAbrt == -6                           \* exit code of a process that aborted

NoChild == [state |-> "none", mode |-> "none", text |-> EmptyText,
            stdout |-> EmptyText, code |-> 0]

\* What subprocess.run hands to a new process.
Spawned(mode, text) ==
  [NoChild EXCEPT !.state = "spawned", !.mode = mode, !.text = text]

ProcessInit ==
  /\ child = NoChild
  /\ pc = "none" /\ buf = Empty /\ i = 0 /\ frames = <<>>

At(l) == child.state = "running" /\ pc = l

\* The new process enters main.
Launch ==
  /\ child.state = "spawned"
  /\ child' = [child EXCEPT !.state = "running"]
  /\ pc' = "mode" /\ buf' = Empty /\ i' = 0 /\ frames' = <<>>

Goto(l) == pc' = l /\ UNCHANGED child

Step(l, s) == Goto(l) /\ buf' = s /\ UNCHANGED <<i, frames>>

Exit(code, out) ==
  /\ child' = [child EXCEPT !.state = "exited", !.code = code, !.stdout = out]
  /\ UNCHANGED <<pc, buf, i, frames>>

\* Result::move_as_ok on an error and CHECK end the process; they throw nothing.
Abort == Exit(SigAbrt, EmptyText)

\* Fault: an error is taken for an empty result.
MoveAsOk_Empty(r, l) == IF r.ok THEN Step(l, r.val) ELSE Exit(0, EmptyText)

\* Fault: a call that failed is tried again.
MoveAsOk_Retry(r, l) == IF r.ok THEN Step(l, r.val) ELSE Goto(pc) /\ UNCHANGED <<buf, i, frames>>

\* r is what a fallible call answered: go on with its value, or abort.
MoveAsOk(r, l) == IF r.ok THEN Step(l, r.val) ELSE Abort

=============================================================================
