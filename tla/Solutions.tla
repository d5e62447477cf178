----------------------------- MODULE Solutions ------------------------------
(***************************************************************************)
(* The solutions that talk over standard streams, seen by whoever runs     *)
(* them: one process at a time, of tester/solution.cpp ("gzip"),           *)
(* examples/solution.cpp ("example") or ton-compress-contest-linux/        *)
(* solution.cpp ("reference"), any allocation of which may fail.           *)
(***************************************************************************)
EXTENDS StdioProcess, FiniteSetsExt

CONSTANTS
  Programs   \* the solutions to run

ASSUME ProgramsAssumption == Programs \subseteq {"gzip", "example", "reference"}

VARIABLES
  prog       \* the program of the process

Gzip == INSTANCE GzipSolution
Example == INSTANCE ExampleSolution
Reference == INSTANCE ReferenceSolution

memory == <<pc, buf, i, frames>>

Work ==
  \/ prog = "gzip" /\ Gzip!Work
  \/ prog = "example" /\ Example!Work
  \/ prog = "reference" /\ Reference!Work

BadAlloc ==
  \/ prog = "gzip" /\ Gzip!BadAlloc
  \/ prog = "example" /\ Example!BadAlloc
  \/ prog = "reference" /\ Reference!BadAlloc

---------------------------------------------------------------------------
(* Texts.                                                                  *)

\* The pieces in which the chunk loop of tester/solution.cpp reads n KiB.
Pieces(n) ==
  [k \in 1 .. (n + Gzip!ChunkSize - 1) \div Gzip!ChunkSize |->
     <<(k - 1) * Gzip!ChunkSize, Min({k * Gzip!ChunkSize, n})>>]

\* What compressing b makes, with and without gzip.
PlainForm(b) == Lz4(Boc(b, 2), <<<<0, SizeOf(Boc(b, 2))>>>>)
GzipForm(b) == Gz(Lz4(Boc(b, 2), Pieces(SizeOf(Boc(b, 2)))))

Form(p, b) == IF p = "gzip" THEN GzipForm(b) ELSE PlainForm(b)

\* The largest mode-2 form that program p restores.
Limit(p) == IF p = "gzip" THEN Gzip!MaxDecompressed ELSE Reference!MaxDecompressed

Canonical(b) == Text(Boc(b, 31))

\* A text that does not come from a program: a block in any mode, other bytes, or
\* no base64.
Given(t) ==
  \/ t \in {EmptyText, BadText, Text(Noise)}
  \/ \E b \in Blocks : \E m \in Modes : t = Text(Boc(b, m))
=============================================================================
