---------------------------- MODULE CommandLine -----------------------------
(***************************************************************************)
(* The solutions that talk over standard streams, run by hand: any of      *)
(* them, on any mode word and any text at hand, and again on what earlier  *)
(* runs printed.  So compressors meet decompressors of other programs,     *)
(* blocks are compressed twice, and text that is no block is decompressed. *)
(***************************************************************************)
EXTENDS Solutions

CONSTANTS
  Inputs,     \* the texts at hand before the first run
  MaxRuns     \* bound on the runs of one behaviour

ASSUME InputAssumption == (\A t \in Inputs : Given(t)) /\ MaxRuns \in Nat

VARIABLES
  starved,    \* did an allocation fail in the current run?
  shelf,      \* texts at hand
  log         \* the runs that have ended

vars == <<prog, starved, shelf, log, child, memory>>

ModeWords == {"compress", "decompress", "help"}

Init ==
  /\ prog \in Programs /\ starved = FALSE
  /\ shelf = Inputs \cup {EmptyText} /\ log = <<>>
  /\ ProcessInit

Start ==
  /\ child.state = "none" /\ Len(log) < MaxRuns
  /\ prog' \in Programs /\ starved' = FALSE
  /\ \E mode \in ModeWords, text \in shelf : child' = Spawned(mode, text)
  /\ UNCHANGED <<shelf, log, memory>>

SolutionStep == Work /\ UNCHANGED <<prog, starved, shelf, log>>

OutOfMemory ==
  /\ BadAlloc /\ starved' = TRUE
  /\ UNCHANGED <<prog, shelf, log>>

Keep ==
  /\ child.state = "exited"
  /\ log' = Append(log, [prog |-> prog, mode |-> child.mode, text |-> child.text,
                         stdout |-> child.stdout, code |-> child.code,
                         starved |-> starved])
  /\ shelf' = shelf \cup {child.stdout}
  /\ child' = NoChild
  /\ UNCHANGED <<prog, starved, memory>>

Done == Len(log) = MaxRuns /\ UNCHANGED vars

Next == Start \/ SolutionStep \/ OutOfMemory \/ Keep \/ Done

Spec == Init /\ [][Next]_vars /\ WF_vars(SolutionStep)

---------------------------------------------------------------------------
(* Properties.                                                             *)

ByteKinds == {"boc", "lz4", "gz", "mangled", "noise"}

IsText(t) == t \in {EmptyText, BadText} \/ (t = Text(t.of) /\ t.of.kind \in ByteKinds)

\* The statements of tester/solution.cpp, and of the other two.
Statements(p) ==
  {"mode", "data", "deserialize", "serialize", "unlz4", "restore", "expand"}
  \cup IF p = "gzip" THEN {"chunks", "gzip", "gunzip"} ELSE {"decode", "lz4", "print"}

\* The process as its parent sees it.
ChildOK ==
  /\ DOMAIN child = {"state", "mode", "text", "stdout", "code"}
  /\ child.state \in {"none", "spawned", "running", "exited"}
  /\ child.mode \in IF child.state = "none" THEN {"none"} ELSE ModeWords
  /\ child.text \in shelf /\ IsText(child.stdout)
  /\ child.code \in {0, 1, SigAbrt}
  /\ child.state # "exited" => child.code = 0 /\ child.stdout = EmptyText

\* Its memory: it is at a statement of its program, and once the text is decoded it
\* has a cell in hand between the two boc calls, and bytes, or none, elsewhere.
MemoryOK ==
  /\ i \in Nat /\ frames \in Seq(Nat \X Nat)
  /\ child.state = "running" =>
       /\ pc \in Statements(prog)
       /\ pc \in {"serialize", "expand"} => buf.kind = "cell"
       /\ pc \notin {"mode", "data", "decode", "serialize", "expand"} =>
            buf.kind \in ByteKinds \cup {"empty"}

\* The runs that have ended.
LogOK ==
  /\ Len(log) <= MaxRuns
  /\ \A k \in DOMAIN log :
       /\ log[k].prog \in Programs /\ log[k].mode \in ModeWords
       /\ {log[k].text, log[k].stdout} \subseteq shelf
       /\ log[k].code \in {0, 1, SigAbrt} /\ log[k].starved \in BOOLEAN

\* The process and its memory, the texts at hand and the log have their types.
TypeOK ==
  /\ prog \in Programs /\ starved \in BOOLEAN
  /\ EmptyText \in shelf /\ \A t \in shelf : IsText(t)
  /\ ChildOK /\ MemoryOK /\ LogOK

Family(p) == IF p = "gzip" THEN "gzip" ELSE "plain"

\* Run d decompresses what run c printed when it compressed the block b.
Chained(c, d, b) ==
  /\ c.mode = "compress" /\ c.text.text = "base64"
  /\ c.text.of.kind = "boc" /\ c.text.of.root = b
  /\ d.mode = "decompress" /\ d.text = c.stdout /\ c.stdout # EmptyText
  /\ ~d.starved

\* The reference and the example solution read each other's output, and
\* tester/solution.cpp only its own: within the reader's limit the block comes
\* back in mode 31 whatever mode it came in, beyond it the reader aborts.
Interchange ==
  \A c, d \in {log[k] : k \in DOMAIN log} : \A b \in Blocks : Chained(c, d, b) =>
    IF Family(c.prog) = Family(d.prog) /\ SizeOf(Boc(b, 2)) <= Limit(d.prog)
    THEN d.code = 0 /\ d.stdout = Text(Boc(b, 31))
    ELSE d.code = SigAbrt /\ d.stdout = EmptyText

\* A process never prints a block out of nothing: what a decompressor prints
\* is the mode-31 form of the very block its input was made from.
OnlyTheBlockWithin ==
  \A k \in DOMAIN log : log[k].mode = "decompress" /\ log[k].stdout # EmptyText =>
    LET in == log[k].text.of
        lz == IF in.kind = "gz" THEN in.of ELSE in
    IN  lz.kind = "lz4" /\ log[k].stdout = Text(Boc(lz.of.root, 31))

\* What is no bag of cells is not compressed: compressing printed output again,
\* or text that is not base64, prints nothing.
CompressesBlocksOnly ==
  \A k \in DOMAIN log : log[k].mode = "compress" /\ log[k].stdout # EmptyText =>
    log[k].text.text = "base64" /\ log[k].text.of.kind = "boc"

\* Every run comes to an end, whatever it is fed.
RunsEnd == child.state = "spawned" ~> child.state = "exited"

\* tester/solution.cpp:73-74 tests for gzip data that cannot be decoded and
\* throws, and lines 77-80 turn that into "Decompression failed" and an empty
\* result: text that does not decode is not meant to abort the process.
GzipNeverAborts ==
  prog = "gzip" /\ child.mode = "decompress" => child.code # SigAbrt
=============================================================================
