---------------------------- MODULE RootSolution ----------------------------
(***************************************************************************)
(* solution.cpp: the solution that reads input.txt and writes output.txt.  *)
(* Bag of cells in mode 0, LZ4 over pieces of 128 KiB, no gzip.  The files *)
(* outlive the process: its user edits input.txt or moves output.txt there *)
(* between runs, the process may be killed at any step, an allocation may  *)
(* fail, and the disk may be full when the output is written.              *)
(***************************************************************************)
EXTENDS TonLib, FiniteSetsExt

CONSTANTS
  Inputs     \* contents the user gives to input.txt

ChunkSize == 128               \* 128 * 1024 bytes
MaxDecompressed == 256         \* 128 * 1024 * 2 bytes

Command(mode, text) == [mode |-> mode, text |-> text]
NoInput == Command("absent", EmptyText)
NoFile == [text |-> "absent"]
CutText == [text |-> "cut"]    \* what a full disk left of the output

\* The pieces of n bytes, without gap or overlap.
Pieces(n) ==
  [k \in 1 .. (n + ChunkSize - 1) \div ChunkSize |->
     <<(k - 1) * ChunkSize, Min({k * ChunkSize, n})>>]

\* What compress makes of block b.
Compressed(b) == Lz4(Boc(b, 0), Pieces(SizeOf(Boc(b, 0))))

\* Bytes that a user may have: a block in any mode, LZ4 of one in frames of any
\* kind, or something else.
Known(s) ==
  \/ s = Noise
  \/ \E b \in Blocks : \E m \in Modes :
       s = Boc(b, m) \/ (s.kind = "lz4" /\ s = Lz4(Boc(b, m), s.frames))

\* One word for the mode, and base64 or not.
ASSUME InputAssumption ==
  \A c \in Inputs :
    /\ c = Command(c.mode, c.text)
    /\ c.text \in {EmptyText, BadText} \/ (c.text = Text(c.text.of) /\ Known(c.text.of))

VARIABLES
  input,     \* input.txt
  output,    \* output.txt
  pc,        \* the statement the process is at, "idle" when there is none
  data,      \* the BufferSlice in hand or, between the boc calls, the root cell
  i, frames, \* the chunk loop
  code,      \* exit code of the last process
  before,    \* output.txt as the process found it
  faults     \* what struck the process, of {"memory", "disk", "kill"}

files == <<input, output>>
memory == <<data, i, frames>>
vars == <<files, pc, memory, code, before, faults>>

SigAbrt == -6
SigKill == -9

InCompress == {"deserialize", "serialize", "chunks"}
InDecompress == {"unlz4", "restore", "expand"}

Init ==
  /\ input \in Inputs \cup {NoInput} /\ output = NoFile
  /\ pc = "idle" /\ data = Empty /\ i = 0 /\ frames = <<>>
  /\ code = 0 /\ before = NoFile /\ faults = {}

---------------------------------------------------------------------------
(* The user, between two runs.                                             *)

EditInput ==
  /\ pc = "idle" /\ input' \in Inputs \cup {NoInput}
  /\ UNCHANGED <<output, pc, memory, code, before, faults>>

\* Decompress what the last run wrote.
TurnAround ==
  /\ pc = "idle" /\ output # NoFile
  /\ input' = Command("decompress", output)
  /\ UNCHANGED <<output, pc, memory, code, before, faults>>

\* Fault: output.txt is opened, and so truncated, as soon as main starts.
Start_Truncates ==
  /\ pc = "idle" /\ pc' = "input"
  /\ data' = Empty /\ i' = 0 /\ frames' = <<>>
  /\ before' = output /\ faults' = {} /\ output' = EmptyText
  /\ UNCHANGED <<input, code>>

Start ==
  /\ pc = "idle" /\ pc' = "input"
  /\ data' = Empty /\ i' = 0 /\ frames' = <<>>
  /\ before' = output /\ faults' = {}
  /\ UNCHANGED <<files, code>>

---------------------------------------------------------------------------
(* The process.                                                            *)

Step(l, s) ==
  /\ pc' = l /\ data' = s
  /\ UNCHANGED <<files, i, frames, code, before, faults>>

Exit(c) ==
  /\ pc' = "idle" /\ code' = c
  /\ UNCHANGED <<files, memory, before, faults>>

MoveAsOk(r, l) == IF r.ok THEN Step(l, r.val) ELSE Exit(SigAbrt)

\* Fault: a status of its own for bad usage.
RejectInput_Two ==
  /\ pc = "input" /\ input.mode \notin {"compress", "decompress"}
  /\ Exit(2)

\* The throws of main outside compress and decompress: catch, return 1.
RejectInput ==
  /\ pc = "input" /\ input.mode \notin {"compress", "decompress"}
  /\ Exit(1)

DecodeInput ==
  /\ pc = "input" /\ input.mode \in {"compress", "decompress"}
  /\ \E s \in IF input.text = CutText THEN {Empty, Noise} ELSE {BufferFromBase64(input.text)} :
       Step(IF input.mode = "compress" THEN "deserialize" ELSE "unlz4", s)

Deserialize ==
  /\ pc = "deserialize"
  /\ \E r \in StdBocDeserialize(data) : MoveAsOk(r, "serialize")

Serialize ==
  /\ pc = "serialize"
  /\ Step("chunks", StdBocSerialize(data, 0))

CompressChunk ==
  /\ pc = "chunks" /\ i < SizeOf(data)
  /\ frames' = Append(frames, <<i, i + Min({ChunkSize, SizeOf(data) - i})>>)
  /\ i' = i + ChunkSize
  /\ UNCHANGED <<files, pc, data, code, before, faults>>

EndOfChunks ==
  /\ pc = "chunks" /\ i >= SizeOf(data)
  /\ Step("open", Lz4(data, frames))

UnLz4 ==
  /\ pc = "unlz4"
  /\ \E r \in Lz4Decompress(data, MaxDecompressed) : MoveAsOk(r, "restore")

Restore ==
  /\ pc = "restore"
  /\ \E r \in StdBocDeserialize(data) : MoveAsOk(r, "expand")

\* Fault: the block is left in the compact mode.
Expand_Compact ==
  /\ pc = "expand"
  /\ Step("open", StdBocSerialize(data, 0))

Expand ==
  /\ pc = "expand"
  /\ Step("open", StdBocSerialize(data, 31))

\* std::bad_alloc: compress and decompress answer an empty slice, which main
\* goes on to write; elsewhere main returns 1.
BadAlloc ==
  /\ pc \notin {"idle", "report"}
  /\ faults' = faults \cup {"memory"}
  /\ IF pc \in InCompress \cup InDecompress
     THEN pc' = "open" /\ data' = Empty /\ UNCHANGED code
     ELSE pc' = "idle" /\ code' = 1 /\ UNCHANGED data
  /\ UNCHANGED <<files, i, frames, before>>

\* The constructor of ofstream truncates output.txt, or main throws.
OpenOutput ==
  /\ pc = "open"
  /\ output' = EmptyText /\ pc' = "write"
  /\ UNCHANGED <<input, memory, code, before, faults>>

CannotOpenOutput ==
  /\ pc = "open"
  /\ pc' = "idle" /\ code' = 1 /\ faults' = faults \cup {"disk"}
  /\ UNCHANGED <<files, memory, before>>

WriteOutput ==
  /\ pc = "write"
  /\ output' = Base64Encode(data) /\ pc' = "report"
  /\ UNCHANGED <<input, memory, code, before, faults>>

\* The state of the stream is never looked at.
DiskFull ==
  /\ pc = "write"
  /\ output' \in {EmptyText, CutText} /\ pc' = "report"
  /\ faults' = faults \cup {"disk"}
  /\ UNCHANGED <<input, memory, code, before>>

\* "Operation completed. Output written to output.txt", return 0.
Report == pc = "report" /\ Exit(0)

\* A kill in the middle of the write leaves what had reached the file.
Kill ==
  /\ pc # "idle"
  /\ pc' = "idle" /\ code' = SigKill /\ faults' = faults \cup {"kill"}
  /\ output' = output \/ (pc = "write" /\ output' = CutText)
  /\ UNCHANGED <<input, memory, before>>

Process ==
  \/ RejectInput \/ DecodeInput
  \/ Deserialize \/ Serialize \/ CompressChunk \/ EndOfChunks
  \/ UnLz4 \/ Restore \/ Expand
  \/ OpenOutput \/ CannotOpenOutput \/ WriteOutput \/ DiskFull \/ Report

Next == EditInput \/ TurnAround \/ Start \/ Process \/ BadAlloc \/ Kill

Spec == Init /\ [][Next]_vars

---------------------------------------------------------------------------
(* Properties.                                                             *)

TextKinds == {"none", "bad", "base64", "cut", "absent"}
ByteKinds == {"boc", "lz4", "mangled", "noise"}

\* The variables have their types: input.txt is a word and a text, no output is
\* ever other than base64 but a cut one, and a process has a cell in hand
\* between its two boc calls and bytes at its other statements, or none.
TypeOK ==
  /\ input = Command(input.mode, input.text) /\ input.text.text \in TextKinds
  /\ {output.text, before.text} \subseteq TextKinds \ {"bad"}
  /\ pc \in {"idle", "input", "open", "write", "report"} \cup InCompress \cup InDecompress
  /\ pc \in {"serialize", "expand"} => data.kind = "cell"
  /\ pc \notin {"serialize", "expand", "report", "idle"} => data.kind \in ByteKinds \cup {"empty"}
  /\ i \in Nat /\ frames \in Seq(Nat \X Nat)
  /\ code \in {0, 1, SigAbrt, SigKill}
  /\ faults \subseteq {"memory", "disk", "kill"}

\* A step with which a process ends.
Ends == pc # "idle" /\ pc' = "idle"

\* decompress may give back block b for the bytes s: the very block that s is one
\* LZ4 block of; of several LZ4 blocks run together never that block, and another
\* one only if the mode that s was made in has no checksum.
GivesBack(s, b) ==
  /\ s.kind = "lz4"
  /\ IF WholeFrame(s.of, s.frames)
     THEN b = s.of.root /\ SizeOf(s.of) <= MaxDecompressed
     ELSE b # s.of.root /\ ~HasCrc(s.of.mode)

\* The file holds the result for the input.
IsResult(file) ==
  \E b \in Blocks :
    \/ /\ input.mode = "compress" /\ \E m \in Modes : input.text = Text(Boc(b, m))
       /\ file = Text(Compressed(b))
    \/ /\ input.mode = "decompress"
       /\ input.text.text = "base64" /\ GivesBack(input.text.of, b)
       /\ file = Text(Boc(b, 31))

\* A run that fails or is killed leaves the output.txt of an earlier run as it
\* was.  There are two ways to lose it, both with a result in hand and the file
\* open: the allocation of the base64 text fails, or the process is killed while
\* it writes or after that, and leaves its own result, empty, cut or whole.
FailedRunKeepsOutput ==
  [][Ends /\ code' # 0 =>
       \/ output' = before
       \/ code' = 1 /\ "memory" \in faults' /\ output' = EmptyText
       \/ /\ code' = SigKill /\ pc \in {"write", "report"}
          /\ output' \in {EmptyText, CutText} \/ IsResult(output')]_vars

\* After "Operation completed" output.txt holds the result for the input that
\* the run read: of a block the pieces of its mode 0, without gap or overlap; of
\* one LZ4 block the very block it was made from; of several LZ4 blocks another
\* block, which nothing but a checksum excludes.  Or else the file is empty or
\* cut short, and an allocation or the disk failed.
CompletedMeansWritten ==
  [][Ends /\ code' = 0 =>
       IF faults' = {} THEN IsResult(output')
       ELSE faults' \subseteq {"memory", "disk"} /\ output' \in {EmptyText, CutText}]_vars

\* The input is what a run of compress made of block b.
MadeFrom(b) == input = Command("decompress", Text(Compressed(b)))

Restored(b) == code' = 0 /\ output' = Text(Boc(b, 31))

\* What compress made of a block is restored by a later run, whatever happened
\* to the files in between, if mode 0 of the block was one chunk, and never
\* otherwise.
RestoresIffOneChunk ==
  [][\A b \in Blocks : Ends /\ MadeFrom(b) /\ faults' = {} =>
       (Restored(b) <=> SizeOf(Boc(b, 0)) <= ChunkSize)]_vars

\* "Compress function using LZ4 with block splitting" (solution.cpp:11) has its
\* inverse in "Decompress function using LZ4" (solution.cpp:39), which gives LZ4
\* room for two chunks: what compress made of two chunks is restored.
SplitBlocksRestored ==
  [][\A b \in Blocks :
       Ends /\ MadeFrom(b) /\ faults' = {} /\ SizeOf(Boc(b, 0)) <= MaxDecompressed =>
         Restored(b)]_vars
=============================================================================
