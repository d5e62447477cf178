------------------------ MODULE RootSolution_proofs -------------------------
(***************************************************************************)
(* Safety of solution.cpp for every set of blocks and their sizes: whatever *)
(* the user does with the files between runs and wherever a run is struck, *)
(* output.txt is a result, empty or cut, or that of an earlier run.        *)
(***************************************************************************)
EXTENDS RootSolution, SequenceTheorems, TLAPS

\* Mode 0 of block b is one chunk.
Fits(b) == SizeOf(Boc(b, 0)) <= ChunkSize

\* The run compresses block b.
Compresses(b) ==
  input.mode = "compress" /\ \E m \in Modes : input.text = Text(Boc(b, m))

\* The run decompresses, and may give back block b.
Decompresses(b) ==
  /\ input.mode = "decompress"
  /\ input.text.text = "base64" /\ GivesBack(input.text.of, b)

\* The bytes s are the result for the input.
Result(s) ==
  \E b \in Blocks :
    \/ Compresses(b) /\ s = Compressed(b)
    \/ Decompresses(b) /\ s = Boc(b, 31)

\* The bytes d are what LZ4 makes of s, which was made of a block in some mode.
Unpacked(s, d) ==
  /\ s.kind = "lz4" /\ \E b \in Blocks : \E m \in Modes : s.of = Boc(b, m)
  /\ IF WholeFrame(s.of, s.frames)
     THEN SizeOf(s.of) <= MaxDecompressed /\ d = s.of
     ELSE d = Mangled(s.of)

\* The variables have their types; what is in hand is left to DataInv.
Types ==
  /\ input.text.text \in TextKinds
  /\ {output.text, before.text} \subseteq TextKinds \ {"bad"}
  /\ pc \in {"idle", "input", "open", "write", "report"} \cup InCompress \cup InDecompress
  /\ i \in Nat /\ frames \in Seq(Nat \X Nat)
  /\ code \in {0, 1, SigAbrt, SigKill}
  /\ faults \subseteq {"memory", "disk", "kill"}

\* The files hold what a user gave or what a run wrote.
FilesInv ==
  /\ input = Command(input.mode, input.text)
  /\ \/ input.text \in {EmptyText, BadText, CutText}
     \/ input.text = Text(input.text.of) /\ Known(input.text.of)
  /\ \/ output \in {NoFile, EmptyText, CutText}
     \/ \E b \in Blocks : output = Text(Compressed(b)) \/ output = Text(Boc(b, 31))

\* What DecodeInput makes of the input.
Decoded ==
  IF input.text = CutText THEN data \in {Empty, Noise} ELSE data = BufferFromBase64(input.text)

\* Until a result is in hand output.txt is as the run found it.
KeepInv ==
  /\ pc \notin {"idle", "write", "report"} => output = before
  /\ pc = "write" => output = EmptyText

\* Pieces up to i of those of n bytes.
ChunksInv(n) ==
  /\ i = ChunkSize * Len(frames) /\ i < n + ChunkSize
  /\ \A k \in 1 .. Len(frames) : frames[k] = <<(k - 1) * ChunkSize, Min({k * ChunkSize, n})>>

\* What the process has in hand at each statement.
DataInv ==
  /\ pc = "input" => i = 0 /\ frames = <<>> /\ data = Empty
  /\ pc \in {"input"} \cup InCompress \cup InDecompress => faults = {}
  /\ pc \in InCompress => input.mode = "compress"
  /\ pc \in InDecompress => input.mode = "decompress"
  /\ pc \in {"deserialize", "unlz4"} => Decoded
  /\ pc \in {"deserialize", "serialize"} => i = 0 /\ frames = <<>>
  /\ pc = "serialize" => \E b \in Blocks : Compresses(b) /\ data = Cell(b)
  /\ pc = "chunks" =>
       \E b \in Blocks : Compresses(b) /\ data = Boc(b, 0) /\ ChunksInv(SizeOf(data))
  /\ pc = "restore" =>
       \/ data = Noise /\ \A c \in Blocks : ~MadeFrom(c)
       \/ input.text.text = "base64" /\ Unpacked(input.text.of, data)
  /\ pc = "expand" => \E b \in Blocks : Decompresses(b) /\ data = Cell(b)
  /\ pc \in {"open", "write", "report"} => faults \subseteq {"memory", "disk"}
  /\ pc \in {"open", "write"} =>
       IF faults = {} THEN Result(data) ELSE data = Empty
  /\ pc = "report" =>
       IF faults = {} THEN Result(data) /\ output = Text(data) ELSE output \in {EmptyText, CutText}

IInv == Types /\ FilesInv /\ KeepInv /\ DataInv

-----------------------------------------------------------------------------
(* Texts and byte strings.                                                 *)

\* The smaller of two.
LEMMA MinTwo ==
  ASSUME NEW x \in Int, NEW y \in Int
  PROVE  Min({x, y}) = IF x <= y THEN x ELSE y
BY DEF Min

\* Each kind of bytes is told from the others, and by what it was made from.
LEMMA Kinds ==
  ASSUME NEW b, NEW m, NEW s, NEW f
  PROVE  /\ Empty.kind = "empty" /\ Noise.kind = "noise"
         /\ Cell(b).kind = "cell" /\ Cell(b).root = b
         /\ Boc(b, m).kind = "boc" /\ Boc(b, m).root = b /\ Boc(b, m).mode = m
         /\ Lz4(s, f).kind = "lz4" /\ Lz4(s, f).of = s /\ Lz4(s, f).frames = f
         /\ Mangled(s).kind = "mangled" /\ Mangled(s).of = s
BY DEF Empty, Noise, Cell, Boc, Lz4, Mangled

\* So is each kind of text, and a command by its word.
LEMMA Texts ==
  ASSUME NEW s, NEW w, NEW t
  PROVE  /\ EmptyText.text = "none" /\ BadText.text = "bad" /\ CutText.text = "cut"
         /\ NoFile.text = "absent" /\ Text(s).text = "base64" /\ Text(s).of = s
         /\ Command(w, t).mode = w /\ Command(w, t).text = t
BY DEF EmptyText, BadText, CutText, NoFile, Text, Command

\* Mode 0 of a block has bytes.
LEMMA BocHasSize ==
  ASSUME NEW b \in Blocks
  PROVE  SizeOf(Boc(b, 0)) \in Nat \ {0}
<1>1. 0 \in Modes
  BY DEF Modes
<1>2. SizeOf(Boc(b, 0)) = BocSize[b][0]
  BY DEF SizeOf, Boc
<1> QED
  BY ONLY <1>1, <1>2, LibAssumption

\* What compress makes of a block is LZ4 of it in its pieces.
LEMMA CompressedFields ==
  ASSUME NEW b
  PROVE  /\ Compressed(b).kind = "lz4" /\ Compressed(b).of = Boc(b, 0)
         /\ Compressed(b).frames = Pieces(SizeOf(Boc(b, 0)))
BY Kinds DEF Compressed

\* The pieces are one that is the whole exactly if the block fits.
LEMMA WholePieces ==
  ASSUME NEW b \in Blocks
  PROVE  WholeFrame(Boc(b, 0), Pieces(SizeOf(Boc(b, 0)))) <=> Fits(b)
<1> DEFINE n == SizeOf(Boc(b, 0))
           L == (n + 127) \div 128
           F == [k \in 1 .. L |-> <<(k - 1) * 128, Min({k * 128, n})>>]
<1>1. n \in Nat /\ n > 0
  BY BocHasSize
<1>2. L \in Nat /\ (L = 1 <=> n <= 128)
  BY <1>1
<1>3. Pieces(n) = F
  <2>1. (n + 128 - 1) \div 128 = L
    BY <1>1
  <2> QED
    BY <2>1 DEF Pieces, ChunkSize
<1>4. Len(F) = L
  <2>1. DOMAIN F = 1 .. L
    OBVIOUS
  <2> QED
    BY <2>1, <1>2
<1>5. L = 1 => F[1] = <<0, n>>
  <2> SUFFICES ASSUME L = 1
               PROVE  F[1] = <<0, n>>
    OBVIOUS
  <2>1. F[1] = <<(1 - 1) * 128, Min({1 * 128, n})>>
    OBVIOUS
  <2>2. Min({1 * 128, n}) = n
    BY <1>1, <1>2, MinTwo
  <2> QED
    BY <2>1, <2>2
<1>6. WholeFrame(Boc(b, 0), F) <=> L = 1
  BY <1>4, <1>5 DEF WholeFrame
<1> QED
  BY <1>2, <1>3, <1>6 DEF Fits, ChunkSize

\* The bytes a run was made from by compress are those of one block.
LEMMA MadeFromText ==
  ASSUME NEW b \in Blocks, MadeFrom(b)
  PROVE  /\ input.mode = "decompress" /\ input.text = Text(Compressed(b))
         /\ input.text.text = "base64" /\ input.text.of = Compressed(b)
BY Texts DEF MadeFrom

\* Of what compress made of a block that block is given back if it was one piece,
\* and never otherwise.
LEMMA GivenBack ==
  ASSUME NEW c \in Blocks, MadeFrom(c), NEW b, Decompresses(b)
  PROVE  b = c <=> Fits(c)
<1> DEFINE s == input.text.of
<1>1. s = Compressed(c)
  BY MadeFromText
<1>2. s.of = Boc(c, 0) /\ s.frames = Pieces(SizeOf(Boc(c, 0)))
  BY <1>1, CompressedFields
<1>3. s.of.root = c
  BY <1>2, Kinds
<1>4. WholeFrame(s.of, s.frames) <=> Fits(c)
  BY <1>2, WholePieces
<1>5. IF WholeFrame(s.of, s.frames) THEN b = s.of.root ELSE b # s.of.root
  BY DEF Decompresses, GivesBack
<1> QED
  BY <1>3, <1>4, <1>5

\* LZ4 gives back the mode 0 of a block that was compressed in one piece.
LEMMA UnpackedFits ==
  ASSUME NEW c \in Blocks, MadeFrom(c), Fits(c), NEW d, Unpacked(input.text.of, d)
  PROVE  d = Boc(c, 0)
<1> DEFINE s == input.text.of
<1>1. s = Compressed(c)
  BY MadeFromText
<1>2. s.of = Boc(c, 0) /\ s.frames = Pieces(SizeOf(Boc(c, 0)))
  BY <1>1, CompressedFields
<1>3. WholeFrame(s.of, s.frames)
  BY <1>2, WholePieces
<1> QED
  BY <1>2, <1>3 DEF Unpacked

-----------------------------------------------------------------------------
(* The inductive invariant.                                                *)

\* The statements up to the one that has a result in hand.
Early == {"input", "open"} \cup InCompress \cup InDecompress

\* The statements, one by one.
LEMMA Statements ==
  /\ InCompress = {"deserialize", "serialize", "chunks"}
  /\ InDecompress = {"unlz4", "restore", "expand"}
  /\ Early = {"input", "open", "deserialize", "serialize", "chunks", "unlz4", "restore", "expand"}
BY DEF InCompress, InDecompress, Early

\* What is said of the input stays true of an input left alone.
LEMMA SameInput ==
  ASSUME input' = input
  PROVE  /\ \A b : Compresses(b)' <=> Compresses(b)
         /\ \A b : MadeFrom(b)' <=> MadeFrom(b)
         /\ \A b : Decompresses(b)' <=> Decompresses(b)
<1>1. \A b : Compresses(b)' <=> Compresses(b)
  BY DEF Compresses
<1>2. \A b : MadeFrom(b)' <=> MadeFrom(b)
  BY DEF MadeFrom
<1>3. \A b : Decompresses(b)' <=> Decompresses(b)
  BY DEF Decompresses, GivesBack, WholeFrame, SizeOf
<1> QED
  BY ONLY <1>1, <1>2, <1>3

\* So does what is said of the result in hand.
LEMMA SameResult ==
  ASSUME input' = input, data' = data
  PROVE  Result(data)' <=> Result(data)
BY SameInput DEF Result

\* A run that has begun with the files left alone keeps everything but what is
\* in hand.
LEMMA StepKeeps ==
  ASSUME IInv, NEW l \in Early, NEW s, pc \in Early, Step(l, s)
  PROVE  Types' /\ FilesInv' /\ KeepInv'
<1>1. UNCHANGED <<input, output, i, frames, code, before, faults>> /\ pc' = l
  BY DEF Step, files
<1>2. Types'
  BY <1>1, Statements DEF IInv, Types
<1>3. FilesInv'
  BY <1>1 DEF IInv, FilesInv
<1>4. KeepInv'
  BY <1>1, Statements DEF IInv, KeepInv
<1> QED
  BY <1>2, <1>3, <1>4

\* A run that ends before it opens the output keeps the invariant.
LEMMA ExitKeeps ==
  ASSUME IInv, NEW c \in {0, 1, SigAbrt, SigKill}, pc \in Early, Exit(c)
  PROVE  IInv'
<1>1. UNCHANGED <<input, output, i, frames, data, before, faults>> /\ pc' = "idle" /\ code' = c
  BY DEF Exit, files, memory
<1>2. Types'
  BY <1>1 DEF IInv, Types
<1>3. FilesInv'
  BY <1>1 DEF IInv, FilesInv
<1>4. KeepInv'
  BY <1>1 DEF IInv, KeepInv
<1>7. DataInv'
  BY <1>1, Statements DEF DataInv
<1> QED
  BY <1>2, <1>3, <1>4, <1>7 DEF IInv

\* There is no process at first.
LEMMA InitInv == Init => IInv
<1> SUFFICES ASSUME Init
             PROVE  IInv
  OBVIOUS
<1>1. input = Command(input.mode, input.text) /\
      (input.text \in {EmptyText, BadText, CutText} \/
         (input.text = Text(input.text.of) /\ Known(input.text.of)))
  <2>1. CASE input = NoInput
    BY <2>1, Texts DEF NoInput
  <2>2. CASE input \in Inputs
    BY <2>2, InputAssumption
  <2> QED
    BY <2>1, <2>2 DEF Init
<1>2. FilesInv
  BY <1>1 DEF Init, FilesInv
<1>3. input.text.text \in TextKinds
  BY <1>1, Texts DEF TextKinds
<1>4. Types
  BY <1>3, Texts DEF Init, Types, TextKinds
<1>5. KeepInv
  BY DEF Init, KeepInv, SigAbrt
<1>6. DataInv
  BY Statements DEF Init, DataInv
<1> QED
  BY <1>2, <1>4, <1>5, <1>6 DEF IInv

\* A text of the user's.
LEMMA EditInputStep ==
  ASSUME IInv, EditInput
  PROVE  IInv'
<1>1. UNCHANGED <<output, pc, i, frames, data, code, before, faults>> /\ pc = "idle"
      /\ input' \in Inputs \cup {NoInput}
  BY DEF EditInput, memory
<1>2. input' = Command(input'.mode, input'.text) /\
      (input'.text \in {EmptyText, BadText, CutText} \/
         (input'.text = Text(input'.text.of) /\ Known(input'.text.of)))
  <2>1. CASE input' = NoInput
    BY <2>1, Texts DEF NoInput
  <2>2. CASE input' \in Inputs
    BY <2>2, InputAssumption
  <2> QED
    BY <1>1, <2>1, <2>2
<1>3. FilesInv'
  BY <1>1, <1>2 DEF IInv, FilesInv
<1>4. input'.text.text \in TextKinds
  BY <1>2, Texts DEF TextKinds
<1>5. Types'
  BY <1>1, <1>4 DEF IInv, Types
<1>6. KeepInv'
  BY <1>1 DEF IInv, KeepInv
<1>7. DataInv'
  BY <1>1, Statements DEF DataInv
<1> QED
  BY <1>3, <1>5, <1>6, <1>7 DEF IInv

\* A text that a run wrote.
LEMMA TurnAroundStep ==
  ASSUME IInv, TurnAround
  PROVE  IInv'
<1>1. UNCHANGED <<output, pc, i, frames, data, code, before, faults>> /\ pc = "idle"
      /\ output # NoFile /\ input' = Command("decompress", output)
  BY DEF TurnAround, memory
<1>2. input'.mode = "decompress" /\ input'.text = output
  BY <1>1, Texts
<1>3. output \in {EmptyText, CutText} \/ (output = Text(output.of) /\ Known(output.of))
  <2>1. CASE output \in {EmptyText, CutText}
    BY <2>1
  <2>2. ASSUME NEW b \in Blocks, output = Text(Compressed(b))
        PROVE  output = Text(output.of) /\ Known(output.of)
    <3>1. output.of = Compressed(b)
      BY <2>2, Texts
    <3>2. 0 \in Modes
      BY DEF Modes
    <3>3. Compressed(b).kind = "lz4" /\ Compressed(b) = Lz4(Boc(b, 0), Compressed(b).frames)
      BY CompressedFields DEF Compressed
    <3>4. Known(Compressed(b))
      BY <3>2, <3>3 DEF Known
    <3> QED
      BY <2>2, <3>1, <3>4
  <2>3. ASSUME NEW b \in Blocks, output = Text(Boc(b, 31))
        PROVE  output = Text(output.of) /\ Known(output.of)
    <3>1. output.of = Boc(b, 31)
      BY <2>3, Texts
    <3>2. 31 \in Modes
      BY DEF Modes
    <3> QED
      BY <2>3, <3>1, <3>2 DEF Known
  <2> QED
    BY <1>1, <2>1, <2>2, <2>3 DEF IInv, FilesInv
<1>4. FilesInv'
  BY <1>1, <1>2, <1>3 DEF IInv, FilesInv
<1>5. input'.text.text \in TextKinds
  BY <1>2, <1>3, Texts DEF TextKinds
<1>6. Types'
  BY <1>1, <1>5 DEF IInv, Types
<1>7. KeepInv'
  BY <1>1 DEF IInv, KeepInv
<1>8. DataInv'
  BY <1>1, Statements DEF DataInv
<1> QED
  BY <1>4, <1>6, <1>7, <1>8 DEF IInv

\* A process with nothing in hand.
LEMMA StartStep ==
  ASSUME IInv, Start
  PROVE  IInv'
<1>1. UNCHANGED <<input, output, code>> /\ pc' = "input" /\ i' = 0 /\ frames' = <<>>
      /\ data' = Empty /\ before' = output /\ faults' = {}
  BY DEF Start, files
<1>2. Types'
  BY <1>1 DEF IInv, Types
<1>3. FilesInv'
  BY <1>1 DEF IInv, FilesInv
<1>4. KeepInv'
  BY <1>1 DEF KeepInv
<1>5. DataInv'
  BY <1>1, Statements DEF DataInv
<1> QED
  BY <1>2, <1>3, <1>4, <1>5 DEF IInv

-----------------------------------------------------------------------------
(* The library's answers.                                                  *)

\* An answer is an error or a value.
LEMMA Answers ==
  ASSUME NEW v
  PROVE  Ok(v).ok /\ Ok(v).val = v /\ ~Err.ok
BY DEF Ok, Err

\* A bag of cells gives its root.
LEMMA DeserializeBoc ==
  ASSUME NEW b, NEW m
  PROVE  StdBocDeserialize(Boc(b, m)) = {Ok(Cell(b))}
<1> DEFINE s == Boc(b, m)
<1>1. s.kind = "boc" /\ s.root = b
  BY Kinds
<1> HIDE DEF s
<1>2. StdBocDeserialize(s) = {Ok(Cell(b))}
  BY ONLY <1>1 DEF StdBocDeserialize
<1> QED
  BY ONLY <1>2 DEF s

\* What went wrong in LZ4 gives an error or, without a checksum, the root of
\* another block.
LEMMA DeserializeMangled ==
  ASSUME NEW b \in Blocks, NEW m, NEW r \in StdBocDeserialize(Mangled(Boc(b, m)))
  PROVE  r = Err \/ \E c \in Blocks : c # b /\ ~HasCrc(m) /\ r = Ok(Cell(c))
<1> DEFINE s == Mangled(Boc(b, m))
<1>1. s.kind = "mangled" /\ s.of.root = b /\ s.of.mode = m
  BY Kinds
<1> HIDE DEF s
<1>2. r \in StdBocDeserialize(s)
  BY ONLY r \in StdBocDeserialize(Mangled(Boc(b, m))) DEF s
<1>3. StdBocDeserialize(s) =
        IF HasCrc(m) THEN {Err} ELSE {Err} \cup {Ok(Cell(c)) : c \in Blocks \ {b}}
  BY ONLY <1>1 DEF StdBocDeserialize
<1> QED
  BY ONLY <1>2, <1>3

\* Anything else is no bag of cells.
LEMMA DeserializeOther ==
  ASSUME NEW s, s.kind \notin {"boc", "mangled"}
  PROVE  StdBocDeserialize(s) = {Err}
BY DEF StdBocDeserialize

\* LZ4 of a bag of cells gives it back if it is one frame and there is room for
\* it, and otherwise an error or what goes wrong.
LEMMA Lz4OfBoc ==
  ASSUME NEW b, NEW m, NEW f, NEW r \in Lz4Decompress(Lz4(Boc(b, m), f), MaxDecompressed)
  PROVE  IF WholeFrame(Boc(b, m), f)
         THEN IF SizeOf(Boc(b, m)) <= MaxDecompressed THEN r = Ok(Boc(b, m)) ELSE r = Err
         ELSE r \in {Err, Ok(Mangled(Boc(b, m)))}
<1> DEFINE s == Lz4(Boc(b, m), f)
<1>1. s.kind = "lz4" /\ s.of = Boc(b, m) /\ s.frames = f
  BY Kinds
<1> HIDE DEF s
<1>2. r \in Lz4Decompress(s, MaxDecompressed)
  BY ONLY r \in Lz4Decompress(Lz4(Boc(b, m), f), MaxDecompressed) DEF s
<1> QED
  BY ONLY <1>1, <1>2 DEF Lz4Decompress

\* Anything else gives an error or bytes that no encoder wrote.
LEMMA Lz4OfOther ==
  ASSUME NEW s, s.kind # "lz4", NEW r \in Lz4Decompress(s, MaxDecompressed)
  PROVE  r \in {Err, Ok(Noise)}
BY DEF Lz4Decompress

\* A run that reads what compress made of a block has that in hand.
LEMMA InHand ==
  ASSUME IInv, pc \in {"deserialize", "unlz4"}
  PROVE  /\ data \in {Empty, Noise} \/
              (input.text = Text(data) /\ \E b \in Blocks : \E m \in Modes :
                 data = Boc(b, m) \/ data = Lz4(Boc(b, m), data.frames))
         /\ \A c \in Blocks : MadeFrom(c) => data = Compressed(c)
<1>1. Decoded
  BY DEF IInv, DataInv
<1>2. CASE input.text \in {EmptyText, BadText, CutText}
  <2>1. data \in {Empty, Noise}
    BY <1>1, <1>2, Texts DEF Decoded, BufferFromBase64
  <2>2. \A c \in Blocks : ~MadeFrom(c)
    BY <1>2, Texts, MadeFromText
  <2> QED
    BY <2>1, <2>2
<1>3. CASE input.text = Text(input.text.of) /\ Known(input.text.of)
  <2>1. data = input.text.of
    BY <1>1, <1>3, Texts DEF Decoded, BufferFromBase64
  <2>2. \A c \in Blocks : MadeFrom(c) => data = Compressed(c)
    BY <2>1, MadeFromText
  <2> QED
    BY <1>3, <2>1, <2>2 DEF Known
<1> QED
  BY <1>2, <1>3 DEF IInv, FilesInv

-----------------------------------------------------------------------------
(* The steps of a process.                                                 *)

\* Bad usage.
LEMMA RejectInputStep ==
  ASSUME IInv, RejectInput
  PROVE  IInv'
BY ExitKeeps, Statements DEF RejectInput

\* The text is decoded.
LEMMA DecodeInputStep ==
  ASSUME IInv, DecodeInput
  PROVE  IInv'
<1> DEFINE l == IF input.mode = "compress" THEN "deserialize" ELSE "unlz4"
<1>1. PICK s \in IF input.text = CutText THEN {Empty, Noise} ELSE {BufferFromBase64(input.text)} :
        Step(l, s)
  BY DEF DecodeInput
<1>2. pc = "input" /\ input.mode \in {"compress", "decompress"}
  BY DEF DecodeInput
<1>3. l \in Early
  BY Statements
<1>4. Types' /\ FilesInv' /\ KeepInv'
  BY <1>1, <1>2, <1>3, Statements, StepKeeps
<1>5. UNCHANGED <<input, i, frames, faults>> /\ pc' = l /\ data' = s
  BY <1>1 DEF Step, files
<1>6. Decoded'
  BY <1>1, <1>5 DEF Decoded
<1>7. i = 0 /\ frames = <<>> /\ faults = {}
  BY <1>2 DEF IInv, DataInv
<1>8. DataInv'
  BY <1>2, <1>5, <1>6, <1>7, Statements DEF DataInv
<1> QED
  BY <1>4, <1>8 DEF IInv

\* compress: the block of the input, or an error and the process aborts.
LEMMA DeserializeStep ==
  ASSUME IInv, Deserialize
  PROVE  IInv'
<1>1. PICK r \in StdBocDeserialize(data) : MoveAsOk(r, "serialize")
  BY DEF Deserialize
<1>2. pc = "deserialize"
  BY DEF Deserialize
<1>3. CASE r = Err
  <2>1. Exit(SigAbrt)
    BY <1>1, <1>3, Answers DEF MoveAsOk
  <2> QED
    BY <1>2, <2>1, ExitKeeps, Statements
<1>4. ASSUME NEW b \in Blocks, Compresses(b), r = Ok(Cell(b))
      PROVE  IInv'
  <2>1. Step("serialize", Cell(b))
    BY <1>1, <1>4, Answers DEF MoveAsOk
  <2>2. Types' /\ FilesInv' /\ KeepInv'
    BY <1>2, <2>1, StepKeeps, Statements
  <2>3. UNCHANGED <<input, i, frames, faults>> /\ pc' = "serialize" /\ data' = Cell(b)
    BY <2>1 DEF Step, files
  <2>4. i = 0 /\ frames = <<>> /\ faults = {} /\ input.mode = "compress"
    BY <1>2, Statements DEF IInv, DataInv
  <2>5. Compresses(b)'
    BY <1>4, <2>3, SameInput
  <2>6. DataInv'
    BY <2>3, <2>4, <2>5, Statements DEF DataInv
  <2> QED
    BY <2>2, <2>6 DEF IInv
<1>5. r = Err \/ \E b \in Blocks : Compresses(b) /\ r = Ok(Cell(b))
  <2>1. CASE data \in {Empty, Noise}
    BY <1>1, <2>1, DeserializeOther, Kinds
  <2>2. ASSUME NEW b \in Blocks, NEW m \in Modes, input.text = Text(data), data = Boc(b, m)
        PROVE  Compresses(b) /\ r = Ok(Cell(b))
    <3>1. input.mode = "compress"
      BY <1>2, Statements DEF IInv, DataInv
    <3>2. Compresses(b)
      BY <2>2, <3>1 DEF Compresses
    <3>3. r = Ok(Cell(b))
      BY <1>1, <2>2, DeserializeBoc
    <3> QED
      BY <3>2, <3>3
  <2>3. ASSUME NEW b \in Blocks, NEW m \in Modes, data = Lz4(Boc(b, m), data.frames)
        PROVE  r = Err
    <3>1. data.kind = "lz4"
      BY <2>3, Kinds
    <3> QED
      BY <1>1, <3>1, DeserializeOther
  <2> QED
    BY <1>2, <2>1, <2>2, <2>3, InHand
<1> QED
  BY <1>3, <1>4, <1>5

\* compress: mode 0 of the block.
LEMMA SerializeStep ==
  ASSUME IInv, Serialize
  PROVE  IInv'
<1>1. pc = "serialize" /\ Step("chunks", StdBocSerialize(data, 0))
  BY DEF Serialize
<1>2. PICK b \in Blocks : Compresses(b) /\ data = Cell(b)
  BY <1>1 DEF IInv, DataInv
<1>3. StdBocSerialize(data, 0) = Boc(b, 0)
  BY <1>2, Kinds DEF StdBocSerialize
<1>4. Types' /\ FilesInv' /\ KeepInv'
  BY <1>1, StepKeeps, Statements
<1>5. UNCHANGED <<input, i, frames, faults>> /\ pc' = "chunks" /\ data' = Boc(b, 0)
  BY <1>1, <1>3 DEF Step, files
<1>6. i = 0 /\ frames = <<>> /\ faults = {} /\ input.mode = "compress"
  BY <1>1, Statements DEF IInv, DataInv
<1>7. Compresses(b)'
  BY <1>2, <1>5, SameInput
<1>8. ChunksInv(SizeOf(data))'
  <2> DEFINE n == SizeOf(Boc(b, 0))
  <2>1. n \in Nat
    BY BocHasSize
  <2>2. SizeOf(data)' = n
    BY <1>5
  <2> HIDE DEF n
  <2>3. i' = 0 /\ frames' = <<>> /\ Len(frames') = 0
    BY ONLY <1>5, <1>6
  <2>4. i' = ChunkSize * Len(frames') /\ i' < n + ChunkSize
    BY ONLY <2>1, <2>3 DEF ChunkSize
  <2>5. \A k \in 1 .. Len(frames') : frames'[k] = <<(k - 1) * ChunkSize, Min({k * ChunkSize, n})>>
    BY ONLY <2>3
  <2> QED
    BY ONLY <2>2, <2>4, <2>5 DEF ChunksInv
<1>9. DataInv'
  BY <1>5, <1>6, <1>7, <1>8, Statements DEF DataInv
<1> QED
  BY <1>4, <1>9 DEF IInv

\* compress: one more piece.
LEMMA CompressChunkStep ==
  ASSUME IInv, CompressChunk
  PROVE  IInv'
<1>1. /\ pc = "chunks" /\ i < SizeOf(data)
      /\ frames' = Append(frames, <<i, i + Min({ChunkSize, SizeOf(data) - i})>>)
      /\ i' = i + ChunkSize
      /\ UNCHANGED <<input, output, pc, data, code, before, faults>>
  BY DEF CompressChunk, files
<1>2. PICK b \in Blocks : Compresses(b) /\ data = Boc(b, 0) /\ ChunksInv(SizeOf(data))
  BY <1>1 DEF IInv, DataInv
<1> DEFINE n == SizeOf(data)
           K == Len(frames) + 1
           e == <<i, i + Min({ChunkSize, n - i})>>
<1>3. n \in Nat
  BY <1>2, BocHasSize
<1>4. i \in Nat /\ frames \in Seq(Nat \X Nat)
  BY DEF IInv, Types
<1>5. n' = n
  BY <1>1
<1>6. ChunksInv(n)
  BY <1>2
<1>7. i < n /\ frames' = Append(frames, e) /\ i' = i + ChunkSize
  BY <1>1
<1> HIDE DEF n
<1>8. Len(frames) \in Nat /\ i = 128 * Len(frames)
  BY ONLY <1>4, <1>6 DEF ChunksInv, ChunkSize
<1>9. e = <<(K - 1) * ChunkSize, Min({K * ChunkSize, n})>>
  <2>1. Min({ChunkSize, n - i}) = IF 128 <= n - i THEN 128 ELSE n - i
    BY ONLY <1>3, <1>4, MinTwo DEF ChunkSize
  <2>2. Min({K * ChunkSize, n}) = IF K * 128 <= n THEN K * 128 ELSE n
    BY ONLY <1>3, <1>8, MinTwo DEF ChunkSize
  <2>3. (K - 1) * ChunkSize = i /\ K * 128 = i + 128
    BY ONLY <1>8 DEF ChunkSize
  <2>4. i + Min({ChunkSize, n - i}) = Min({K * ChunkSize, n})
    BY ONLY <1>3, <1>4, <2>1, <2>2, <2>3
  <2> QED
    BY ONLY <2>3, <2>4
<1>10. e \in Nat \X Nat
  <2>1. Min({ChunkSize, n - i}) \in Nat
    BY ONLY <1>3, <1>4, <1>7, MinTwo DEF ChunkSize
  <2> QED
    BY ONLY <1>4, <2>1
<1> HIDE DEF e
<1>11. frames' \in Seq(Nat \X Nat) /\ Len(frames') = K
       /\ frames'[K] = e /\ \A k \in 1 .. Len(frames) : frames'[k] = frames[k]
  BY ONLY <1>4, <1>7, <1>10, AppendProperties
<1>12. i' \in Nat /\ i' = ChunkSize * Len(frames') /\ i' < n + ChunkSize
  BY ONLY <1>3, <1>4, <1>7, <1>8, <1>11 DEF ChunkSize
<1>13. \A k \in 1 .. Len(frames') : frames'[k] = <<(k - 1) * ChunkSize, Min({k * ChunkSize, n})>>
  <2> SUFFICES ASSUME NEW k \in 1 .. Len(frames')
               PROVE  frames'[k] = <<(k - 1) * ChunkSize, Min({k * ChunkSize, n})>>
    OBVIOUS
  <2>1. CASE k = K
    BY ONLY <2>1, <1>9, <1>11
  <2>2. CASE k \in 1 .. Len(frames)
    BY ONLY <2>2, <1>6, <1>11 DEF ChunksInv
  <2> QED
    BY ONLY <1>8, <1>11, <2>1, <2>2
<1>14. ChunksInv(n)'
  BY ONLY <1>5, <1>12, <1>13 DEF ChunksInv
<1>15. Types'
  BY <1>1, <1>11, <1>12 DEF IInv, Types
<1>16. FilesInv' /\ KeepInv'
  BY <1>1 DEF IInv, FilesInv, KeepInv
<1>17. \E c \in Blocks : Compresses(c)' /\ data' = Boc(c, 0) /\ ChunksInv(SizeOf(data))'
  BY <1>1, <1>2, <1>14, SameInput DEF n
<1>18. faults = {} /\ input.mode = "compress"
  BY <1>1, Statements DEF IInv, DataInv
<1>19. DataInv'
  BY <1>1, <1>17, <1>18, Statements DEF DataInv
<1> QED
  BY <1>15, <1>16, <1>19 DEF IInv

\* compress: all the pieces, without gap or overlap.
LEMMA EndOfChunksStep ==
  ASSUME IInv, EndOfChunks
  PROVE  IInv'
<1>1. pc = "chunks" /\ i >= SizeOf(data) /\ Step("open", Lz4(data, frames))
  BY DEF EndOfChunks
<1>2. PICK b \in Blocks : Compresses(b) /\ data = Boc(b, 0) /\ ChunksInv(SizeOf(data))
  BY <1>1 DEF IInv, DataInv
<1> DEFINE n == SizeOf(data)
           L == Len(frames)
<1>3. n \in Nat
  BY <1>2, BocHasSize
<1>4. i \in Nat /\ frames \in Seq(Nat \X Nat)
  BY DEF IInv, Types
<1>5. ChunksInv(n) /\ i >= n
  BY <1>1, <1>2
<1>6. frames = Pieces(n)
  <2> HIDE DEF n
  <2>1. L \in Nat /\ i = 128 * L /\ i < n + 128
    BY ONLY <1>4, <1>5 DEF ChunksInv, ChunkSize
  <2>2. L = (n + ChunkSize - 1) \div ChunkSize
    BY ONLY <2>1, <1>3, <1>5 DEF ChunkSize
  <2>3. frames = [k \in 1 .. L |-> frames[k]]
    BY ONLY <1>4
  <2>4. \A k \in 1 .. L : frames[k] = <<(k - 1) * ChunkSize, Min({k * ChunkSize, n})>>
    BY ONLY <1>5 DEF ChunksInv
  <2>5. frames = [k \in 1 .. L |-> <<(k - 1) * ChunkSize, Min({k * ChunkSize, n})>>]
    BY ONLY <2>3, <2>4
  <2> QED
    BY ONLY <2>2, <2>5 DEF Pieces
<1>7. Lz4(data, frames) = Compressed(b)
  BY <1>2, <1>6 DEF Compressed
<1>8. Types' /\ FilesInv' /\ KeepInv'
  BY <1>1, StepKeeps, Statements
<1>9. UNCHANGED <<input, faults>> /\ pc' = "open" /\ data' = Compressed(b)
  BY <1>1, <1>7 DEF Step, files
<1>10. Compresses(b)'
  BY <1>2, <1>9, SameInput
<1>11. faults = {}
  BY <1>1, Statements DEF IInv, DataInv
<1>12. Result(data)'
  BY <1>9, <1>10 DEF Result
<1>13. DataInv'
  BY <1>9, <1>11, <1>12, Statements DEF DataInv
<1> QED
  BY <1>8, <1>13 DEF IInv

\* decompress: mode 0 of the block if that was one piece.
LEMMA UnLz4Step ==
  ASSUME IInv, UnLz4
  PROVE  IInv'
<1>1. PICK r \in Lz4Decompress(data, MaxDecompressed) : MoveAsOk(r, "restore")
  BY DEF UnLz4
<1>2. pc = "unlz4"
  BY DEF UnLz4
<1> DEFINE Left(s) ==
      \/ s = Noise /\ \A c \in Blocks : ~MadeFrom(c)
      \/ input.text.text = "base64" /\ Unpacked(input.text.of, s)
<1>3. r = Err \/ \E s : r = Ok(s) /\ Left(s)
  <2>1. ASSUME NEW b \in Blocks, NEW m \in Modes, data = Lz4(Boc(b, m), data.frames),
               input.text = Text(data)
        PROVE  r = Err \/ \E s : r = Ok(s) /\ Left(s)
    <3>1. data.kind = "lz4" /\ data.of = Boc(b, m)
      BY <2>1, Kinds
    <3>2. input.text.text = "base64" /\ input.text.of = data
      BY <2>1, Texts
    <3>3. IF WholeFrame(data.of, data.frames)
          THEN IF SizeOf(data.of) <= MaxDecompressed THEN r = Ok(data.of) ELSE r = Err
          ELSE r \in {Err, Ok(Mangled(data.of))}
      BY <1>1, <2>1, <3>1, Lz4OfBoc
    <3>4. CASE r = Ok(data.of) /\ WholeFrame(data.of, data.frames)
               /\ SizeOf(data.of) <= MaxDecompressed
      <4>1. Unpacked(data, data.of)
        BY <3>1, <3>4 DEF Unpacked
      <4> QED
        BY <3>2, <3>4, <4>1
    <3>5. CASE r = Ok(Mangled(data.of)) /\ ~WholeFrame(data.of, data.frames)
      <4>1. Unpacked(data, Mangled(data.of))
        BY <3>1, <3>5 DEF Unpacked
      <4> QED
        BY <3>2, <3>5, <4>1
    <3> QED
      BY <3>3, <3>4, <3>5
  <2>2. CASE data.kind # "lz4"
    <3>1. r \in {Err, Ok(Noise)}
      BY <1>1, <2>2, Lz4OfOther
    <3>2. \A c \in Blocks : ~MadeFrom(c)
      BY <1>2, <2>2, InHand, CompressedFields
    <3> QED
      BY <3>1, <3>2
  <2>3. data.kind # "lz4" \/
        (input.text = Text(data) /\
          \E b \in Blocks : \E m \in Modes : data = Lz4(Boc(b, m), data.frames))
    BY <1>2, InHand, Kinds
  <2> QED
    BY <2>1, <2>2, <2>3
<1>4. CASE r = Err
  <2>1. Exit(SigAbrt)
    BY <1>1, <1>4, Answers DEF MoveAsOk
  <2> QED
    BY <1>2, <2>1, ExitKeeps, Statements
<1>5. ASSUME NEW s, r = Ok(s), Left(s)
      PROVE  IInv'
  <2>1. Step("restore", s)
    BY <1>1, <1>5, Answers DEF MoveAsOk
  <2>2. Types' /\ FilesInv' /\ KeepInv'
    BY <1>2, <2>1, StepKeeps, Statements
  <2>3. UNCHANGED <<input, faults>> /\ pc' = "restore" /\ data' = s
    BY <2>1 DEF Step, files
  <2>4. faults = {} /\ input.mode = "decompress"
    BY <1>2, Statements DEF IInv, DataInv
  <2>5. \A c : MadeFrom(c)' <=> MadeFrom(c)
    BY <2>3, SameInput
  <2>6. /\ pc' = "restore"
        /\ \/ data' = Noise /\ \A c \in Blocks : ~MadeFrom(c)'
           \/ input'.text.text = "base64" /\ Unpacked(input'.text.of, data')
    BY <1>5, <2>3, <2>5
  <2>7. DataInv'
    BY <2>3, <2>4, <2>6, Statements DEF DataInv, Unpacked
  <2> QED
    BY <2>2, <2>7 DEF IInv
<1> QED
  BY <1>3, <1>4, <1>5

\* decompress: the block, or another one if that was several pieces.
LEMMA RestoreStep ==
  ASSUME IInv, Restore
  PROVE  IInv'
<1>1. PICK r \in StdBocDeserialize(data) : MoveAsOk(r, "expand")
  BY DEF Restore
<1>2. pc = "restore" /\ input.mode = "decompress" /\ faults = {}
  BY Statements DEF Restore, IInv, DataInv
<1>3. r = Err \/ \E b \in Blocks : Decompresses(b) /\ r = Ok(Cell(b))
  <2>1. CASE data = Noise
    BY <1>1, <2>1, DeserializeOther, Kinds
  <2>2. ASSUME input.text.text = "base64", Unpacked(input.text.of, data)
        PROVE  r = Err \/ \E b \in Blocks : Decompresses(b) /\ r = Ok(Cell(b))
    <3> DEFINE s == input.text.of
    <3>1. PICK b \in Blocks, m \in Modes : s.of = Boc(b, m)
      BY <2>2 DEF Unpacked
    <3>2. s.kind = "lz4" /\ s.of.root = b /\ s.of.mode = m
      BY <2>2, <3>1, Kinds DEF Unpacked
    <3>3. CASE WholeFrame(s.of, s.frames)
      <4>1. data = Boc(b, m) /\ SizeOf(s.of) <= MaxDecompressed
        BY <2>2, <3>1, <3>3 DEF Unpacked
      <4>2. r = Ok(Cell(b))
        BY <1>1, <4>1, DeserializeBoc
      <4>3. GivesBack(s, b)
        BY <3>2, <3>3, <4>1 DEF GivesBack
      <4> QED
        BY <1>2, <2>2, <4>2, <4>3 DEF Decompresses
    <3>4. CASE ~WholeFrame(s.of, s.frames)
      <4>1. data = Mangled(Boc(b, m))
        BY <2>2, <3>1, <3>4 DEF Unpacked
      <4>2. r = Err \/ \E c \in Blocks : c # b /\ ~HasCrc(m) /\ r = Ok(Cell(c))
        BY <1>1, <4>1, DeserializeMangled
      <4>3. \A c : c # b /\ ~HasCrc(m) => GivesBack(s, c)
        BY <3>2, <3>4 DEF GivesBack
      <4> QED
        BY <1>2, <2>2, <4>2, <4>3 DEF Decompresses
    <3> QED
      BY <3>3, <3>4
  <2> QED
    BY <1>2, <2>1, <2>2 DEF IInv, DataInv
<1>4. CASE r = Err
  <2>1. Exit(SigAbrt)
    BY <1>1, <1>4, Answers DEF MoveAsOk
  <2> QED
    BY <1>2, <2>1, ExitKeeps, Statements
<1>5. ASSUME NEW b \in Blocks, Decompresses(b), r = Ok(Cell(b))
      PROVE  IInv'
  <2>1. Step("expand", Cell(b))
    BY <1>1, <1>5, Answers DEF MoveAsOk
  <2>2. Types' /\ FilesInv' /\ KeepInv'
    BY <1>2, <2>1, StepKeeps, Statements
  <2>3. UNCHANGED <<input, faults>> /\ pc' = "expand" /\ data' = Cell(b)
    BY <2>1 DEF Step, files
  <2>4. Decompresses(b)'
    BY <1>5, <2>3, SameInput
  <2>5. DataInv'
    BY <1>2, <2>3, <2>4, Statements DEF DataInv
  <2> QED
    BY <2>2, <2>5 DEF IInv
<1> QED
  BY <1>3, <1>4, <1>5

\* decompress: mode 31 of the block.
LEMMA ExpandStep ==
  ASSUME IInv, Expand
  PROVE  IInv'
<1>1. pc = "expand" /\ Step("open", StdBocSerialize(data, 31))
  BY DEF Expand
<1>2. PICK b \in Blocks : Decompresses(b) /\ data = Cell(b)
  BY <1>1 DEF IInv, DataInv
<1>3. StdBocSerialize(data, 31) = Boc(b, 31)
  BY <1>2, Kinds DEF StdBocSerialize
<1>4. Types' /\ FilesInv' /\ KeepInv'
  BY <1>1, StepKeeps, Statements
<1>5. UNCHANGED <<input, faults>> /\ pc' = "open" /\ data' = Boc(b, 31)
  BY <1>1, <1>3 DEF Step, files
<1>6. faults = {}
  BY <1>1, Statements DEF IInv, DataInv
<1>7. Result(data)'
  BY <1>2, <1>5, SameInput DEF Result
<1>8. DataInv'
  BY <1>5, <1>6, <1>7, Statements DEF DataInv
<1> QED
  BY <1>4, <1>8 DEF IInv

\* An allocation that fails.
LEMMA BadAllocStep ==
  ASSUME IInv, BadAlloc
  PROVE  IInv'
<1>1. /\ UNCHANGED <<input, output, i, frames, before>>
      /\ faults' = faults \cup {"memory"} /\ pc \notin {"idle", "report"}
      /\ \/ /\ pc \in InCompress \cup InDecompress
            /\ pc' = "open" /\ data' = Empty /\ UNCHANGED code
         \/ /\ pc \notin InCompress \cup InDecompress
            /\ pc' = "idle" /\ code' = 1
  BY DEF BadAlloc, files
<1>2. Types'
  BY <1>1 DEF IInv, Types
<1>3. FilesInv'
  BY <1>1 DEF IInv, FilesInv
<1>4. KeepInv'
  BY <1>1, Statements DEF IInv, KeepInv
<1>5. faults' # {}
  BY <1>1
<1>6. pc' = "open" => faults' \subseteq {"memory", "disk"}
  <2>1. pc \in InCompress \cup InDecompress => faults = {}
    BY DEF IInv, DataInv
  <2> QED
    BY <1>1, <2>1
<1>7. DataInv'
  BY <1>1, <1>5, <1>6, Statements DEF DataInv
<1> QED
  BY <1>2, <1>3, <1>4, <1>7 DEF IInv

\* The output is truncated.
LEMMA OpenOutputStep ==
  ASSUME IInv, OpenOutput
  PROVE  IInv'
<1>1. /\ UNCHANGED <<input, i, frames, data, code, before, faults>> /\ pc = "open"
      /\ output' = EmptyText /\ pc' = "write"
  BY DEF OpenOutput, memory
<1>2. Types'
  BY <1>1, Texts DEF IInv, Types, TextKinds
<1>3. FilesInv'
  BY <1>1 DEF IInv, FilesInv
<1>4. KeepInv'
  BY <1>1 DEF KeepInv
<1>5. Result(data)' <=> Result(data)
  BY <1>1, SameResult
<1>6. DataInv'
  BY <1>1, <1>5, Statements DEF IInv, DataInv
<1> QED
  BY <1>2, <1>3, <1>4, <1>6 DEF IInv

\* The output cannot be opened.
LEMMA CannotOpenOutputStep ==
  ASSUME IInv, CannotOpenOutput
  PROVE  IInv'
<1>1. /\ UNCHANGED <<input, output, i, frames, before>>
      /\ pc = "open" /\ pc' = "idle" /\ code' = 1 /\ faults' = faults \cup {"disk"}
  BY DEF CannotOpenOutput, files, memory
<1>2. Types'
  BY <1>1 DEF IInv, Types
<1>3. FilesInv'
  BY <1>1 DEF IInv, FilesInv
<1>4. KeepInv'
  BY <1>1 DEF IInv, KeepInv
<1>5. DataInv'
  BY <1>1, Statements DEF DataInv
<1> QED
  BY <1>2, <1>3, <1>4, <1>5 DEF IInv

\* What is written of a result, and of an empty slice.
LEMMA WrittenText ==
  ASSUME Result(data) \/ data = Empty
  PROVE  /\ data = Empty => Base64Encode(data) = EmptyText
         /\ Result(data) => Base64Encode(data) = Text(data)
         /\ Result(data) => \E b \in Blocks : data = Compressed(b) \/ data = Boc(b, 31)
<1>1. Result(data) => \E b \in Blocks : data = Compressed(b) \/ data = Boc(b, 31)
  BY DEF Result
<1>2. Result(data) => data.kind \in {"lz4", "boc"}
  BY <1>1, Kinds, CompressedFields
<1>3. Result(data) => data # Empty
  BY <1>2, Kinds
<1> QED
  BY <1>1, <1>3 DEF Base64Encode

\* The text of what is in hand is written.
LEMMA WriteOutputStep ==
  ASSUME IInv, WriteOutput
  PROVE  IInv'
<1>1. /\ UNCHANGED <<input, i, frames, data, code, before, faults>> /\ pc = "write"
      /\ output' = Base64Encode(data) /\ pc' = "report"
  BY DEF WriteOutput, memory
<1>2. IF faults = {} THEN Result(data) ELSE data = Empty
  BY <1>1 DEF IInv, DataInv
<1>3. output' = EmptyText \/ \E b \in Blocks : output' = Text(Compressed(b)) \/ output' = Text(Boc(b, 31))
  BY <1>1, <1>2, WrittenText
<1>4. output'.text \in {"none", "base64"}
  BY <1>3, Texts
<1>5. Types'
  BY <1>1, <1>4 DEF IInv, Types, TextKinds
<1>6. FilesInv'
  BY <1>1, <1>3 DEF IInv, FilesInv
<1>7. KeepInv'
  BY <1>1 DEF KeepInv
<1>8. Result(data)' <=> Result(data)
  BY <1>1, SameResult
<1>9. IF faults = {} THEN Result(data) /\ output' = Text(data) ELSE output' = EmptyText
  BY <1>1, <1>2, WrittenText
<1>10. faults \subseteq {"memory", "disk"}
  BY <1>1 DEF IInv, DataInv
<1>11. DataInv'
  BY <1>1, <1>8, <1>9, <1>10, Statements DEF DataInv
<1> QED
  BY <1>5, <1>6, <1>7, <1>11 DEF IInv

\* The disk is full.
LEMMA DiskFullStep ==
  ASSUME IInv, DiskFull
  PROVE  IInv'
<1>1. /\ UNCHANGED <<input, i, frames, data, code, before>> /\ pc = "write"
      /\ output' \in {EmptyText, CutText} /\ pc' = "report" /\ faults' = faults \cup {"disk"}
  BY DEF DiskFull, memory
<1>2. output'.text \in {"none", "cut"}
  BY <1>1, Texts
<1>3. Types'
  BY <1>1, <1>2 DEF IInv, Types, TextKinds
<1>4. FilesInv'
  BY <1>1 DEF IInv, FilesInv
<1>5. KeepInv'
  BY <1>1 DEF KeepInv
<1>6. faults' # {} /\ faults' \subseteq {"memory", "disk"}
  <2>1. faults \subseteq {"memory", "disk"}
    BY <1>1 DEF IInv, DataInv
  <2> QED
    BY <1>1, <2>1
<1>7. DataInv'
  BY <1>1, <1>6, Statements DEF DataInv
<1> QED
  BY <1>3, <1>4, <1>5, <1>7 DEF IInv

\* A process that is done or killed.
LEMMA EndStep ==
  ASSUME IInv, Report \/ Kill
  PROVE  IInv'
<1>1. /\ UNCHANGED <<input, i, frames, before>> /\ pc' = "idle" /\ output' \in {output, CutText}
      /\ code' \in {0, SigKill} /\ faults' \in {faults, faults \cup {"kill"}}
  BY DEF Report, Exit, Kill, files, memory
<1>2. Types'
  <2>1. output'.text \in TextKinds \ {"bad"}
    BY <1>1, Texts DEF IInv, Types, TextKinds
  <2> QED
    BY <1>1, <2>1 DEF IInv, Types
<1>3. FilesInv'
  BY <1>1 DEF IInv, FilesInv
<1>4. KeepInv'
  BY <1>1 DEF KeepInv
<1>5. DataInv'
  BY <1>1, Statements DEF DataInv
<1> QED
  BY <1>2, <1>3, <1>4, <1>5 DEF IInv

\* Every step keeps the invariant.
LEMMA NextInv == IInv /\ [Next]_vars => IInv'
<1> SUFFICES ASSUME IInv, [Next]_vars
             PROVE  IInv'
  OBVIOUS
<1>1. CASE EditInput \/ TurnAround \/ Start
  BY <1>1, EditInputStep, TurnAroundStep, StartStep
<1>2. CASE RejectInput \/ DecodeInput
  BY <1>2, RejectInputStep, DecodeInputStep
<1>3. CASE Deserialize \/ Serialize \/ CompressChunk \/ EndOfChunks
  BY <1>3, DeserializeStep, SerializeStep, CompressChunkStep, EndOfChunksStep
<1>4. CASE UnLz4 \/ Restore \/ Expand
  BY <1>4, UnLz4Step, RestoreStep, ExpandStep
<1>5. CASE OpenOutput \/ CannotOpenOutput \/ WriteOutput \/ DiskFull
  BY <1>5, OpenOutputStep, CannotOpenOutputStep, WriteOutputStep, DiskFullStep
<1>6. CASE BadAlloc \/ Report \/ Kill
  BY <1>6, BadAllocStep, EndStep
<1>7. CASE UNCHANGED vars
  <2>1. UNCHANGED <<input, output, pc, data, i, frames, code, before, faults>>
    BY <1>7 DEF vars, files, memory
  <2>2. Types' /\ FilesInv' /\ KeepInv'
    BY <2>1 DEF IInv, Types, FilesInv, KeepInv
  <2>3. Decoded' <=> Decoded
    BY <2>1 DEF Decoded
  <2>4. ChunksInv(SizeOf(data))' <=> ChunksInv(SizeOf(data))
    BY <2>1 DEF ChunksInv
  <2>5. DataInv'
    BY <2>1, <2>3, <2>4, SameInput, SameResult DEF IInv, DataInv
  <2> QED
    BY <2>2, <2>5 DEF IInv
<1> QED
  BY <1>1, <1>2, <1>3, <1>4, <1>5, <1>6, <1>7 DEF Next, Process

\* The invariant holds in every reachable state.
THEOREM Invariance == Spec => []IInv
<1>1. Init => IInv
  BY InitInv
<1>2. IInv /\ [Next]_vars => IInv'
  BY NextInv
<1> QED
  BY <1>1, <1>2, PTL DEF Spec

-----------------------------------------------------------------------------
(* How a process ends.                                                     *)

\* With code 0 only from the last statement of main, with what it has written;
\* nothing having struck it, else because an answer of the library was an error.
LEMMA HowItEnds ==
  ASSUME IInv, Next, Ends
  PROVE  /\ input' = input
         /\ code' = 0 => pc = "report" /\ output' = output /\ data' = data /\ faults' = faults
         /\ code' # 0 /\ faults' = {} =>
              \A c \in Blocks : ~(MadeFrom(c) /\ Fits(c))
<1>1. pc # "idle" /\ pc' = "idle"
  BY DEF Ends
<1>2. CASE EditInput \/ TurnAround \/ Start
  BY <1>1, <1>2 DEF EditInput, TurnAround, Start
<1>3. CASE RejectInput
  <2>1. input' = input /\ code' = 1 /\ input.mode \notin {"compress", "decompress"}
    BY <1>3 DEF RejectInput, Exit, files
  <2> QED
    BY <2>1, MadeFromText
<1>4. CASE DecodeInput \/ Serialize \/ EndOfChunks \/ Expand
  BY <1>1, <1>4 DEF DecodeInput, Serialize, EndOfChunks, Expand, Step
<1>5. CASE CompressChunk \/ OpenOutput \/ WriteOutput \/ DiskFull
  BY <1>1, <1>5 DEF CompressChunk, OpenOutput, WriteOutput, DiskFull
<1>6. CASE Deserialize
  <2>1. PICK r \in StdBocDeserialize(data) : MoveAsOk(r, "serialize")
    BY <1>6 DEF Deserialize
  <2>2. Exit(SigAbrt)
    BY <1>1, <2>1 DEF MoveAsOk, Step
  <2>3. input.mode = "compress"
    BY <1>6, Statements DEF Deserialize, IInv, DataInv
  <2> QED
    BY <2>2, <2>3, MadeFromText DEF Exit, files, SigAbrt
<1>7. CASE UnLz4
  <2>1. PICK r \in Lz4Decompress(data, MaxDecompressed) : MoveAsOk(r, "restore")
    BY <1>7 DEF UnLz4
  <2>2. Exit(SigAbrt) /\ ~r.ok
    BY <1>1, <2>1 DEF MoveAsOk, Step
  <2>3. ASSUME NEW c \in Blocks, MadeFrom(c), Fits(c)
        PROVE  FALSE
    <3>1. data = Lz4(Boc(c, 0), Pieces(SizeOf(Boc(c, 0))))
      BY <1>7, <2>3, InHand DEF UnLz4, Compressed
    <3>2. WholeFrame(Boc(c, 0), Pieces(SizeOf(Boc(c, 0))))
      BY <2>3, WholePieces
    <3>3. SizeOf(Boc(c, 0)) <= MaxDecompressed
      BY <2>3, BocHasSize DEF Fits, ChunkSize, MaxDecompressed
    <3>4. r = Ok(Boc(c, 0))
      BY <2>1, <3>1, <3>2, <3>3, Lz4OfBoc
    <3> QED
      BY <2>2, <3>4, Answers
  <2> QED
    BY <2>2, <2>3 DEF Exit, files, SigAbrt
<1>8. CASE Restore
  <2>1. PICK r \in StdBocDeserialize(data) : MoveAsOk(r, "expand")
    BY <1>8 DEF Restore
  <2>2. Exit(SigAbrt) /\ ~r.ok
    BY <1>1, <2>1 DEF MoveAsOk, Step
  <2>3. ASSUME NEW c \in Blocks, MadeFrom(c), Fits(c)
        PROVE  FALSE
    <3>1. data = Boc(c, 0)
      <4>1. Unpacked(input.text.of, data)
        BY <1>8, <2>3 DEF Restore, IInv, DataInv
      <4> QED
        BY <2>3, <4>1, UnpackedFits
    <3>2. \E b : r = Ok(Cell(b))
      BY <2>1, <3>1, DeserializeBoc
    <3> QED
      BY <2>2, <3>2, Answers
  <2> QED
    BY <2>2, <2>3 DEF Exit, files, SigAbrt
<1>9. CASE BadAlloc
  BY <1>1, <1>9 DEF BadAlloc, files
<1>10. CASE CannotOpenOutput
  BY <1>10 DEF CannotOpenOutput, files
<1>11. CASE Report
  BY <1>11 DEF Report, Exit, files, memory
<1>12. CASE Kill
  BY <1>12 DEF Kill, files, SigKill
<1> QED
  BY <1>2, <1>3, <1>4, <1>5, <1>6, <1>7, <1>8, <1>9, <1>10, <1>11, <1>12 DEF Next, Process

\* The bytes of the result are written as the result.
LEMMA ResultWritten ==
  ASSUME Result(data)
  PROVE  IsResult(Text(data))
<1>1. PICK b \in Blocks : \/ Compresses(b) /\ data = Compressed(b)
                          \/ Decompresses(b) /\ data = Boc(b, 31)
  BY DEF Result
<1> QED
  BY <1>1 DEF IsResult, Compresses, Decompresses

\* Before the file is open it is as the run found it; an allocation that fails
\* after that leaves it empty, a kill what there is of the result.
LEMMA HowItFails ==
  ASSUME IInv, Next, Ends, code' # 0
  PROVE  \/ output' = before
         \/ code' = 1 /\ "memory" \in faults' /\ output' = EmptyText
         \/ /\ code' = SigKill /\ pc \in {"write", "report"}
            /\ output' \in {EmptyText, CutText} \/ IsResult(output')
<1>1. pc # "idle" /\ pc' = "idle"
  BY DEF Ends
<1>2. pc \notin {"write", "report"} => output = before
  BY <1>1 DEF IInv, KeepInv
<1>3. CASE EditInput \/ TurnAround \/ Start
  BY <1>1, <1>3 DEF EditInput, TurnAround, Start
<1>4. CASE DecodeInput \/ Serialize \/ EndOfChunks \/ Expand
  BY <1>1, <1>4 DEF DecodeInput, Serialize, EndOfChunks, Expand, Step
<1>5. CASE CompressChunk \/ OpenOutput \/ WriteOutput \/ DiskFull
  BY <1>1, <1>5 DEF CompressChunk, OpenOutput, WriteOutput, DiskFull
<1>6. CASE Report
  BY <1>6 DEF Report, Exit
<1>7. CASE RejectInput \/ CannotOpenOutput
  BY <1>2, <1>7 DEF RejectInput, CannotOpenOutput, Exit, files
<1>8. CASE Deserialize \/ UnLz4 \/ Restore
  <2>1. output' = output /\ pc \in {"deserialize", "unlz4", "restore"}
    BY <1>1, <1>8 DEF Deserialize, UnLz4, Restore, MoveAsOk, Step, Exit, files
  <2> QED
    BY <1>2, <2>1
<1>9. CASE BadAlloc
  <2>1. output' = output /\ code' = 1 /\ "memory" \in faults' /\ pc # "report"
    BY <1>1, <1>9 DEF BadAlloc, files
  <2>2. pc = "write" => output = EmptyText
    BY DEF IInv, KeepInv
  <2> QED
    BY <1>2, <2>1, <2>2
<1>10. CASE Kill
  <2>1. code' = SigKill /\ (output' = output \/ (pc = "write" /\ output' = CutText))
    BY <1>10 DEF Kill
  <2>2. pc = "write" => output = EmptyText
    BY DEF IInv, KeepInv
  <2>3. pc = "report" => output \in {EmptyText, CutText} \/ IsResult(output)
    BY ResultWritten DEF IInv, DataInv
  <2> QED
    BY <1>2, <2>1, <2>2, <2>3
<1> QED
  BY <1>3, <1>4, <1>5, <1>6, <1>7, <1>8, <1>9, <1>10 DEF Next, Process

\* What a process has in hand at each statement has the kind its type gives it.
LEMMA InHandKinds ==
  ASSUME IInv
  PROVE  /\ pc \in {"serialize", "expand"} => data.kind = "cell"
         /\ pc \notin {"serialize", "expand", "report", "idle"} =>
              data.kind \in ByteKinds \cup {"empty"}
<1>1. pc \in {"serialize", "expand"} => data.kind = "cell"
  BY Kinds, Statements DEF IInv, DataInv
<1>2. pc = "input" => data.kind = "empty"
  BY Kinds DEF IInv, DataInv
<1>3. pc \in {"deserialize", "unlz4"} => data.kind \in {"empty", "noise", "boc", "lz4"}
  BY InHand, Kinds
<1>4. pc = "chunks" => data.kind = "boc"
  BY Kinds DEF IInv, DataInv
<1>5. pc = "restore" => data.kind \in {"noise", "boc", "mangled"}
  <2> SUFFICES ASSUME pc = "restore"
               PROVE  data.kind \in {"noise", "boc", "mangled"}
    OBVIOUS
  <2>1. data = Noise \/ Unpacked(input.text.of, data)
    BY DEF IInv, DataInv
  <2>2. ASSUME NEW s, Unpacked(s, data)
        PROVE  data.kind \in {"boc", "mangled"}
    BY <2>2, Kinds DEF Unpacked
  <2> QED
    BY <2>1, <2>2, Kinds
<1>6. pc \in {"open", "write"} => data.kind \in {"empty", "lz4", "boc"}
  <2>1. Result(data) => data.kind \in {"lz4", "boc"}
    BY Kinds, CompressedFields DEF Result
  <2> QED
    BY <2>1, Kinds DEF IInv, DataInv
<1>7. pc \in {"idle", "input", "open", "write", "report"} \cup InCompress \cup InDecompress
  BY DEF IInv, Types
<1> QED
  BY <1>1, <1>2, <1>3, <1>4, <1>5, <1>6, <1>7, Statements DEF ByteKinds

\* The variables keep their types (solution.cpp:51-94): input.txt is a word and a
\* text, the process has a cell in hand between its two boc calls and bytes at its
\* other statements.
THEOREM TypeCorrect == Spec => []TypeOK
<1>1. IInv => TypeOK
  BY InHandKinds DEF IInv, Types, FilesInv, TypeOK
<1> QED
  BY <1>1, Invariance, PTL

\* main opens output.txt only with a result in hand (solution.cpp:79): a run that
\* fails or is killed leaves what an earlier one wrote, but for an allocation or a
\* kill after that.
THEOREM FailedRunKeeps == Spec => FailedRunKeepsOutput
<1> DEFINE Keeps ==
      Ends /\ code' # 0 =>
        \/ output' = before
        \/ code' = 1 /\ "memory" \in faults' /\ output' = EmptyText
        \/ /\ code' = SigKill /\ pc \in {"write", "report"}
           /\ output' \in {EmptyText, CutText} \/ IsResult(output')
<1>1. IInv /\ [Next]_vars => [Keeps]_vars
  BY HowItFails
<1>2. Spec => [][Keeps]_vars
  BY <1>1, Invariance, PTL DEF Spec
<1> QED
  BY <1>2 DEF FailedRunKeepsOutput

\* "Operation completed" (solution.cpp:88): output.txt holds the result for the
\* input: the pieces of a block of any size without gap or overlap, or the block
\* that one LZ4 block was made from, or, of several with no checksum inside,
\* another; unless an allocation or the disk failed.
THEOREM CompletedWritten == Spec => CompletedMeansWritten
<1> DEFINE Written ==
      Ends /\ code' = 0 =>
        IF faults' = {} THEN IsResult(output')
        ELSE faults' \subseteq {"memory", "disk"} /\ output' \in {EmptyText, CutText}
<1>1. IInv /\ [Next]_vars => [Written]_vars
  <2> SUFFICES ASSUME IInv, Next, Ends, code' = 0
               PROVE  IF faults' = {} THEN IsResult(output')
                      ELSE faults' \subseteq {"memory", "disk"} /\ output' \in {EmptyText, CutText}
    OBVIOUS
  <2>1. pc = "report" /\ output' = output /\ faults' = faults
    BY HowItEnds
  <2>2. IF faults = {} THEN Result(data) /\ output = Text(data) ELSE output \in {EmptyText, CutText}
    BY <2>1 DEF IInv, DataInv
  <2>3. faults \subseteq {"memory", "disk"}
    BY <2>1 DEF IInv, DataInv
  <2> QED
    BY <2>1, <2>2, <2>3, ResultWritten
<1>2. Spec => [][Written]_vars
  BY <1>1, Invariance, PTL DEF Spec
<1> QED
  BY <1>2 DEF CompletedMeansWritten

\* What compress made of a block (solution.cpp:11-37), decompress restores
\* (solution.cpp:39-49) exactly if mode 0 of the block was one chunk, whatever its
\* size and whatever happened to the files in between.
THEOREM RestoresOneChunk == Spec => RestoresIffOneChunk
<1> DEFINE Restores ==
      \A b \in Blocks : Ends /\ MadeFrom(b) /\ faults' = {} =>
        (Restored(b) <=> SizeOf(Boc(b, 0)) <= ChunkSize)
<1>1. IInv /\ [Next]_vars => [Restores]_vars
  <2> SUFFICES ASSUME IInv, Next, Ends, faults' = {}, NEW c \in Blocks, MadeFrom(c)
               PROVE  Restored(c) <=> Fits(c)
    BY DEF Fits
  <2>1. CASE code' # 0
    BY <2>1, HowItEnds DEF Restored
  <2>2. CASE code' = 0
    <3>1. pc = "report" /\ output' = output /\ faults' = faults
      BY <2>2, HowItEnds
    <3>2. Result(data) /\ output = Text(data)
      BY <3>1 DEF IInv, DataInv
    <3>3. input.mode = "decompress"
      BY MadeFromText
    <3>4. PICK b \in Blocks : Decompresses(b) /\ data = Boc(b, 31)
      BY <3>2, <3>3 DEF Result, Compresses
    <3>5. b = c <=> Fits(c)
      BY <3>4, GivenBack
    <3>6. output' = Text(Boc(c, 31)) <=> b = c
      BY <3>1, <3>2, <3>4, Texts, Kinds
    <3> QED
      BY <2>2, <3>5, <3>6 DEF Restored
  <2> QED
    BY <2>1, <2>2
<1>2. Spec => [][Restores]_vars
  BY <1>1, Invariance, PTL DEF Spec
<1> QED
  BY <1>2 DEF RestoresIffOneChunk
=============================================================================
