------------------------- MODULE Solutions_proofs --------------------------
(***************************************************************************)
(* What a process of one of the solutions prints, for every set of blocks  *)
(* of any size and wherever an allocation fails: the block it was given if *)
(* it can carry that, and otherwise nothing.                               *)
(***************************************************************************)
EXTENDS Solutions, SequenceTheorems, TLAPS

\* What process memory holds in every state.
MemoryType == i \in Nat /\ frames \in Seq(Nat \X Nat)

\* The input is block b in some mode.
OfBlock(b) == \E m \in Modes : child.text = Text(Boc(b, m))

\* The process was given block b, or what its program makes of it, and can
\* carry it.
Carried(b) ==
  \/ child.mode = "compress" /\ OfBlock(b) /\ (prog = "gzip" => b \in GzFits)
  \/ /\ child.mode = "decompress" /\ child.text = Text(Form(prog, b))
     /\ SizeOf(Boc(b, 2)) <= Limit(prog)

\* What is to be printed of a block that it can carry.
Due(b) == IF child.mode = "compress" THEN Text(Form(prog, b)) ELSE Canonical(b)

\* A text that a user has or that one of the programs made of a block.
Known(t) ==
  Given(t) \/ \E b \in Blocks : t = Text(PlainForm(b)) \/ t = Text(GzipForm(b))

\* A block that gzip does not shrink.
Unshrunk ==
  /\ prog = "gzip" /\ child.mode = "compress"
  /\ \E b \in Blocks \ GzFits : OfBlock(b)

\* The pieces up to i of those of n KiB.
PiecesSoFar(n) ==
  /\ i = Gzip!ChunkSize * Len(frames) /\ i < n + Gzip!ChunkSize
  /\ \A k \in 1 .. Len(frames) :
       frames[k] = <<(k - 1) * Gzip!ChunkSize, Min({k * Gzip!ChunkSize, n})>>

\* The memory of tester/solution.cpp at each statement.
GzipMemory ==
  /\ pc \in {"mode", "data"} \cup Gzip!InCompress \cup Gzip!InDecompress
  /\ pc \in {"mode", "data", "deserialize", "serialize"} => i = 0 /\ frames = <<>>
  /\ pc = "data" => child.mode \in {"compress", "decompress"}
  /\ pc \in Gzip!InCompress => child.mode = "compress"
  /\ pc \in Gzip!InDecompress => child.mode = "decompress"
  /\ pc \in {"deserialize", "gunzip"} => buf = BufferFromBase64(child.text)
  /\ pc = "serialize" => \E b \in Blocks : OfBlock(b) /\ buf = Cell(b)
  /\ pc = "chunks" => \E b \in Blocks : OfBlock(b) /\ buf = Boc(b, 2) /\ PiecesSoFar(SizeOf(buf))
  /\ pc = "gzip" => \E b \in Blocks : OfBlock(b) /\ Gz(buf) = GzipForm(b)
  /\ pc = "unlz4" => buf = GzDecode(BufferFromBase64(child.text))
  /\ pc = "restore" => \E b \in Blocks :
       /\ child.text = Text(GzipForm(b))
       /\ buf = IF SizeOf(Boc(b, 2)) <= Limit("gzip") THEN Boc(b, 2) ELSE Mangled(Boc(b, 2))
  /\ pc = "expand" => \E b \in Blocks : Carried(b) /\ buf = Cell(b)

PlainCompress == {"deserialize", "serialize", "lz4"}
PlainDecompress == {"unlz4", "restore", "expand"}

\* The memory of the other two at each statement.
PlainMemory ==
  /\ pc \in {"mode", "data", "decode", "print"} \cup PlainCompress \cup PlainDecompress
  /\ pc \in {"data", "decode", "print"} => child.mode \in {"compress", "decompress"}
  /\ pc \in PlainCompress => child.mode = "compress"
  /\ pc \in PlainDecompress => child.mode = "decompress"
  /\ pc = "decode" => child.text # EmptyText
  /\ pc \in {"deserialize", "unlz4"} => child.text = Text(buf)
  /\ pc = "serialize" => \E b \in Blocks : OfBlock(b) /\ buf = Cell(b)
  /\ pc = "lz4" => \E b \in Blocks : OfBlock(b) /\ buf = Boc(b, 2)
  /\ pc = "restore" =>
       \/ buf = Noise /\ \A b \in Blocks : child.text # Text(PlainForm(b))
       \/ \E b \in Blocks : Carried(b) /\ buf = Boc(b, 2)
  /\ pc = "expand" => \E b \in Blocks : Carried(b) /\ buf = Cell(b)
  /\ pc = "print" => \E b \in Blocks : Carried(b) /\ Text(buf) = Due(b)

\* What a process printed is due.
Printed ==
  child.state = "exited" =>
    /\ child.code \in {0, 1, SigAbrt}
    /\ child.stdout # EmptyText =>
         child.code = 0 /\ \E b \in Blocks : Carried(b) /\ child.stdout = Due(b)

\* The fields of the process.
ChildRecord ==
  child = [state |-> child.state, mode |-> child.mode, text |-> child.text,
           stdout |-> child.stdout, code |-> child.code]

\* The process in every state.
ProcessInv ==
  /\ prog \in {"gzip", "example", "reference"}
  /\ child.state \in {"none", "spawned", "running", "exited"}
  /\ ChildRecord /\ MemoryType
  /\ child.state # "none" => Known(child.text)
  /\ child.state = "running" => IF prog = "gzip" THEN GzipMemory ELSE PlainMemory
  /\ Printed

\* It was given no mode that it knows, or no text.
Misused == child.mode \notin {"compress", "decompress"} \/ child.text = EmptyText

\* Why nothing is printed.
Excused(code) == code = SigAbrt \/ Unshrunk \/ (Misused /\ code # 0)

\* A process that nothing struck and that printed nothing had nothing to print.
Answered ==
  child.state = "exited" /\ child.stdout = EmptyText =>
    (\A b \in Blocks : ~Carried(b)) /\ Excused(child.code)

-----------------------------------------------------------------------------
(* Texts and byte strings.                                                 *)

\* The smaller of two.
LEMMA MinTwo ==
  ASSUME NEW x \in Int, NEW y \in Int
  PROVE  Min({x, y}) = IF x <= y THEN x ELSE y
BY DEF Min

\* Each kind of bytes is told from the others, and by what it was made from.
LEMMA Kinds ==
  ASSUME NEW b, NEW m, NEW s, NEW f
  PROVE  /\ Empty.kind = "empty" /\ Noise.kind = "noise"
         /\ Cell(b).kind = "cell" /\ Cell(b).root = b
         /\ Boc(b, m).kind = "boc" /\ Boc(b, m).root = b /\ Boc(b, m).mode = m
         /\ Lz4(s, f).kind = "lz4" /\ Lz4(s, f).of = s /\ Lz4(s, f).frames = f
         /\ Gz(s).kind = "gz" /\ Gz(s).of = s
         /\ Mangled(s).kind = "mangled" /\ Mangled(s).of = s
BY DEF Empty, Noise, Cell, Boc, Lz4, Gz, Mangled

\* So is each kind of text.
LEMMA Texts ==
  ASSUME NEW s
  PROVE  /\ EmptyText.text = "none" /\ BadText.text = "bad"
         /\ Text(s).text = "base64" /\ Text(s).of = s
BY DEF EmptyText, BadText, Text

\* What the programs make of a block names the block.
LEMMA Forms ==
  ASSUME NEW b
  PROVE  /\ PlainForm(b).kind = "lz4" /\ PlainForm(b).of = Boc(b, 2)
         /\ PlainForm(b).frames = <<<<0, SizeOf(Boc(b, 2))>>>>
         /\ GzipForm(b).kind = "gz" /\ GzipForm(b).of.kind = "lz4"
         /\ GzipForm(b).of.of = Boc(b, 2)
         /\ GzipForm(b).of.frames = Pieces(SizeOf(Boc(b, 2)))
         /\ GzipForm(b).of = Lz4(Boc(b, 2), Pieces(SizeOf(Boc(b, 2))))
BY Kinds DEF PlainForm, GzipForm

\* Mode 2 of a block has bytes.
LEMMA BocHasSize ==
  ASSUME NEW b \in Blocks
  PROVE  SizeOf(Boc(b, 2)) \in Nat \ {0}
<1>1. 2 \in Modes
  BY DEF Modes
<1>2. SizeOf(Boc(b, 2)) = BocSize[b][2]
  BY DEF SizeOf, Boc
<1> QED
  BY ONLY <1>1, <1>2, LibAssumption

\* The limit of tester/solution.cpp is its piece, that of the others 2 MiB.
LEMMA Limits ==
  /\ Gzip!ChunkSize = 1024 /\ Gzip!MaxDecompressed = 1024
  /\ Example!MaxDecompressed = 2048 /\ Reference!MaxDecompressed = 2048
  /\ Limit("gzip") = 1024 /\ Limit("example") = 2048 /\ Limit("reference") = 2048
BY DEF Gzip!ChunkSize, Gzip!MaxDecompressed, Example!MaxDecompressed,
       Reference!MaxDecompressed, Limit

\* The pieces are one that is the whole exactly if the block is within the limit.
LEMMA WholePieces ==
  ASSUME NEW b \in Blocks
  PROVE  WholeFrame(Boc(b, 2), Pieces(SizeOf(Boc(b, 2)))) <=> SizeOf(Boc(b, 2)) <= 1024
<1> DEFINE n == SizeOf(Boc(b, 2))
           L == (n + 1023) \div 1024
           F == [k \in 1 .. L |-> <<(k - 1) * 1024, Min({k * 1024, n})>>]
<1>1. n \in Nat /\ n > 0
  BY BocHasSize
<1>2. L \in Nat /\ (L = 1 <=> n <= 1024)
  BY <1>1
<1>3. Pieces(n) = F
  <2>1. (n + 1024 - 1) \div 1024 = L
    BY <1>1
  <2> QED
    BY <2>1, Limits DEF Pieces
<1>4. Len(F) = L
  <2>1. DOMAIN F = 1 .. L
    OBVIOUS
  <2> QED
    BY <2>1, <1>2
<1>5. L = 1 => F[1] = <<0, n>>
  <2> SUFFICES ASSUME L = 1
               PROVE  F[1] = <<0, n>>
    OBVIOUS
  <2>1. F[1] = <<(1 - 1) * 1024, Min({1 * 1024, n})>>
    OBVIOUS
  <2>2. Min({1 * 1024, n}) = n
    BY <1>1, <1>2, MinTwo
  <2> QED
    BY <2>1, <2>2
<1>6. WholeFrame(Boc(b, 2), F) <=> Len(F) = 1 /\ F[1] = <<0, n>>
  BY DEF WholeFrame
<1> HIDE DEF F, L
<1>7. WholeFrame(Boc(b, 2), F) <=> L = 1
  BY ONLY <1>4, <1>5, <1>6
<1> HIDE DEF n
<1>8. WholeFrame(Boc(b, 2), Pieces(n)) <=> n <= 1024
  BY ONLY <1>2, <1>3, <1>7
<1> QED
  BY ONLY <1>8 DEF n

\* One LZ4 block is the whole.
LEMMA WholeBlock ==
  ASSUME NEW b
  PROVE  WholeFrame(Boc(b, 2), PlainForm(b).frames)
BY Forms DEF WholeFrame

\* The pieces that were handed over, at the end of the loop.
LEMMA AllPieces ==
  ASSUME NEW n \in Nat, MemoryType, PiecesSoFar(n), i >= n
  PROVE  frames = Pieces(n)
<1> DEFINE L == Len(frames)
<1>1. i \in Nat /\ frames \in Seq(Nat \X Nat)
  BY DEF MemoryType
<1>2. L \in Nat /\ i = 1024 * L /\ i < n + 1024
  BY <1>1, Limits DEF PiecesSoFar
<1>3. L = (n + Gzip!ChunkSize - 1) \div Gzip!ChunkSize
  <2>1. L = (n + 1024 - 1) \div 1024
    BY ONLY <1>2, n \in Nat, i >= n
  <2> QED
    BY ONLY <2>1, Limits
<1>4. frames = [k \in 1 .. L |-> frames[k]]
  BY ONLY <1>1
<1>5. \A k \in 1 .. L :
        frames[k] = <<(k - 1) * Gzip!ChunkSize, Min({k * Gzip!ChunkSize, n})>>
  BY DEF PiecesSoFar
<1>6. frames = [k \in 1 .. L |-> <<(k - 1) * Gzip!ChunkSize, Min({k * Gzip!ChunkSize, n})>>]
  BY ONLY <1>4, <1>5
<1> QED
  BY ONLY <1>3, <1>6 DEF Pieces

\* One more piece.
LEMMA OnePiece ==
  ASSUME NEW n \in Nat, MemoryType, PiecesSoFar(n), i < n,
         frames' = Append(frames, <<i, i + Min({Gzip!ChunkSize, n - i})>>),
         i' = i + Gzip!ChunkSize
  PROVE  MemoryType' /\ PiecesSoFar(n)'
<1> DEFINE K == Len(frames) + 1
           e == <<i, i + Min({Gzip!ChunkSize, n - i})>>
<1>1. i \in Nat /\ frames \in Seq(Nat \X Nat) /\ Gzip!ChunkSize = 1024
  BY Limits DEF MemoryType
<1>2. Len(frames) \in Nat /\ i = 1024 * Len(frames)
  BY ONLY <1>1, PiecesSoFar(n) DEF PiecesSoFar
<1>3. e = <<(K - 1) * Gzip!ChunkSize, Min({K * Gzip!ChunkSize, n})>>
  <2>1. Min({Gzip!ChunkSize, n - i}) = IF 1024 <= n - i THEN 1024 ELSE n - i
    BY ONLY <1>1, n \in Nat, MinTwo
  <2>2. Min({K * Gzip!ChunkSize, n}) = IF K * 1024 <= n THEN K * 1024 ELSE n
    BY ONLY <1>1, <1>2, n \in Nat, MinTwo
  <2>3. (K - 1) * Gzip!ChunkSize = i /\ K * 1024 = i + 1024
    BY ONLY <1>1, <1>2
  <2>4. i + Min({Gzip!ChunkSize, n - i}) = Min({K * Gzip!ChunkSize, n})
    BY ONLY <1>1, n \in Nat, <2>1, <2>2, <2>3
  <2> QED
    BY ONLY <2>3, <2>4
<1>4. e \in Nat \X Nat
  <2>1. Min({Gzip!ChunkSize, n - i}) \in Nat
    BY ONLY <1>1, n \in Nat, i < n, MinTwo
  <2> QED
    BY ONLY <1>1, <2>1
<1>5. frames' = Append(frames, e)
  OBVIOUS
<1> HIDE DEF e
<1>6. frames' \in Seq(Nat \X Nat) /\ Len(frames') = K
      /\ frames'[K] = e /\ \A k \in 1 .. Len(frames) : frames'[k] = frames[k]
  BY ONLY <1>1, <1>4, <1>5, AppendProperties
<1>7. i' \in Nat /\ i' = Gzip!ChunkSize * Len(frames') /\ i' < n + Gzip!ChunkSize
  BY ONLY <1>1, <1>2, <1>6, n \in Nat, i < n, i' = i + Gzip!ChunkSize
<1>8. \A k \in 1 .. Len(frames') :
        frames'[k] = <<(k - 1) * Gzip!ChunkSize, Min({k * Gzip!ChunkSize, n})>>
  <2> SUFFICES ASSUME NEW k \in 1 .. Len(frames')
               PROVE  frames'[k] = <<(k - 1) * Gzip!ChunkSize, Min({k * Gzip!ChunkSize, n})>>
    OBVIOUS
  <2>1. CASE k = K
    BY ONLY <2>1, <1>3, <1>6
  <2>2. CASE k \in 1 .. Len(frames)
    BY ONLY <2>2, <1>6, PiecesSoFar(n) DEF PiecesSoFar
  <2> QED
    BY ONLY <1>2, <1>6, <2>1, <2>2
<1>9. MemoryType'
  BY ONLY <1>6, <1>7 DEF MemoryType
<1>10. PiecesSoFar(n)'
  BY ONLY <1>7, <1>8 DEF PiecesSoFar
<1> QED
  BY ONLY <1>9, <1>10

-----------------------------------------------------------------------------
(* The library's answers.                                                  *)

\* An answer is an error or a value.
LEMMA Answers ==
  ASSUME NEW v
  PROVE  Ok(v).ok /\ Ok(v).val = v /\ ~Err.ok
BY DEF Ok, Err

\* A bag of cells gives its root.
LEMMA DeserializeBoc ==
  ASSUME NEW b, NEW m
  PROVE  StdBocDeserialize(Boc(b, m)) = {Ok(Cell(b))}
<1> DEFINE s == Boc(b, m)
<1>1. s.kind = "boc" /\ s.root = b
  BY Kinds
<1> HIDE DEF s
<1>2. StdBocDeserialize(s) = {Ok(Cell(b))}
  BY ONLY <1>1 DEF StdBocDeserialize
<1> QED
  BY ONLY <1>2 DEF s

\* The checksum of mode 2 tells what went wrong in LZ4.
LEMMA DeserializeMangled ==
  ASSUME NEW b
  PROVE  StdBocDeserialize(Mangled(Boc(b, 2))) = {Err}
<1> DEFINE s == Mangled(Boc(b, 2))
<1>1. s.kind = "mangled" /\ s.of.mode = 2
  BY Kinds
<1>2. HasCrc(2)
  <2>1. (2 \div 2) % 2 = 1
    OBVIOUS
  <2> QED
    BY <2>1 DEF HasCrc
<1> HIDE DEF s
<1>3. StdBocDeserialize(s) = {Err}
  BY ONLY <1>1, <1>2 DEF StdBocDeserialize
<1> QED
  BY ONLY <1>3 DEF s

\* Anything else is no bag of cells.
LEMMA DeserializeOther ==
  ASSUME NEW s, s.kind \notin {"boc", "mangled"}
  PROVE  StdBocDeserialize(s) = {Err}
BY DEF StdBocDeserialize

\* LZ4 of mode 2 of a block gives it back if it is one frame and there is room
\* for it, and otherwise an error or what goes wrong.
LEMMA Lz4OfBoc ==
  ASSUME NEW b, NEW f, NEW max, NEW r \in Lz4Decompress(Lz4(Boc(b, 2), f), max)
  PROVE  IF WholeFrame(Boc(b, 2), f)
         THEN IF SizeOf(Boc(b, 2)) <= max THEN r = Ok(Boc(b, 2)) ELSE r = Err
         ELSE r \in {Err, Ok(Mangled(Boc(b, 2)))}
<1> DEFINE s == Lz4(Boc(b, 2), f)
<1>1. s.kind = "lz4" /\ s.of = Boc(b, 2) /\ s.frames = f
  BY Kinds
<1> HIDE DEF s
<1>2. r \in Lz4Decompress(s, max)
  BY ONLY r \in Lz4Decompress(Lz4(Boc(b, 2), f), max) DEF s
<1> QED
  BY ONLY <1>1, <1>2 DEF Lz4Decompress

\* Anything else gives an error or bytes that no encoder wrote, nothing an error.
LEMMA Lz4OfOther ==
  ASSUME NEW s, NEW max, s.kind # "lz4", NEW r \in Lz4Decompress(s, max)
  PROVE  r \in {Err, Ok(Noise)} /\ (s.kind = "empty" => r = Err)
BY DEF Lz4Decompress

-----------------------------------------------------------------------------
(* The programs' own names for what they share.                            *)

\* tester/solution.cpp.
LEMMA GzipNames ==
  ASSUME NEW l, NEW s, NEW r, NEW c
  PROVE  /\ Gzip!At(l) <=> At(l)
         /\ Gzip!Step(l, s) <=> Step(l, s)
         /\ Gzip!Exit(c, s) <=> Exit(c, s)
         /\ Gzip!MoveAsOk(r, l) <=> MoveAsOk(r, l)
         /\ Gzip!EmptyText = EmptyText /\ Gzip!Empty = Empty
         /\ Gzip!BufferFromBase64(s) = BufferFromBase64(s)
         /\ Gzip!Base64Encode(s) = Base64Encode(s)
         /\ Gzip!StdBocDeserialize(s) = StdBocDeserialize(s)
         /\ Gzip!StdBocSerialize(s, c) = StdBocSerialize(s, c)
         /\ Gzip!Lz4Decompress(s, c) = Lz4Decompress(s, c)
         /\ Gzip!Lz4(s, c) = Lz4(s, c)
         /\ Gzip!GzEncode(s) = GzEncode(s) /\ Gzip!GzDecode(s) = GzDecode(s)
         /\ Gzip!SizeOf(s) = SizeOf(s) /\ Gzip!Min(s) = Min(s)
<1>1. Gzip!At(l) <=> At(l)
  BY DEF Gzip!At, At
<1>2. /\ Gzip!Step(l, s) <=> Step(l, s)
      /\ Gzip!Exit(c, s) <=> Exit(c, s)
      /\ Gzip!MoveAsOk(r, l) <=> MoveAsOk(r, l)
  BY DEF Gzip!Step, Gzip!Goto, Gzip!Exit, Gzip!MoveAsOk, Gzip!Abort, Gzip!SigAbrt, Gzip!EmptyText,
         Step, Goto, Exit, MoveAsOk, Abort, SigAbrt, EmptyText
<1>3. Gzip!EmptyText = EmptyText /\ Gzip!Empty = Empty
  BY DEF Gzip!EmptyText, EmptyText, Gzip!Empty, Empty
<1>4. Gzip!BufferFromBase64(s) = BufferFromBase64(s) /\ Gzip!Base64Encode(s) = Base64Encode(s)
  BY DEF Gzip!BufferFromBase64, BufferFromBase64, Gzip!Base64Encode, Base64Encode,
         Gzip!EmptyText, EmptyText, Gzip!Empty, Empty, Gzip!Text, Text
<1>5. Gzip!StdBocDeserialize(s) = StdBocDeserialize(s)
  BY DEF Gzip!StdBocDeserialize, StdBocDeserialize, Gzip!Ok, Ok, Gzip!Err, Err, Gzip!Cell, Cell,
         Gzip!HasCrc, HasCrc
<1>6. Gzip!StdBocSerialize(s, c) = StdBocSerialize(s, c)
  BY DEF Gzip!StdBocSerialize, StdBocSerialize, Gzip!Boc, Boc
<1>7. Gzip!SizeOf(s) = SizeOf(s)
  BY DEF Gzip!SizeOf, SizeOf
<1>8. Gzip!Lz4Decompress(s, c) = Lz4Decompress(s, c)
  BY DEF Gzip!Lz4Decompress, Lz4Decompress, Gzip!Ok, Ok, Gzip!Err, Err, Gzip!Mangled, Mangled,
         Gzip!Noise, Noise, Gzip!WholeFrame, WholeFrame, Gzip!SizeOf, SizeOf
<1>9. Gzip!Lz4(s, c) = Lz4(s, c)
  BY DEF Gzip!Lz4, Lz4
<1>10. Gzip!GzEncode(s) = GzEncode(s) /\ Gzip!GzDecode(s) = GzDecode(s)
  BY DEF Gzip!GzEncode, GzEncode, Gzip!GzDecode, GzDecode, Gzip!Gz, Gz, Gzip!Empty, Empty
<1>11. Gzip!Min(s) = Min(s)
  BY DEF Gzip!Min, Min
<1> QED
  BY ONLY <1>1, <1>2, <1>3, <1>4, <1>5, <1>6, <1>7, <1>8, <1>9, <1>10, <1>11

\* examples/solution.cpp.
LEMMA ExampleNames ==
  ASSUME NEW l, NEW s, NEW r, NEW c
  PROVE  /\ Example!At(l) <=> At(l)
         /\ Example!Step(l, s) <=> Step(l, s)
         /\ Example!Exit(c, s) <=> Exit(c, s)
         /\ Example!MoveAsOk(r, l) <=> MoveAsOk(r, l)
         /\ Example!EmptyText = EmptyText /\ Example!Empty = Empty
         /\ Example!Base64Decode(s) = Base64Decode(s)
         /\ Example!Base64Encode(s) = Base64Encode(s)
         /\ Example!StdBocDeserialize(s) = StdBocDeserialize(s)
         /\ Example!StdBocSerialize(s, c) = StdBocSerialize(s, c)
         /\ Example!Lz4Decompress(s, c) = Lz4Decompress(s, c)
         /\ Example!Lz4(s, c) = Lz4(s, c)
         /\ Example!SizeOf(s) = SizeOf(s)
<1>1. Example!At(l) <=> At(l)
  BY DEF Example!At, At
<1>2. /\ Example!Step(l, s) <=> Step(l, s)
      /\ Example!Exit(c, s) <=> Exit(c, s)
      /\ Example!MoveAsOk(r, l) <=> MoveAsOk(r, l)
  BY DEF Example!Step, Example!Goto, Example!Exit, Example!MoveAsOk, Example!Abort, Example!SigAbrt, Example!EmptyText,
         Step, Goto, Exit, MoveAsOk, Abort, SigAbrt, EmptyText
<1>3. Example!EmptyText = EmptyText /\ Example!Empty = Empty
  BY DEF Example!EmptyText, EmptyText, Example!Empty, Empty
<1>4. Example!Base64Decode(s) = Base64Decode(s) /\ Example!Base64Encode(s) = Base64Encode(s)
  BY DEF Example!Base64Decode, Base64Decode, Example!Base64Encode, Base64Encode,
         Example!EmptyText, EmptyText, Example!Empty, Empty, Example!Text, Text,
         Example!Ok, Ok, Example!Err, Err
<1>5. Example!StdBocDeserialize(s) = StdBocDeserialize(s)
  BY DEF Example!StdBocDeserialize, StdBocDeserialize, Example!Ok, Ok, Example!Err, Err, Example!Cell, Cell,
         Example!HasCrc, HasCrc
<1>6. Example!StdBocSerialize(s, c) = StdBocSerialize(s, c)
  BY DEF Example!StdBocSerialize, StdBocSerialize, Example!Boc, Boc
<1>7. Example!SizeOf(s) = SizeOf(s)
  BY DEF Example!SizeOf, SizeOf
<1>8. Example!Lz4Decompress(s, c) = Lz4Decompress(s, c)
  BY DEF Example!Lz4Decompress, Lz4Decompress, Example!Ok, Ok, Example!Err, Err, Example!Mangled, Mangled,
         Example!Noise, Noise, Example!WholeFrame, WholeFrame, Example!SizeOf, SizeOf
<1>9. Example!Lz4(s, c) = Lz4(s, c)
  BY DEF Example!Lz4, Lz4
<1> QED
  BY ONLY <1>1, <1>2, <1>3, <1>4, <1>5, <1>6, <1>7, <1>8, <1>9

\* ton-compress-contest-linux/solution.cpp.
LEMMA ReferenceNames ==
  ASSUME NEW l, NEW s, NEW r, NEW c
  PROVE  /\ Reference!At(l) <=> At(l)
         /\ Reference!Step(l, s) <=> Step(l, s)
         /\ Reference!Exit(c, s) <=> Exit(c, s)
         /\ Reference!MoveAsOk(r, l) <=> MoveAsOk(r, l)
         /\ Reference!EmptyText = EmptyText /\ Reference!Empty = Empty
         /\ Reference!Base64Decode(s) = Base64Decode(s)
         /\ Reference!Base64Encode(s) = Base64Encode(s)
         /\ Reference!StdBocDeserialize(s) = StdBocDeserialize(s)
         /\ Reference!StdBocSerialize(s, c) = StdBocSerialize(s, c)
         /\ Reference!Lz4Decompress(s, c) = Lz4Decompress(s, c)
         /\ Reference!Lz4(s, c) = Lz4(s, c)
         /\ Reference!SizeOf(s) = SizeOf(s)
<1>1. Reference!At(l) <=> At(l)
  BY DEF Reference!At, At
<1>2. /\ Reference!Step(l, s) <=> Step(l, s)
      /\ Reference!Exit(c, s) <=> Exit(c, s)
      /\ Reference!MoveAsOk(r, l) <=> MoveAsOk(r, l)
  BY DEF Reference!Step, Reference!Goto, Reference!Exit, Reference!MoveAsOk, Reference!Abort, Reference!SigAbrt, Reference!EmptyText,
         Step, Goto, Exit, MoveAsOk, Abort, SigAbrt, EmptyText
<1>3. Reference!EmptyText = EmptyText /\ Reference!Empty = Empty
  BY DEF Reference!EmptyText, EmptyText, Reference!Empty, Empty
<1>4. Reference!Base64Decode(s) = Base64Decode(s) /\ Reference!Base64Encode(s) = Base64Encode(s)
  BY DEF Reference!Base64Decode, Base64Decode, Reference!Base64Encode, Base64Encode,
         Reference!EmptyText, EmptyText, Reference!Empty, Empty, Reference!Text, Text,
         Reference!Ok, Ok, Reference!Err, Err
<1>5. Reference!StdBocDeserialize(s) = StdBocDeserialize(s)
  BY DEF Reference!StdBocDeserialize, StdBocDeserialize, Reference!Ok, Ok, Reference!Err, Err, Reference!Cell, Cell,
         Reference!HasCrc, HasCrc
<1>6. Reference!StdBocSerialize(s, c) = StdBocSerialize(s, c)
  BY DEF Reference!StdBocSerialize, StdBocSerialize, Reference!Boc, Boc
<1>7. Reference!SizeOf(s) = SizeOf(s)
  BY DEF Reference!SizeOf, SizeOf
<1>8. Reference!Lz4Decompress(s, c) = Lz4Decompress(s, c)
  BY DEF Reference!Lz4Decompress, Lz4Decompress, Reference!Ok, Ok, Reference!Err, Err, Reference!Mangled, Mangled,
         Reference!Noise, Noise, Reference!WholeFrame, WholeFrame, Reference!SizeOf, SizeOf
<1>9. Reference!Lz4(s, c) = Lz4(s, c)
  BY DEF Reference!Lz4, Lz4
<1> QED
  BY ONLY <1>1, <1>2, <1>3, <1>4, <1>5, <1>6, <1>7, <1>8, <1>9

-----------------------------------------------------------------------------
(* The process.                                                            *)

\* Texts and programs left alone are carried alike.
LEMMA SameInput ==
  ASSUME child'.mode = child.mode, child'.text = child.text, prog' = prog
  PROVE  /\ \A b : OfBlock(b)' <=> OfBlock(b)
         /\ \A b : Carried(b)' <=> Carried(b)
         /\ \A b : Due(b)' = Due(b)
         /\ \A c : Excused(c)' <=> Excused(c)
<1>1. \A b : OfBlock(b)' <=> OfBlock(b)
  BY DEF OfBlock
<1>2. \A b : Carried(b)' <=> Carried(b)
  BY <1>1 DEF Carried
<1>3. \A b : Due(b)' = Due(b)
  BY DEF Due
<1>4. \A c : Excused(c)' <=> Excused(c)
  BY <1>1 DEF Unshrunk, Misused, Excused
<1> QED
  BY ONLY <1>1, <1>2, <1>3, <1>4

\* What the process is after its state, or its answer, is set.
LEMMA ChildFields ==
  ASSUME ChildRecord, NEW st, NEW co, NEW so
  PROVE  /\ [child EXCEPT !.state = st] =
              [state |-> st, mode |-> child.mode, text |-> child.text,
               stdout |-> child.stdout, code |-> child.code]
         /\ [child EXCEPT !.state = st, !.code = co, !.stdout = so] =
              [state |-> st, mode |-> child.mode, text |-> child.text,
               stdout |-> so, code |-> co]
<1> DEFINE mo == child.mode
           te == child.text
           c1 == [child EXCEPT !.state = st]
           c2 == [child EXCEPT !.state = st, !.code = co, !.stdout = so]
<1>1. child \in [state : {child.state}, mode : {mo}, text : {te},
                stdout : {child.stdout}, code : {child.code}]
  BY DEF ChildRecord
<1> HIDE DEF mo, te
<1>2. c1 \in [state : {st}, mode : {mo}, text : {te}, stdout : {child.stdout}, code : {child.code}]
  BY ONLY <1>1
<1>3. c2 \in [state : {st}, mode : {mo}, text : {te}, stdout : {so}, code : {co}]
  BY ONLY <1>1
<1> HIDE DEF c1, c2
<1>4. c1 = [state |-> st, mode |-> mo, text |-> te, stdout |-> child.stdout, code |-> child.code]
  BY ONLY <1>2
<1>5. c2 = [state |-> st, mode |-> mo, text |-> te, stdout |-> so, code |-> co]
  BY ONLY <1>3
<1> QED
  BY ONLY <1>4, <1>5 DEF c1, c2, mo, te

\* The memory of the program that runs.
Memory == IF prog = "gzip" THEN GzipMemory ELSE PlainMemory

\* A statement that goes on.
LEMMA StepKeeps ==
  ASSUME ProcessInv, child.state = "running", NEW l, NEW s, Step(l, s), prog' = prog,
         Memory'
  PROVE  ProcessInv' /\ Answered'
<1>1. UNCHANGED <<child, i, frames, prog>>
  BY DEF Step, Goto
<1>2. prog' \in {"gzip", "example", "reference"} /\ child'.state = "running" /\ ChildRecord'
      /\ MemoryType'
  BY <1>1 DEF ProcessInv, MemoryType, ChildRecord
<1>3. Known(child.text)'
  BY <1>1 DEF ProcessInv
<1> QED
  BY <1>2, <1>3 DEF ProcessInv, Printed, Answered, Memory

\* A statement that ends the process.
LEMMA ExitFields ==
  ASSUME ProcessInv, NEW c, NEW o, Exit(c, o)
  PROVE  /\ child'.state = "exited" /\ child'.mode = child.mode /\ child'.text = child.text
         /\ child'.code = c /\ child'.stdout = o /\ ChildRecord'
         /\ UNCHANGED <<pc, buf, i, frames>>
<1>1. child' = [child EXCEPT !.state = "exited", !.code = c, !.stdout = o]
      /\ UNCHANGED <<pc, buf, i, frames>>
  BY DEF Exit
<1>2. child' = [state |-> "exited", mode |-> child.mode, text |-> child.text,
                stdout |-> o, code |-> c]
  BY <1>1, ChildFields DEF ProcessInv
<1> QED
  BY ONLY <1>1, <1>2 DEF ChildRecord

\* It prints what is due, or nothing.
LEMMA ExitKeeps ==
  ASSUME ProcessInv, child.state = "running", prog' = prog,
         NEW c \in {0, 1, SigAbrt}, NEW o, Exit(c, o),
         o # EmptyText => c = 0 /\ \E b \in Blocks : Carried(b) /\ o = Due(b)
  PROVE  /\ ProcessInv'
         /\ (o = EmptyText => (\A b \in Blocks : ~Carried(b)) /\ Excused(c)) => Answered'
<1>1. /\ child'.state = "exited" /\ child'.mode = child.mode /\ child'.text = child.text
      /\ child'.code = c /\ child'.stdout = o /\ ChildRecord'
      /\ UNCHANGED <<i, frames>>
  BY ExitFields
<1>2. /\ \A b : Carried(b)' <=> Carried(b)
      /\ \A b : Due(b)' = Due(b)
      /\ \A d : Excused(d)' <=> Excused(d)
  BY <1>1, SameInput
<1>3. prog' \in {"gzip", "example", "reference"} /\ MemoryType'
  BY <1>1 DEF ProcessInv, MemoryType
<1>4. Known(child.text)'
  BY <1>1 DEF ProcessInv, Known, Given
<1>5. Printed'
  BY <1>1, <1>2 DEF Printed
<1>6. ProcessInv'
  BY <1>1, <1>3, <1>4, <1>5 DEF ProcessInv
<1>7. ASSUME o = EmptyText => (\A b \in Blocks : ~Carried(b)) /\ Excused(c)
      PROVE  Answered'
  BY <1>1, <1>2, <1>7 DEF Answered
<1> QED
  BY <1>6, <1>7

\* It aborts, and can carry no block.
LEMMA AbortKeeps ==
  ASSUME ProcessInv, child.state = "running", prog' = prog, Abort,
         \A b \in Blocks : ~Carried(b)
  PROVE  ProcessInv' /\ Answered'
BY ExitKeeps DEF Abort, Excused

\* An allocation fails: nothing is printed.
LEMMA StarvedKeeps ==
  ASSUME ProcessInv, BadAlloc, prog' = prog
  PROVE  ProcessInv' /\ child.state = "running" /\
         \E c \in {0, 1, SigAbrt} : Exit(c, EmptyText)
<1>1. child.state = "running" /\ \E c \in {0, 1, SigAbrt} : Exit(c, EmptyText)
  <2>1. CASE Gzip!BadAlloc
    <3>1. Base64Encode(Empty) = EmptyText
      BY DEF Base64Encode
    <3> QED
      BY <2>1, <3>1, GzipNames DEF Gzip!BadAlloc
  <2>2. CASE Example!BadAlloc
    BY <2>2, ExampleNames DEF Example!BadAlloc
  <2>3. CASE Reference!BadAlloc
    <3>1. Abort
      BY <2>3 DEF Reference!BadAlloc, Reference!Abort, Reference!Exit, Reference!SigAbrt,
                  Reference!EmptyText, Abort, Exit, SigAbrt, EmptyText
    <3> QED
      BY <2>3, <3>1 DEF Reference!BadAlloc, Abort
  <2> QED
    BY <2>1, <2>2, <2>3 DEF BadAlloc
<1> QED
  BY <1>1, ExitKeeps

\* The process enters main.
LEMMA LaunchKeeps ==
  ASSUME ProcessInv, Launch, prog' = prog
  PROVE  ProcessInv' /\ Answered'
<1>1. child.state = "spawned" /\ child' = [child EXCEPT !.state = "running"]
      /\ pc' = "mode" /\ buf' = Empty /\ i' = 0 /\ frames' = <<>>
  BY DEF Launch
<1>2. child' = [state |-> "running", mode |-> child.mode, text |-> child.text,
                stdout |-> child.stdout, code |-> child.code]
  BY <1>1, ChildFields DEF ProcessInv
<1>3. child'.state = "running" /\ child'.text = child.text /\ ChildRecord'
  BY ONLY <1>2 DEF ChildRecord
<1>4. Known(child.text)'
  BY <1>1, <1>3 DEF ProcessInv, Known, Given
<1>5. MemoryType'
  BY <1>1 DEF MemoryType
<1>6. GzipMemory' /\ PlainMemory'
  BY <1>1 DEF GzipMemory, PlainMemory, Gzip!InCompress, Gzip!InDecompress,
              PlainCompress, PlainDecompress
<1> QED
  BY <1>3, <1>4, <1>5, <1>6 DEF ProcessInv, Printed, Answered

\* Every input is known, and each of its kinds told from the others.
LEMMA KnownInput ==
  ASSUME ProcessInv, child.state # "none"
  PROVE  \/ child.text \in {EmptyText, BadText, Text(Noise)}
         \/ \E b \in Blocks : OfBlock(b)
         \/ \E b \in Blocks : child.text = Text(PlainForm(b))
         \/ \E b \in Blocks : child.text = Text(GzipForm(b))
BY DEF ProcessInv, Known, Given, OfBlock

\* What is carried names its block.
LEMMA CarriedText ==
  ASSUME NEW b, Carried(b)
  PROVE  /\ child.mode \in {"compress", "decompress"}
         /\ child.text.text = "base64" /\ child.text # EmptyText /\ child.text # BadText
         /\ child.mode = "compress" => child.text.of.kind = "boc" /\ child.text.of.root = b
         /\ child.mode = "decompress" /\ prog = "gzip" =>
              child.text.of.kind = "gz" /\ child.text.of.of.of.root = b
         /\ child.mode = "decompress" /\ prog # "gzip" =>
              child.text.of.kind = "lz4" /\ child.text.of.of.root = b
<1>1. CASE child.mode = "compress"
  <2>1. PICK m : child.text = Text(Boc(b, m))
    BY <1>1 DEF Carried, OfBlock
  <2> QED
    BY <1>1, <2>1, Texts, Kinds
<1>2. CASE child.mode = "decompress"
  <2>1. child.text = Text(Form(prog, b))
    BY <1>2 DEF Carried
  <2>2. child.text.text = "base64" /\ child.text.of = Form(prog, b)
    BY <2>1, Texts
  <2> QED
    BY <1>2, <2>2, Texts, Forms, Kinds DEF Form
<1> QED
  BY <1>1, <1>2 DEF Carried

-----------------------------------------------------------------------------
(* tester/solution.cpp.                                                    *)

\* Its statements, one by one.
LEMMA GzipStatements ==
  /\ Gzip!InCompress = {"deserialize", "serialize", "chunks", "gzip"}
  /\ Gzip!InDecompress = {"gunzip", "unlz4", "restore", "expand"}
BY DEF Gzip!InCompress, Gzip!InDecompress

\* main, up to the call of compress or decompress.
LEMMA GzipMain ==
  ASSUME ProcessInv, prog = "gzip", prog' = prog,
         Gzip!RejectMode \/ Gzip!ReadMode \/ Gzip!RejectEmpty \/ Gzip!DecodeInput
  PROVE  ProcessInv' /\ Answered'
<1>1. CASE Gzip!RejectMode
  <2>1. child.state = "running" /\ child.mode \notin {"compress", "decompress"} /\ Exit(1, EmptyText)
    BY <1>1, GzipNames DEF Gzip!RejectMode, At
  <2>2. \A b \in Blocks : ~Carried(b)
    BY <2>1, CarriedText
  <2>3. Excused(1)
    BY <2>1 DEF Excused, Misused
  <2> QED
    BY <2>1, <2>2, <2>3, ExitKeeps
<1>2. CASE Gzip!ReadMode
  <2>1. /\ child.state = "running" /\ pc = "mode" /\ child.mode \in {"compress", "decompress"}
        /\ Step("data", buf)
    BY <1>2, GzipNames DEF Gzip!ReadMode, At
  <2>2. pc' = "data" /\ UNCHANGED <<child, i, frames>>
    BY <2>1 DEF Step, Goto
  <2>3. GzipMemory
    BY <2>1 DEF ProcessInv
  <2>4. Memory'
    BY <2>1, <2>2, <2>3, GzipStatements DEF GzipMemory, Memory
  <2> QED
    BY <2>1, <2>4, StepKeeps
<1>3. CASE Gzip!RejectEmpty
  <2>1. child.state = "running" /\ child.text = EmptyText /\ Exit(1, EmptyText)
    BY <1>3, GzipNames DEF Gzip!RejectEmpty, At
  <2>2. \A b \in Blocks : ~Carried(b)
    BY <2>1, CarriedText
  <2>3. Excused(1)
    BY <2>1 DEF Excused, Misused
  <2> QED
    BY <2>1, <2>2, <2>3, ExitKeeps
<1>4. CASE Gzip!DecodeInput
  <2> DEFINE l == IF child.mode = "compress" THEN "deserialize" ELSE "gunzip"
  <2>1. /\ child.state = "running" /\ pc = "data"
        /\ Step(l, BufferFromBase64(child.text))
    BY <1>4, GzipNames DEF Gzip!DecodeInput, At
  <2>2. pc' = l /\ buf' = BufferFromBase64(child.text) /\ UNCHANGED <<child, i, frames>>
    BY <2>1 DEF Step, Goto
  <2>3. GzipMemory
    BY <2>1 DEF ProcessInv
  <2>4. child.mode \in {"compress", "decompress"} /\ i = 0 /\ frames = <<>>
    BY <2>1, <2>3 DEF GzipMemory
  <2>5. Memory'
    BY <2>2, <2>4, GzipStatements DEF GzipMemory, Memory
  <2> QED
    BY <2>1, <2>5, StepKeeps
<1> QED
  BY <1>1, <1>2, <1>3, <1>4

\* compress takes blocks only.
LEMMA GzipDeserialize ==
  ASSUME ProcessInv, prog = "gzip", prog' = prog, Gzip!Deserialize
  PROVE  ProcessInv' /\ Answered'
<1>1. child.state = "running" /\ pc = "deserialize"
  BY GzipNames DEF Gzip!Deserialize, At
<1>2. PICK r \in StdBocDeserialize(buf) : MoveAsOk(r, "serialize")
  BY GzipNames DEF Gzip!Deserialize
<1>3. GzipMemory
  BY <1>1 DEF ProcessInv
<1>4. child.mode = "compress" /\ buf = BufferFromBase64(child.text) /\ i = 0 /\ frames = <<>>
  BY <1>1, <1>3, GzipStatements DEF GzipMemory
<1>5. CASE \E b \in Blocks : OfBlock(b)
  <2>1. PICK b \in Blocks, m \in Modes : child.text = Text(Boc(b, m))
    BY <1>5 DEF OfBlock
  <2>2. buf = Boc(b, m)
    BY <1>4, <2>1, Texts DEF BufferFromBase64
  <2>3. r = Ok(Cell(b))
    BY <1>2, <2>2, DeserializeBoc
  <2>4. Step("serialize", Cell(b))
    BY <1>2, <2>3, Answers DEF MoveAsOk
  <2>5. pc' = "serialize" /\ buf' = Cell(b) /\ UNCHANGED <<child, i, frames>>
    BY <2>4 DEF Step, Goto
  <2>6. OfBlock(b)'
    BY <2>1, <2>5 DEF OfBlock
  <2>7. Memory'
    BY <1>4, <2>5, <2>6, GzipStatements DEF GzipMemory, Memory
  <2> QED
    BY <1>1, <2>4, <2>7, StepKeeps
<1>6. CASE ~\E b \in Blocks : OfBlock(b)
  <2>1. buf.kind \notin {"boc", "mangled"}
    <3>1. CASE child.text \in {EmptyText, BadText, Text(Noise)}
      BY <1>4, <3>1, Texts, Kinds DEF BufferFromBase64
    <3>2. ASSUME NEW b \in Blocks, child.text = Text(PlainForm(b)) \/ child.text = Text(GzipForm(b))
          PROVE  buf.kind \in {"lz4", "gz"}
      BY <1>4, <3>2, Texts, Forms DEF BufferFromBase64
    <3> QED
      BY <1>1, <1>6, <3>1, <3>2, KnownInput
  <2>2. Abort
    BY <1>2, <2>1, DeserializeOther, Answers DEF MoveAsOk
  <2>3. \A b \in Blocks : ~Carried(b)
    BY <1>4, <1>6 DEF Carried
  <2> QED
    BY <1>1, <2>2, <2>3, AbortKeeps
<1> QED
  BY <1>5, <1>6

\* compress: mode 2 of the block, in pieces.
LEMMA GzipPieces ==
  ASSUME ProcessInv, prog = "gzip", prog' = prog,
         Gzip!Serialize \/ Gzip!CompressChunk \/ Gzip!EndOfChunks
  PROVE  ProcessInv' /\ Answered'
<1>1. CASE Gzip!Serialize
  <2>1. child.state = "running" /\ pc = "serialize" /\ Step("chunks", StdBocSerialize(buf, 2))
    BY <1>1, GzipNames DEF Gzip!Serialize, At
  <2>2. GzipMemory
    BY <2>1 DEF ProcessInv
  <2>3. PICK b \in Blocks : OfBlock(b) /\ buf = Cell(b)
    BY <2>1, <2>2 DEF GzipMemory
  <2>4. pc' = "chunks" /\ buf' = Boc(b, 2) /\ UNCHANGED <<child, i, frames>>
    BY <2>1, <2>3, Kinds DEF Step, Goto, StdBocSerialize
  <2>5. i = 0 /\ frames = <<>> /\ child.mode = "compress"
    BY <2>1, <2>2, GzipStatements DEF GzipMemory
  <2>6. PiecesSoFar(SizeOf(buf))'
    <3> DEFINE n == SizeOf(Boc(b, 2))
    <3>1. n \in Nat
      BY BocHasSize
    <3>2. SizeOf(buf)' = n
      BY <2>4
    <3> HIDE DEF n
    <3>3. i' = 0 /\ frames' = <<>> /\ Len(frames') = 0
      BY ONLY <2>4, <2>5
    <3>4. i' = Gzip!ChunkSize * Len(frames') /\ i' < n + Gzip!ChunkSize
      BY ONLY <3>1, <3>3, Limits
    <3>5. \A k \in 1 .. Len(frames') :
            frames'[k] = <<(k - 1) * Gzip!ChunkSize, Min({k * Gzip!ChunkSize, n})>>
      BY ONLY <3>3
    <3> QED
      BY ONLY <3>2, <3>4, <3>5 DEF PiecesSoFar
  <2>7. OfBlock(b)'
    BY <2>3, <2>4 DEF OfBlock
  <2>8. Memory'
    BY <2>4, <2>5, <2>6, <2>7, GzipStatements DEF GzipMemory, Memory
  <2> QED
    BY <2>1, <2>8, StepKeeps
<1>2. CASE Gzip!CompressChunk
  <2>1. /\ child.state = "running" /\ pc = "chunks" /\ i < SizeOf(buf)
        /\ frames' = Append(frames, <<i, i + Min({Gzip!ChunkSize, SizeOf(buf) - i})>>)
        /\ i' = i + Gzip!ChunkSize
        /\ UNCHANGED <<child, pc, buf>>
    BY <1>2, GzipNames DEF Gzip!CompressChunk, At
  <2>2. GzipMemory
    BY <2>1 DEF ProcessInv
  <2>3. PICK b \in Blocks : OfBlock(b) /\ buf = Boc(b, 2) /\ PiecesSoFar(SizeOf(buf))
    BY <2>1, <2>2 DEF GzipMemory
  <2> DEFINE n == SizeOf(buf)
  <2>4. n \in Nat /\ n' = n /\ PiecesSoFar(n) /\ MemoryType
    BY <2>1, <2>3, BocHasSize DEF ProcessInv
  <2>5. i < n /\ frames' = Append(frames, <<i, i + Min({Gzip!ChunkSize, n - i})>>)
        /\ i' = i + Gzip!ChunkSize
    BY <2>1
  <2> HIDE DEF n
  <2>6. MemoryType' /\ PiecesSoFar(n)'
    BY ONLY <2>4, <2>5, OnePiece
  <2>7. OfBlock(b)'
    BY <2>1, <2>3 DEF OfBlock
  <2>8. child.mode = "compress"
    BY <2>1, <2>2, GzipStatements DEF GzipMemory
  <2>9. \E c \in Blocks : OfBlock(c)' /\ buf' = Boc(c, 2) /\ PiecesSoFar(SizeOf(buf))'
    BY <2>1, <2>3, <2>6, <2>7 DEF n
  <2>10. GzipMemory'
    BY <2>1, <2>8, <2>9, GzipStatements DEF GzipMemory
  <2>11. ChildRecord' /\ Known(child.text)'
    BY <2>1 DEF ProcessInv, ChildRecord, Known, Given
  <2> QED
    BY <2>1, <2>6, <2>10, <2>11 DEF ProcessInv, Printed, Answered
<1>3. CASE Gzip!EndOfChunks
  <2>1. child.state = "running" /\ pc = "chunks" /\ i >= SizeOf(buf)
        /\ Step("gzip", Lz4(buf, frames))
    BY <1>3, GzipNames DEF Gzip!EndOfChunks, At
  <2>2. GzipMemory
    BY <2>1 DEF ProcessInv
  <2>3. PICK b \in Blocks : OfBlock(b) /\ buf = Boc(b, 2) /\ PiecesSoFar(SizeOf(buf))
    BY <2>1, <2>2 DEF GzipMemory
  <2>4. frames = Pieces(SizeOf(buf))
    BY <2>1, <2>3, BocHasSize, AllPieces DEF ProcessInv
  <2>5. pc' = "gzip" /\ buf' = Lz4(buf, frames) /\ UNCHANGED <<child, i, frames>>
    BY <2>1 DEF Step, Goto
  <2>6. Gz(buf') = GzipForm(b)
    BY <2>3, <2>4, <2>5 DEF GzipForm
  <2>7. OfBlock(b)'
    BY <2>3, <2>5 DEF OfBlock
  <2>8. child.mode = "compress"
    BY <2>1, <2>2, GzipStatements DEF GzipMemory
  <2>9. Memory'
    BY <2>5, <2>6, <2>7, <2>8, GzipStatements DEF GzipMemory, Memory
  <2> QED
    BY <2>1, <2>9, StepKeeps
<1> QED
  BY <1>1, <1>2, <1>3

\* compress prints its result if gzip shrinks it.
LEMMA GzipAllStep ==
  ASSUME ProcessInv, prog = "gzip", prog' = prog, Gzip!GzipAll
  PROVE  ProcessInv' /\ Answered'
<1> DEFINE final == GzEncode(buf)
<1>1. /\ child.state = "running" /\ pc = "gzip"
      /\ IF final = Empty THEN Exit(0, Base64Encode(Empty)) ELSE Exit(0, Base64Encode(final))
  BY GzipNames DEF Gzip!GzipAll, At
<1>2. GzipMemory
  BY <1>1 DEF ProcessInv
<1>3. PICK b \in Blocks : OfBlock(b) /\ Gz(buf) = GzipForm(b)
  BY <1>1, <1>2 DEF GzipMemory
<1>4. child.mode = "compress"
  BY <1>1, <1>2, GzipStatements DEF GzipMemory
<1>5. buf.of.root = b
  <2>1. Gz(buf).of = buf
    BY Kinds
  <2>2. buf.of = Boc(b, 2)
    BY <1>3, <2>1, Forms
  <2> QED
    BY <2>2, Kinds
<1>6. CASE b \in GzFits
  <2>1. final = GzipForm(b)
    BY <1>3, <1>5, <1>6 DEF GzEncode
  <2>2. final # Empty
    BY <2>1, Forms, Kinds
  <2>3. Exit(0, Text(GzipForm(b)))
    BY <1>1, <2>1, <2>2 DEF Base64Encode
  <2>4. Carried(b) /\ Text(GzipForm(b)) = Due(b)
    BY <1>3, <1>4, <1>6 DEF Carried, Due, Form
  <2>5. Text(GzipForm(b)) # EmptyText
    BY Texts
  <2> QED
    BY <1>1, <2>3, <2>4, <2>5, ExitKeeps
<1>7. CASE b \notin GzFits
  <2>1. final = Empty
    BY <1>5, <1>7 DEF GzEncode
  <2>2. Exit(0, EmptyText)
    BY <1>1, <2>1 DEF Base64Encode
  <2>3. Excused(0)
    BY <1>3, <1>4, <1>7 DEF Unshrunk, Excused
  <2>4. \A c \in Blocks : ~Carried(c)
    <3>1. ASSUME NEW c \in Blocks, Carried(c)
          PROVE  FALSE
      <4>1. OfBlock(c) /\ c \in GzFits
        BY <1>4, <3>1 DEF Carried
      <4>2. PICK m1, m2 : child.text = Text(Boc(b, m1)) /\ child.text = Text(Boc(c, m2))
        BY <1>3, <4>1 DEF OfBlock
      <4>3. child.text.of = Boc(b, m1) /\ child.text.of = Boc(c, m2)
        BY <4>2, Texts
      <4>4. Boc(b, m1).root = b
        BY Kinds
      <4>5. Boc(c, m2).root = c
        BY Kinds
      <4> QED
        BY ONLY <4>1, <4>3, <4>4, <4>5, <1>7
    <3> QED
      BY <3>1
  <2> QED
    BY <1>1, <2>2, <2>3, <2>4, ExitKeeps
<1> QED
  BY <1>6, <1>7

\* decompress: which blocks it can give back.
LEMMA GzipCarries ==
  ASSUME prog = "gzip", child.mode = "decompress"
  PROVE  /\ (\A b \in Blocks : child.text # Text(GzipForm(b))) => \A b \in Blocks : ~Carried(b)
         /\ \A b \in Blocks : child.text = Text(GzipForm(b)) /\ SizeOf(Boc(b, 2)) <= 1024 =>
              Carried(b)
         /\ \A b \in Blocks : child.text = Text(GzipForm(b)) /\ ~(SizeOf(Boc(b, 2)) <= 1024) =>
              \A c \in Blocks : ~Carried(c)
<1>1. \A c \in Blocks : Carried(c) <=>
        child.text = Text(GzipForm(c)) /\ SizeOf(Boc(c, 2)) <= 1024
  BY Limits DEF Carried, Form
<1>2. ASSUME NEW b \in Blocks, NEW c \in Blocks, Text(GzipForm(b)) = Text(GzipForm(c))
      PROVE  b = c
  <2>1. Text(GzipForm(b)).of = GzipForm(b) /\ Text(GzipForm(c)).of = GzipForm(c)
    BY Texts
  <2>2. GzipForm(b).of.of = Boc(b, 2) /\ GzipForm(c).of.of = Boc(c, 2)
    BY Forms
  <2>3. Boc(b, 2).root = b /\ Boc(c, 2).root = c
    BY Kinds
  <2> QED
    BY ONLY <1>2, <2>1, <2>2, <2>3
<1> QED
  BY ONLY <1>1, <1>2

\* decompress, up to the bytes that are hoped to be mode 2 of a block.
LEMMA GzipUnpack ==
  ASSUME ProcessInv, prog = "gzip", prog' = prog, Gzip!Gunzip \/ Gzip!UnLz4
  PROVE  ProcessInv' /\ Answered'
<1>1. CASE Gzip!Gunzip
  <2>1. child.state = "running" /\ pc = "gunzip" /\ Step("unlz4", GzDecode(buf))
    BY <1>1, GzipNames DEF Gzip!Gunzip, At
  <2>2. GzipMemory
    BY <2>1 DEF ProcessInv
  <2>3. pc' = "unlz4" /\ buf' = GzDecode(buf) /\ UNCHANGED <<child, i, frames>>
    BY <2>1 DEF Step, Goto
  <2>4. child.mode = "decompress" /\ buf = BufferFromBase64(child.text)
    BY <2>1, <2>2, GzipStatements DEF GzipMemory
  <2>5. Memory'
    BY <2>3, <2>4, GzipStatements DEF GzipMemory, Memory
  <2> QED
    BY <2>1, <2>5, StepKeeps
<1>2. CASE Gzip!UnLz4
  <2>1. child.state = "running" /\ pc = "unlz4"
    BY <1>2, GzipNames DEF Gzip!UnLz4, At
  <2>2. PICK r \in Lz4Decompress(buf, 1024) : MoveAsOk(r, "restore")
    BY <1>2, GzipNames, Limits DEF Gzip!UnLz4
  <2>3. GzipMemory
    BY <2>1 DEF ProcessInv
  <2>4. child.mode = "decompress" /\ buf = GzDecode(BufferFromBase64(child.text))
    BY <2>1, <2>3, GzipStatements DEF GzipMemory
  <2>5. CASE \E b \in Blocks : child.text = Text(GzipForm(b))
    <3>1. PICK b \in Blocks : child.text = Text(GzipForm(b))
      BY <2>5
    <3> DEFINE c == Boc(b, 2)
               f == Pieces(SizeOf(c))
    <3>2. buf = Lz4(c, f)
      <4>1. BufferFromBase64(child.text) = GzipForm(b)
        BY <3>1, Texts DEF BufferFromBase64
      <4> QED
        BY <2>4, <4>1, Forms DEF GzDecode
    <3>3. WholeFrame(c, f) <=> SizeOf(c) <= 1024
      BY WholePieces
    <3>4. IF SizeOf(c) <= 1024 THEN r = Ok(c) ELSE r \in {Err, Ok(Mangled(c))}
      <4>1. r \in Lz4Decompress(Lz4(Boc(b, 2), f), 1024)
        BY <2>2, <3>2
      <4> HIDE DEF f
      <4>2. IF WholeFrame(Boc(b, 2), f)
            THEN IF SizeOf(Boc(b, 2)) <= 1024 THEN r = Ok(Boc(b, 2)) ELSE r = Err
            ELSE r \in {Err, Ok(Mangled(Boc(b, 2)))}
        BY ONLY <4>1, Lz4OfBoc
      <4> QED
        BY ONLY <3>3, <4>2
    <3>5. CASE r = Err
      <4>1. Abort
        BY <2>2, <3>5, Answers DEF MoveAsOk
      <4>2. ~(SizeOf(c) <= 1024)
        <5>1. Err # Ok(c)
          BY Answers
        <5> QED
          BY ONLY <3>4, <3>5, <5>1
      <4>3. \A d \in Blocks : ~Carried(d)
        BY <2>4, <3>1, <4>2, GzipCarries
      <4> QED
        BY <2>1, <4>1, <4>3, AbortKeeps
    <3>6. CASE r # Err
      <4> DEFINE v == IF SizeOf(c) <= 1024 THEN c ELSE Mangled(c)
      <4>1. r = Ok(v)
        BY <3>4, <3>6
      <4> HIDE DEF v
      <4>2. Step("restore", v)
        BY <2>2, <4>1, Answers DEF MoveAsOk
      <4>3. pc' = "restore" /\ buf' = v /\ UNCHANGED <<child, i, frames>>
        BY <4>2 DEF Step, Goto
      <4>4. v = IF SizeOf(Boc(b, 2)) <= Limit("gzip") THEN Boc(b, 2) ELSE Mangled(Boc(b, 2))
        BY Limits DEF v
      <4>5. \E d \in Blocks :
              /\ child'.text = Text(GzipForm(d))
              /\ buf' = IF SizeOf(Boc(d, 2)) <= Limit("gzip") THEN Boc(d, 2) ELSE Mangled(Boc(d, 2))
        BY <3>1, <4>3, <4>4
      <4>6. Memory'
        BY <2>4, <4>3, <4>5, GzipStatements DEF GzipMemory, Memory
      <4> QED
        BY <2>1, <4>2, <4>6, StepKeeps
    <3> QED
      BY <3>5, <3>6
  <2>6. CASE ~\E b \in Blocks : child.text = Text(GzipForm(b))
    <3>1. buf = Empty
      <4>1. BufferFromBase64(child.text).kind # "gz"
        <5>1. CASE child.text \in {EmptyText, BadText, Text(Noise)}
          BY <5>1, Texts, Kinds DEF BufferFromBase64
        <5>2. ASSUME NEW b \in Blocks, child.text = Text(PlainForm(b)) \/ OfBlock(b)
              PROVE  BufferFromBase64(child.text).kind \in {"lz4", "boc"}
          BY <5>2, Texts, Forms, Kinds DEF BufferFromBase64, OfBlock
        <5> QED
          BY <2>1, <2>6, <5>1, <5>2, KnownInput
      <4> QED
        BY <2>4, <4>1 DEF GzDecode
    <3>2. r = Err
      BY <2>2, <3>1, Kinds, Lz4OfOther
    <3>3. Abort
      BY <2>2, <3>2, Answers DEF MoveAsOk
    <3>4. \A b \in Blocks : ~Carried(b)
      BY <2>4, <2>6, GzipCarries
    <3> QED
      BY <2>1, <3>3, <3>4, AbortKeeps
  <2> QED
    BY <2>5, <2>6
<1> QED
  BY <1>1, <1>2

\* decompress takes mode 2 of a block only, and prints it in mode 31.
LEMMA GzipGiveBack ==
  ASSUME ProcessInv, prog = "gzip", prog' = prog, Gzip!Restore \/ Gzip!Expand
  PROVE  ProcessInv' /\ Answered'
<1>1. CASE Gzip!Restore
  <2>1. child.state = "running" /\ pc = "restore"
    BY <1>1, GzipNames DEF Gzip!Restore, At
  <2>2. PICK r \in StdBocDeserialize(buf) : MoveAsOk(r, "expand")
    BY <1>1, GzipNames DEF Gzip!Restore
  <2>3. GzipMemory
    BY <2>1 DEF ProcessInv
  <2>4. child.mode = "decompress"
    BY <2>1, <2>3, GzipStatements DEF GzipMemory
  <2>5. PICK b \in Blocks :
          /\ child.text = Text(GzipForm(b))
          /\ buf = IF SizeOf(Boc(b, 2)) <= Limit("gzip") THEN Boc(b, 2) ELSE Mangled(Boc(b, 2))
    BY <2>1, <2>3 DEF GzipMemory
  <2>6. CASE SizeOf(Boc(b, 2)) <= 1024
    <3>1. buf = Boc(b, 2)
      BY <2>5, <2>6, Limits
    <3>2. r = Ok(Cell(b))
      BY <2>2, <3>1, DeserializeBoc
    <3>3. Step("expand", Cell(b))
      BY <2>2, <3>2, Answers DEF MoveAsOk
    <3>4. pc' = "expand" /\ buf' = Cell(b) /\ UNCHANGED <<child, i, frames>>
      BY <3>3 DEF Step, Goto
    <3>5. Carried(b)
      BY <2>4, <2>5, <2>6, GzipCarries
    <3>6. Carried(b)'
      BY <3>4, <3>5, SameInput
    <3>7. Memory'
      BY <2>4, <3>4, <3>6, GzipStatements DEF GzipMemory, Memory
    <3> QED
      BY <2>1, <3>3, <3>7, StepKeeps
  <2>7. CASE ~(SizeOf(Boc(b, 2)) <= 1024)
    <3>1. buf = Mangled(Boc(b, 2))
      BY <2>5, <2>7, Limits
    <3>2. r = Err
      BY <2>2, <3>1, DeserializeMangled
    <3>3. Abort
      BY <2>2, <3>2, Answers DEF MoveAsOk
    <3>4. \A d \in Blocks : ~Carried(d)
      BY <2>4, <2>5, <2>7, GzipCarries
    <3> QED
      BY <2>1, <3>3, <3>4, AbortKeeps
  <2> QED
    BY <2>6, <2>7
<1>2. CASE Gzip!Expand
  <2>1. /\ child.state = "running" /\ pc = "expand"
        /\ Exit(0, Base64Encode(StdBocSerialize(buf, 31)))
    BY <1>2, GzipNames DEF Gzip!Expand, At
  <2>2. GzipMemory
    BY <2>1 DEF ProcessInv
  <2>3. child.mode = "decompress"
    BY <2>1, <2>2, GzipStatements DEF GzipMemory
  <2>4. PICK b \in Blocks : Carried(b) /\ buf = Cell(b)
    BY <2>1, <2>2 DEF GzipMemory
  <2>5. Base64Encode(StdBocSerialize(buf, 31)) = Canonical(b)
    BY <2>4, Kinds DEF Base64Encode, StdBocSerialize, Canonical
  <2>6. Exit(0, Canonical(b)) /\ Canonical(b) = Due(b) /\ Canonical(b) # EmptyText
    BY <2>1, <2>3, <2>5, Texts DEF Due, Canonical
  <2> QED
    BY <2>1, <2>4, <2>6, ExitKeeps
<1> QED
  BY <1>1, <1>2

\* All of tester/solution.cpp.
LEMMA GzipKeeps ==
  ASSUME ProcessInv, prog = "gzip", prog' = prog, Gzip!Work
  PROVE  ProcessInv' /\ Answered'
<1>1. CASE Gzip!Launch
  <2>1. Launch
    BY <1>1, GzipNames DEF Gzip!Launch, Launch
  <2> QED
    BY <2>1, LaunchKeeps
<1> QED
  BY <1>1, GzipMain, GzipDeserialize, GzipPieces, GzipAllStep, GzipUnpack, GzipGiveBack
     DEF Gzip!Work

-----------------------------------------------------------------------------
(* examples/solution.cpp and ton-compress-contest-linux/solution.cpp.      *)

\* Neither leaves PlainMemory by a statement that goes on.
LEMMA PlainGoesOn ==
  ASSUME ProcessInv, prog # "gzip", prog' = prog, child.state = "running",
         NEW l, NEW s, Step(l, s), PlainMemory'
  PROVE  ProcessInv' /\ Answered'
BY StepKeeps DEF Memory

\* Which blocks they can carry.
LEMMA PlainCarries ==
  ASSUME prog \in {"example", "reference"}
  PROVE  /\ child.mode = "compress" => \A b \in Blocks : Carried(b) <=> OfBlock(b)
         /\ child.mode = "decompress" =>
              \A b \in Blocks : Carried(b) <=>
                child.text = Text(PlainForm(b)) /\ SizeOf(Boc(b, 2)) <= 2048
<1>1. Limit(prog) = 2048
  BY Limits
<1>2. \A b : Form(prog, b) = PlainForm(b)
  BY DEF Form
<1> QED
  BY <1>1, <1>2 DEF Carried

\* The mode is one of two.
LEMMA PlainMode ==
  ASSUME ProcessInv, prog # "gzip", prog' = prog, child.state = "running", pc = "mode",
         IF child.mode \in {"compress", "decompress"}
         THEN Step("data", buf) ELSE \E c \in {1, SigAbrt} : Exit(c, EmptyText)
  PROVE  ProcessInv' /\ Answered'
<1>1. CASE child.mode \in {"compress", "decompress"}
  <2>1. pc' = "data" /\ UNCHANGED <<child, i, frames>> /\ Step("data", buf)
    BY <1>1 DEF Step, Goto
  <2>2. PlainMemory'
    BY <1>1, <2>1 DEF PlainMemory, PlainCompress, PlainDecompress
  <2> QED
    BY <2>1, <2>2, PlainGoesOn
<1>2. CASE child.mode \notin {"compress", "decompress"}
  <2>1. PICK c \in {1, SigAbrt} : Exit(c, EmptyText)
    BY <1>2
  <2>2. \A b \in Blocks : ~Carried(b)
    BY <1>2, CarriedText
  <2>3. c \in {0, 1, SigAbrt} /\ Excused(c)
    BY <1>2 DEF SigAbrt, Excused, Misused
  <2> QED
    BY <2>1, <2>2, <2>3, ExitKeeps
<1> QED
  BY <1>1, <1>2

\* There is a text.
LEMMA PlainNoData ==
  ASSUME ProcessInv, prog # "gzip", prog' = prog, child.state = "running",
         child.text = EmptyText, \E c \in {1, SigAbrt} : Exit(c, EmptyText)
  PROVE  ProcessInv' /\ Answered'
<1>1. PICK c \in {1, SigAbrt} : Exit(c, EmptyText)
  OBVIOUS
<1>2. \A b \in Blocks : ~Carried(b)
  BY CarriedText
<1>3. c \in {0, 1, SigAbrt} /\ Excused(c)
  BY DEF SigAbrt, Excused, Misused
<1> QED
  BY <1>1, <1>2, <1>3, ExitKeeps

\* It is base64.
LEMMA PlainDecode ==
  ASSUME ProcessInv, prog # "gzip", prog' = prog, child.state = "running",
         pc \in {"data", "decode"}, child.text # EmptyText,
         MoveAsOk(Base64Decode(child.text),
                  IF child.mode = "compress" THEN "deserialize" ELSE "unlz4")
  PROVE  ProcessInv' /\ Answered'
<1> DEFINE l == IF child.mode = "compress" THEN "deserialize" ELSE "unlz4"
<1>1. PlainMemory
  BY DEF ProcessInv
<1>2. child.mode \in {"compress", "decompress"}
  BY <1>1 DEF PlainMemory
<1>3. CASE child.text = BadText
  <2>1. Base64Decode(child.text) = Err
    BY <1>3, Texts DEF Base64Decode
  <2>2. Abort
    BY <2>1, Answers DEF MoveAsOk
  <2>3. \A b \in Blocks : ~Carried(b)
    BY <1>3, CarriedText
  <2> QED
    BY <2>2, <2>3, AbortKeeps
<1>4. CASE child.text # BadText
  <2>1. PICK s : child.text = Text(s)
    BY <1>4, KnownInput DEF OfBlock
  <2>2. Base64Decode(child.text) = Ok(s)
    BY <2>1, Texts DEF Base64Decode
  <2>3. Step(l, s)
    BY <2>2, Answers DEF MoveAsOk
  <2>4. pc' = l /\ buf' = s /\ UNCHANGED <<child, i, frames>>
    BY <2>3 DEF Step, Goto
  <2>5. PlainMemory'
    BY <1>2, <2>1, <2>4 DEF PlainMemory, PlainCompress, PlainDecompress
  <2> QED
    BY <2>3, <2>5, PlainGoesOn
<1> QED
  BY <1>3, <1>4

\* compress takes blocks only.
LEMMA PlainDeserialize ==
  ASSUME ProcessInv, prog # "gzip", prog' = prog, child.state = "running", pc = "deserialize",
         NEW r \in StdBocDeserialize(buf), MoveAsOk(r, "serialize")
  PROVE  ProcessInv' /\ Answered'
<1>1. PlainMemory /\ prog \in {"example", "reference"}
  BY DEF ProcessInv
<1>2. child.mode = "compress" /\ child.text = Text(buf)
  BY <1>1 DEF PlainMemory, PlainCompress
<1>3. CASE \E b \in Blocks : OfBlock(b)
  <2>1. PICK b \in Blocks, m \in Modes : child.text = Text(Boc(b, m))
    BY <1>3 DEF OfBlock
  <2>2. buf = Boc(b, m)
    <3>1. child.text.of = buf
      BY <1>2, Texts
    <3>2. child.text.of = Boc(b, m)
      BY <2>1, Texts
    <3> QED
      BY ONLY <3>1, <3>2
  <2>3. r = Ok(Cell(b))
    BY <2>2, DeserializeBoc
  <2>4. Step("serialize", Cell(b))
    BY <2>3, Answers DEF MoveAsOk
  <2>5. pc' = "serialize" /\ buf' = Cell(b) /\ UNCHANGED <<child, i, frames>>
    BY <2>4 DEF Step, Goto
  <2>6. OfBlock(b)'
    BY <2>1, <2>5 DEF OfBlock
  <2>7. PlainMemory'
    BY <1>2, <2>5, <2>6 DEF PlainMemory, PlainCompress, PlainDecompress
  <2> QED
    BY <2>4, <2>7, PlainGoesOn
<1>4. CASE ~\E b \in Blocks : OfBlock(b)
  <2>1. buf.kind \notin {"boc", "mangled"}
    <3>1. child.text.of = buf
      BY <1>2, Texts
    <3>2. CASE child.text \in {EmptyText, BadText}
      BY <1>2, <3>2, Texts
    <3>3. CASE child.text = Text(Noise)
      BY <3>1, <3>3, Texts, Kinds
    <3>4. ASSUME NEW b \in Blocks, child.text = Text(PlainForm(b)) \/ child.text = Text(GzipForm(b))
          PROVE  buf.kind \in {"lz4", "gz"}
      BY <3>1, <3>4, Texts, Forms
    <3> QED
      BY <1>4, <3>2, <3>3, <3>4, KnownInput
  <2>2. Abort
    BY <2>1, DeserializeOther, Answers DEF MoveAsOk
  <2>3. \A b \in Blocks : ~Carried(b)
    BY <1>1, <1>2, <1>4, PlainCarries
  <2> QED
    BY <2>2, <2>3, AbortKeeps
<1> QED
  BY <1>3, <1>4

\* compress: mode 2 of the block, as one LZ4 block.
LEMMA PlainPack ==
  ASSUME ProcessInv, prog # "gzip", prog' = prog, child.state = "running",
         \/ pc = "serialize" /\ Step("lz4", StdBocSerialize(buf, 2))
         \/ pc = "lz4" /\ Step("print", Lz4(buf, <<<<0, SizeOf(buf)>>>>))
  PROVE  ProcessInv' /\ Answered'
<1>1. PlainMemory /\ prog \in {"example", "reference"}
  BY DEF ProcessInv
<1>2. child.mode = "compress"
  BY <1>1 DEF PlainMemory, PlainCompress
<1>3. CASE pc = "serialize" /\ Step("lz4", StdBocSerialize(buf, 2))
  <2>1. PICK b \in Blocks : OfBlock(b) /\ buf = Cell(b)
    BY <1>1, <1>3 DEF PlainMemory
  <2>2. pc' = "lz4" /\ buf' = Boc(b, 2) /\ UNCHANGED <<child, i, frames>>
    BY <1>3, <2>1, Kinds DEF Step, Goto, StdBocSerialize
  <2>3. OfBlock(b)'
    BY <2>1, <2>2 DEF OfBlock
  <2>4. PlainMemory'
    BY <1>2, <2>2, <2>3 DEF PlainMemory, PlainCompress, PlainDecompress
  <2> QED
    BY <1>3, <2>4, PlainGoesOn
<1>4. CASE pc = "lz4" /\ Step("print", Lz4(buf, <<<<0, SizeOf(buf)>>>>))
  <2>1. PICK b \in Blocks : OfBlock(b) /\ buf = Boc(b, 2)
    BY <1>1, <1>4 DEF PlainMemory
  <2>2. pc' = "print" /\ buf' = PlainForm(b) /\ UNCHANGED <<child, i, frames>>
    BY <1>4, <2>1 DEF Step, Goto, PlainForm
  <2>3. Carried(b) /\ Text(PlainForm(b)) = Due(b)
    BY <1>1, <1>2, <2>1, PlainCarries DEF Due, Form
  <2>4. Carried(b)' /\ Due(b)' = Due(b)
    BY <2>2, <2>3, SameInput
  <2>5. Text(buf') = Due(b)'
    BY <2>2, <2>3, <2>4
  <2>6. PlainMemory'
    BY <1>2, <2>2, <2>4, <2>5 DEF PlainMemory, PlainCompress, PlainDecompress
  <2> QED
    BY <1>4, <2>6, PlainGoesOn
<1> QED
  BY <1>3, <1>4

\* decompress, up to the bytes that are hoped to be mode 2 of a block.
LEMMA PlainUnpack ==
  ASSUME ProcessInv, prog # "gzip", prog' = prog, child.state = "running", pc = "unlz4",
         NEW r \in Lz4Decompress(buf, 2048), MoveAsOk(r, "restore")
  PROVE  ProcessInv' /\ Answered'
<1>1. PlainMemory /\ prog \in {"example", "reference"}
  BY DEF ProcessInv
<1>2. child.mode = "decompress" /\ child.text = Text(buf)
  BY <1>1 DEF PlainMemory, PlainDecompress
<1>3. child.text.of = buf /\ child.text.text = "base64"
  BY <1>2, Texts
<1>4. CASE \E b \in Blocks : child.text = Text(PlainForm(b))
  <2>1. PICK b \in Blocks : child.text = Text(PlainForm(b))
    BY <1>4
  <2> DEFINE c == Boc(b, 2)
             f == <<<<0, SizeOf(c)>>>>
  <2>2. buf = Lz4(c, f)
    BY <1>3, <2>1, Texts DEF PlainForm
  <2>3. WholeFrame(c, f)
    BY WholeBlock, Forms
  <2>4. r \in Lz4Decompress(Lz4(Boc(b, 2), f), 2048)
    BY <2>2
  <2>5. IF SizeOf(c) <= 2048 THEN r = Ok(c) ELSE r = Err
    <3> HIDE DEF f
    <3> QED
      BY ONLY <2>3, <2>4, Lz4OfBoc
  <2>6. CASE SizeOf(c) <= 2048
    <3>1. Step("restore", c)
      BY <2>5, <2>6, Answers DEF MoveAsOk
    <3>2. pc' = "restore" /\ buf' = c /\ UNCHANGED <<child, i, frames>>
      BY <3>1 DEF Step, Goto
    <3>3. Carried(b)
      BY <1>1, <1>2, <2>1, <2>6, PlainCarries
    <3>4. Carried(b)'
      BY <3>2, <3>3, SameInput
    <3>5. PlainMemory'
      BY <1>2, <3>2, <3>4 DEF PlainMemory, PlainCompress, PlainDecompress
    <3> QED
      BY <3>1, <3>5, PlainGoesOn
  <2>7. CASE ~(SizeOf(c) <= 2048)
    <3>1. Abort
      BY <2>5, <2>7, Answers DEF MoveAsOk
    <3>2. ASSUME NEW d \in Blocks, Carried(d)
          PROVE  FALSE
      <4>1. child.text = Text(PlainForm(d)) /\ SizeOf(Boc(d, 2)) <= 2048
        BY <1>1, <1>2, <3>2, PlainCarries
      <4>2. Text(PlainForm(d)).of = PlainForm(d) /\ Text(PlainForm(b)).of = PlainForm(b)
        BY Texts
      <4>3. PlainForm(b).of = Boc(b, 2) /\ PlainForm(d).of = Boc(d, 2)
        BY Forms
      <4> QED
        BY ONLY <2>1, <2>7, <4>1, <4>2, <4>3
    <3> QED
      BY <3>1, <3>2, AbortKeeps
  <2> QED
    BY <2>6, <2>7
<1>5. CASE ~\E b \in Blocks : child.text = Text(PlainForm(b))
  <2>1. buf.kind # "lz4"
    <3>1. CASE child.text \in {EmptyText, BadText}
      BY <1>3, <3>1, Texts
    <3>2. CASE child.text = Text(Noise)
      BY <1>3, <3>2, Texts, Kinds
    <3>3. ASSUME NEW b \in Blocks, child.text = Text(GzipForm(b)) \/ OfBlock(b)
          PROVE  buf.kind \in {"gz", "boc"}
      BY <1>3, <3>3, Texts, Forms, Kinds DEF OfBlock
    <3> QED
      BY <1>5, <3>1, <3>2, <3>3, KnownInput
  <2>2. r \in {Err, Ok(Noise)}
    BY <2>1, Lz4OfOther
  <2>3. \A b \in Blocks : ~Carried(b)
    BY <1>1, <1>2, <1>5, PlainCarries
  <2>4. CASE r = Err
    <3>1. Abort
      BY <2>4, Answers DEF MoveAsOk
    <3> QED
      BY <2>3, <3>1, AbortKeeps
  <2>5. CASE r = Ok(Noise)
    <3>1. Step("restore", Noise)
      BY <2>5, Answers DEF MoveAsOk
    <3>2. pc' = "restore" /\ buf' = Noise /\ UNCHANGED <<child, i, frames>>
      BY <3>1 DEF Step, Goto
    <3>3. \A b \in Blocks : child'.text # Text(PlainForm(b))
      BY <1>5, <3>2
    <3>4. PlainMemory'
      BY <1>2, <3>2, <3>3 DEF PlainMemory, PlainCompress, PlainDecompress
    <3> QED
      BY <3>1, <3>4, PlainGoesOn
  <2> QED
    BY <2>2, <2>4, <2>5
<1> QED
  BY <1>4, <1>5

\* decompress takes mode 2 of a block only.
LEMMA PlainRestore ==
  ASSUME ProcessInv, prog # "gzip", prog' = prog, child.state = "running", pc = "restore",
         NEW r \in StdBocDeserialize(buf), MoveAsOk(r, "expand")
  PROVE  ProcessInv' /\ Answered'
<1>1. PlainMemory /\ prog \in {"example", "reference"}
  BY DEF ProcessInv
<1>2. child.mode = "decompress"
  BY <1>1 DEF PlainMemory, PlainDecompress
<1>3. CASE buf = Noise /\ \A b \in Blocks : child.text # Text(PlainForm(b))
  <2>1. r = Err
    BY <1>3, Kinds, DeserializeOther
  <2>2. Abort
    BY <2>1, Answers DEF MoveAsOk
  <2>3. \A b \in Blocks : ~Carried(b)
    BY <1>1, <1>2, <1>3, PlainCarries
  <2> QED
    BY <2>2, <2>3, AbortKeeps
<1>4. CASE \E b \in Blocks : Carried(b) /\ buf = Boc(b, 2)
  <2>1. PICK b \in Blocks : Carried(b) /\ buf = Boc(b, 2)
    BY <1>4
  <2>2. r = Ok(Cell(b))
    BY <2>1, DeserializeBoc
  <2>3. Step("expand", Cell(b))
    BY <2>2, Answers DEF MoveAsOk
  <2>4. pc' = "expand" /\ buf' = Cell(b) /\ UNCHANGED <<child, i, frames>>
    BY <2>3 DEF Step, Goto
  <2>5. Carried(b)'
    BY <2>1, <2>4, SameInput
  <2>6. PlainMemory'
    BY <1>2, <2>4, <2>5 DEF PlainMemory, PlainCompress, PlainDecompress
  <2> QED
    BY <2>3, <2>6, PlainGoesOn
<1> QED
  BY <1>1, <1>3, <1>4 DEF PlainMemory

\* decompress makes mode 31 of it, and main prints what there is.
LEMMA PlainPrint ==
  ASSUME ProcessInv, prog # "gzip", prog' = prog, child.state = "running",
         \/ pc = "expand" /\ Step("print", StdBocSerialize(buf, 31))
         \/ pc = "print" /\ Exit(0, Base64Encode(buf))
  PROVE  ProcessInv' /\ Answered'
<1>1. PlainMemory
  BY DEF ProcessInv
<1>2. CASE pc = "expand" /\ Step("print", StdBocSerialize(buf, 31))
  <2>1. PICK b \in Blocks : Carried(b) /\ buf = Cell(b)
    BY <1>1, <1>2 DEF PlainMemory
  <2>2. child.mode = "decompress"
    BY <1>1, <1>2 DEF PlainMemory, PlainDecompress
  <2>3. pc' = "print" /\ buf' = Boc(b, 31) /\ UNCHANGED <<child, i, frames>>
    BY <1>2, <2>1, Kinds DEF Step, Goto, StdBocSerialize
  <2>4. Text(Boc(b, 31)) = Due(b)
    BY <2>2 DEF Due, Canonical
  <2>5. Carried(b)' /\ Due(b)' = Due(b)
    BY <2>1, <2>3, SameInput
  <2>6. Text(buf') = Due(b)'
    BY <2>3, <2>4, <2>5
  <2>7. PlainMemory'
    BY <2>2, <2>3, <2>5, <2>6 DEF PlainMemory, PlainCompress, PlainDecompress
  <2> QED
    BY <1>2, <2>7, PlainGoesOn
<1>3. CASE pc = "print" /\ Exit(0, Base64Encode(buf))
  <2>1. PICK b \in Blocks : Carried(b) /\ Text(buf) = Due(b)
    BY <1>1, <1>3 DEF PlainMemory
  <2>2. buf # Empty
    <3>1. Text(buf).of = buf
      BY Texts
    <3>2. Due(b).of \in {Form(prog, b), Boc(b, 31)}
      BY Texts DEF Due, Canonical
    <3>3. Form(prog, b).kind # "empty" /\ Boc(b, 31).kind # "empty" /\ Empty.kind = "empty"
      BY Forms, Kinds DEF Form
    <3> QED
      BY ONLY <2>1, <3>1, <3>2, <3>3
  <2>3. Exit(0, Text(buf)) /\ Text(buf) # EmptyText
    BY <1>3, <2>2, Texts DEF Base64Encode
  <2> QED
    BY <2>1, <2>3, ExitKeeps
<1> QED
  BY <1>2, <1>3

\* All of examples/solution.cpp.
LEMMA ExampleKeeps ==
  ASSUME ProcessInv, prog = "example", prog' = prog, Example!Work
  PROVE  ProcessInv' /\ Answered'
<1>1. CASE Example!Launch
  <2>1. Launch
    BY <1>1, ExampleNames DEF Example!Launch, Launch
  <2> QED
    BY <2>1, LaunchKeeps
<1>2. CASE Example!RejectMode
  BY <1>2, ExampleNames, PlainMode DEF Example!RejectMode, At
<1>3. CASE Example!ReadMode
  BY <1>3, ExampleNames, PlainMode DEF Example!ReadMode, At
<1>4. CASE Example!RejectEmpty
  BY <1>4, ExampleNames, PlainNoData DEF Example!RejectEmpty, At
<1>5. CASE Example!DecodeInput
  BY <1>5, ExampleNames, PlainDecode DEF Example!DecodeInput, At
<1>6. CASE Example!Deserialize
  BY <1>6, ExampleNames, PlainDeserialize DEF Example!Deserialize, At
<1>7. CASE Example!Serialize
  BY <1>7, ExampleNames, PlainPack DEF Example!Serialize, At
<1>8. CASE Example!Compress
  BY <1>8, ExampleNames, PlainPack DEF Example!Compress, At
<1>9. CASE Example!UnLz4
  <2>1. child.state = "running" /\ pc = "unlz4"
    BY <1>9, ExampleNames DEF Example!UnLz4, At
  <2>2. PICK r \in Lz4Decompress(buf, 2048) : MoveAsOk(r, "restore")
    BY <1>9, ExampleNames, Limits DEF Example!UnLz4
  <2> QED
    BY <2>1, <2>2, PlainUnpack
<1>10. CASE Example!Restore
  BY <1>10, ExampleNames, PlainRestore DEF Example!Restore, At
<1>11. CASE Example!Expand
  <2>a. child.state = "running" /\ pc = "expand"
    BY <1>11, ExampleNames DEF Example!Expand, At
  <2>b. Step("print", StdBocSerialize(buf, 31))
    BY <1>11, ExampleNames DEF Example!Expand
  <2>1. child.state = "running" /\ pc = "expand" /\ Step("print", StdBocSerialize(buf, 31))
    BY ONLY <2>a, <2>b
  <2> QED
    BY <2>1, PlainPrint
<1>12. CASE Example!PrintResult
  BY <1>12, ExampleNames, PlainPrint DEF Example!PrintResult, At
<1> QED
  BY <1>1, <1>2, <1>3, <1>4, <1>5, <1>6, <1>7, <1>8, <1>9, <1>10, <1>11, <1>12
     DEF Example!Work

\* All of ton-compress-contest-linux/solution.cpp.
LEMMA ReferenceKeeps ==
  ASSUME ProcessInv, prog = "reference", prog' = prog, Reference!Work
  PROVE  ProcessInv' /\ Answered'
<1> USE DEF Reference!Abort, Reference!SigAbrt
<1>1. CASE Reference!Launch
  <2>1. Launch
    BY <1>1, ReferenceNames DEF Reference!Launch, Launch
  <2> QED
    BY <2>1, LaunchKeeps
<1>2. CASE Reference!CheckMode
  BY <1>2, ReferenceNames, PlainMode DEF Reference!CheckMode, At, SigAbrt
<1>3. CASE Reference!CheckData
  <2>1. CASE child.text # EmptyText
    <3>1. child.state = "running" /\ pc = "data" /\ Step("decode", buf)
      BY <1>3, <2>1, ReferenceNames DEF Reference!CheckData, At
    <3>2. pc' = "decode" /\ UNCHANGED <<child, i, frames>>
      BY <3>1 DEF Step, Goto
    <3>3. PlainMemory
      BY <3>1 DEF ProcessInv
    <3>4. PlainMemory'
      BY <2>1, <3>1, <3>2, <3>3 DEF PlainMemory, PlainCompress, PlainDecompress
    <3> QED
      BY <3>1, <3>4, PlainGoesOn
  <2>2. CASE child.text = EmptyText
    BY <1>3, <2>2, ReferenceNames, PlainNoData DEF Reference!CheckData, At, SigAbrt
  <2> QED
    BY <2>1, <2>2
<1>4. CASE Reference!DecodeInput
  <2>1. child.state = "running" /\ pc = "decode" /\ PlainMemory
    BY <1>4, ReferenceNames DEF Reference!DecodeInput, At, ProcessInv
  <2>2. child.text # EmptyText
    BY <2>1 DEF PlainMemory
  <2> QED
    BY <1>4, <2>1, <2>2, ReferenceNames, PlainDecode DEF Reference!DecodeInput, At
<1>5. CASE Reference!Deserialize
  BY <1>5, ReferenceNames, PlainDeserialize DEF Reference!Deserialize, At
<1>6. CASE Reference!Serialize
  BY <1>6, ReferenceNames, PlainPack DEF Reference!Serialize, At
<1>7. CASE Reference!Compress
  BY <1>7, ReferenceNames, PlainPack DEF Reference!Compress, At
<1>8. CASE Reference!UnLz4
  <2>1. child.state = "running" /\ pc = "unlz4"
    BY <1>8, ReferenceNames DEF Reference!UnLz4, At
  <2>2. PICK r \in Lz4Decompress(buf, 2048) : MoveAsOk(r, "restore")
    BY <1>8, ReferenceNames, Limits DEF Reference!UnLz4
  <2> QED
    BY <2>1, <2>2, PlainUnpack
<1>9. CASE Reference!Restore
  BY <1>9, ReferenceNames, PlainRestore DEF Reference!Restore, At
<1>10. CASE Reference!Expand
  <2>a. child.state = "running" /\ pc = "expand"
    BY <1>10, ReferenceNames DEF Reference!Expand, At
  <2>b. Step("print", StdBocSerialize(buf, 31))
    BY <1>10, ReferenceNames DEF Reference!Expand
  <2>1. child.state = "running" /\ pc = "expand" /\ Step("print", StdBocSerialize(buf, 31))
    BY ONLY <2>a, <2>b
  <2> QED
    BY <2>1, PlainPrint
<1>11. CASE Reference!PrintResult
  BY <1>11, ReferenceNames, PlainPrint DEF Reference!PrintResult, At
<1> QED
  BY <1>1, <1>2, <1>3, <1>4, <1>5, <1>6, <1>7, <1>8, <1>9, <1>10, <1>11
     DEF Reference!Work

-----------------------------------------------------------------------------
\* Whatever a process does, it keeps ProcessInv, and it answers.
LEMMA WorkKeeps ==
  ASSUME ProcessInv, Work, prog' = prog
  PROVE  ProcessInv' /\ Answered'
BY GzipKeeps, ExampleKeeps, ReferenceKeeps DEF Work

\* What the parent sees of a statement: the process starts, nothing, or its end.
LEMMA WorkSeen ==
  ASSUME Work
  PROVE  \/ UNCHANGED child
         \/ child.state = "spawned" /\ child' = [child EXCEPT !.state = "running"]
         \/ child.state = "running" /\ \E c \in {0, 1, SigAbrt} : \E o : Exit(c, o)
<1> DEFINE Quiet == UNCHANGED child
           Starts == child.state = "spawned" /\ child' = [child EXCEPT !.state = "running"]
           Ends(c) == child.state = "running" /\ \E o : Exit(c, o)
<1>1. ASSUME child.state = "running", NEW c, NEW o, Exit(c, o)
      PROVE  Ends(c)
  BY <1>1
<1>2. ASSUME NEW l, NEW s, Step(l, s)
      PROVE  Quiet
  BY <1>2 DEF Step, Goto
<1>3. ASSUME child.state = "running", NEW r, NEW l, MoveAsOk(r, l)
      PROVE  Quiet \/ Ends(SigAbrt)
  BY <1>1, <1>2, <1>3 DEF MoveAsOk, Abort
<1>4. ASSUME Launch
      PROVE  Starts
  BY <1>4 DEF Launch
<1> HIDE DEF Quiet, Starts, Ends
<1>6. ASSUME Gzip!Work
      PROVE  Quiet \/ Starts \/ Ends(0) \/ Ends(1) \/ Ends(SigAbrt)
  <2>1. CASE Gzip!Launch
    <3>1. Launch
      BY <2>1, GzipNames DEF Gzip!Launch, Launch
    <3> QED
      BY <3>1, <1>4
  <2>2. CASE Gzip!ReadMode
    BY <2>2 DEF Gzip!ReadMode, Gzip!Step, Gzip!Goto, Quiet
  <2>3. CASE Gzip!DecodeInput
    BY <2>3 DEF Gzip!DecodeInput, Gzip!Step, Gzip!Goto, Quiet
  <2>4. CASE Gzip!Serialize
    BY <2>4 DEF Gzip!Serialize, Gzip!Step, Gzip!Goto, Quiet
  <2>5. CASE Gzip!EndOfChunks
    BY <2>5 DEF Gzip!EndOfChunks, Gzip!Step, Gzip!Goto, Quiet
  <2>6. CASE Gzip!Gunzip
    BY <2>6 DEF Gzip!Gunzip, Gzip!Step, Gzip!Goto, Quiet
  <2>7. CASE Gzip!RejectMode
    <3>1. child.state = "running" /\ \E o : Gzip!Exit(1, o)
      BY <2>7, GzipNames DEF Gzip!RejectMode, At
    <3> QED
      BY <3>1, <1>1, GzipNames
  <2>8. CASE Gzip!RejectEmpty
    <3>1. child.state = "running" /\ \E o : Gzip!Exit(1, o)
      BY <2>8, GzipNames DEF Gzip!RejectEmpty, At
    <3> QED
      BY <3>1, <1>1, GzipNames
  <2>9. CASE Gzip!GzipAll
    <3>1. child.state = "running" /\ \E o : Gzip!Exit(0, o)
      BY <2>9, GzipNames DEF Gzip!GzipAll, At
    <3> QED
      BY <3>1, <1>1, GzipNames
  <2>10. CASE Gzip!Expand
    <3>1. child.state = "running" /\ \E o : Gzip!Exit(0, o)
      BY <2>10, GzipNames DEF Gzip!Expand, At
    <3> QED
      BY <3>1, <1>1, GzipNames
  <2>11. CASE Gzip!Deserialize
    <3>1. child.state = "running" /\ \E r, l : Gzip!MoveAsOk(r, l)
      BY <2>11, GzipNames DEF Gzip!Deserialize, At
    <3> QED
      BY <3>1, <1>3, GzipNames
  <2>12. CASE Gzip!UnLz4
    <3>1. child.state = "running" /\ \E r, l : Gzip!MoveAsOk(r, l)
      BY <2>12, GzipNames DEF Gzip!UnLz4, At
    <3> QED
      BY <3>1, <1>3, GzipNames
  <2>13. CASE Gzip!Restore
    <3>1. child.state = "running" /\ \E r, l : Gzip!MoveAsOk(r, l)
      BY <2>13, GzipNames DEF Gzip!Restore, At
    <3> QED
      BY <3>1, <1>3, GzipNames
  <2>14. CASE Gzip!CompressChunk
    BY <2>14 DEF Gzip!CompressChunk, Quiet
  <2> QED
    BY ONLY <1>6, <2>1, <2>2, <2>3, <2>4, <2>5, <2>6, <2>7, <2>8, <2>9, <2>10, <2>11, <2>12, <2>13, <2>14 DEF Gzip!Work
<1>7. ASSUME Example!Work
      PROVE  Quiet \/ Starts \/ Ends(0) \/ Ends(1) \/ Ends(SigAbrt)
  <2>1. CASE Example!Launch
    <3>1. Launch
      BY <2>1, ExampleNames DEF Example!Launch, Launch
    <3> QED
      BY <3>1, <1>4
  <2>2. CASE Example!ReadMode
    BY <2>2 DEF Example!ReadMode, Example!Step, Example!Goto, Quiet
  <2>3. CASE Example!Serialize
    BY <2>3 DEF Example!Serialize, Example!Step, Example!Goto, Quiet
  <2>4. CASE Example!Compress
    BY <2>4 DEF Example!Compress, Example!Step, Example!Goto, Quiet
  <2>5. CASE Example!Expand
    BY <2>5 DEF Example!Expand, Example!Step, Example!Goto, Quiet
  <2>6. CASE Example!RejectMode
    <3>1. child.state = "running" /\ \E o : Example!Exit(1, o)
      BY <2>6, ExampleNames DEF Example!RejectMode, At
    <3> QED
      BY <3>1, <1>1, ExampleNames
  <2>7. CASE Example!RejectEmpty
    <3>1. child.state = "running" /\ \E o : Example!Exit(1, o)
      BY <2>7, ExampleNames DEF Example!RejectEmpty, At
    <3> QED
      BY <3>1, <1>1, ExampleNames
  <2>8. CASE Example!PrintResult
    <3>1. child.state = "running" /\ \E o : Example!Exit(0, o)
      BY <2>8, ExampleNames DEF Example!PrintResult, At
    <3> QED
      BY <3>1, <1>1, ExampleNames
  <2>9. CASE Example!DecodeInput
    <3>1. child.state = "running" /\ \E r, l : Example!MoveAsOk(r, l)
      BY <2>9, ExampleNames DEF Example!DecodeInput, At
    <3> QED
      BY <3>1, <1>3, ExampleNames
  <2>10. CASE Example!Deserialize
    <3>1. child.state = "running" /\ \E r, l : Example!MoveAsOk(r, l)
      BY <2>10, ExampleNames DEF Example!Deserialize, At
    <3> QED
      BY <3>1, <1>3, ExampleNames
  <2>11. CASE Example!UnLz4
    <3>1. child.state = "running" /\ \E r, l : Example!MoveAsOk(r, l)
      BY <2>11, ExampleNames DEF Example!UnLz4, At
    <3> QED
      BY <3>1, <1>3, ExampleNames
  <2>12. CASE Example!Restore
    <3>1. child.state = "running" /\ \E r, l : Example!MoveAsOk(r, l)
      BY <2>12, ExampleNames DEF Example!Restore, At
    <3> QED
      BY <3>1, <1>3, ExampleNames
  <2> QED
    BY ONLY <1>7, <2>1, <2>2, <2>3, <2>4, <2>5, <2>6, <2>7, <2>8, <2>9, <2>10, <2>11, <2>12 DEF Example!Work
<1>8. ASSUME Reference!Work
      PROVE  Quiet \/ Starts \/ Ends(0) \/ Ends(1) \/ Ends(SigAbrt)
  <2>1. CASE Reference!Launch
    <3>1. Launch
      BY <2>1, ReferenceNames DEF Reference!Launch, Launch
    <3> QED
      BY <3>1, <1>4
  <2>2. CASE Reference!Serialize
    BY <2>2 DEF Reference!Serialize, Reference!Step, Reference!Goto, Quiet
  <2>3. CASE Reference!Compress
    BY <2>3 DEF Reference!Compress, Reference!Step, Reference!Goto, Quiet
  <2>4. CASE Reference!Expand
    BY <2>4 DEF Reference!Expand, Reference!Step, Reference!Goto, Quiet
  <2>5. CASE Reference!CheckMode
    <3>1. child.state = "running" /\ (UNCHANGED child \/ Reference!Exit(SigAbrt, EmptyText))
      BY <2>5, ReferenceNames DEF Reference!CheckMode, Reference!Step, Reference!Goto, Reference!Abort, Reference!SigAbrt, At, SigAbrt
    <3> QED
      BY <3>1, <1>1, ReferenceNames DEF Quiet
  <2>6. CASE Reference!CheckData
    <3>1. child.state = "running" /\ (UNCHANGED child \/ Reference!Exit(SigAbrt, EmptyText))
      BY <2>6, ReferenceNames DEF Reference!CheckData, Reference!Step, Reference!Goto, Reference!Abort, Reference!SigAbrt, At, SigAbrt
    <3> QED
      BY <3>1, <1>1, ReferenceNames DEF Quiet
  <2>7. CASE Reference!PrintResult
    <3>1. child.state = "running" /\ \E o : Reference!Exit(0, o)
      BY <2>7, ReferenceNames DEF Reference!PrintResult, At
    <3> QED
      BY <3>1, <1>1, ReferenceNames
  <2>8. CASE Reference!DecodeInput
    <3>1. child.state = "running" /\ \E r, l : Reference!MoveAsOk(r, l)
      BY <2>8, ReferenceNames DEF Reference!DecodeInput, At
    <3> QED
      BY <3>1, <1>3, ReferenceNames
  <2>9. CASE Reference!Deserialize
    <3>1. child.state = "running" /\ \E r, l : Reference!MoveAsOk(r, l)
      BY <2>9, ReferenceNames DEF Reference!Deserialize, At
    <3> QED
      BY <3>1, <1>3, ReferenceNames
  <2>10. CASE Reference!UnLz4
    <3>1. child.state = "running" /\ \E r, l : Reference!MoveAsOk(r, l)
      BY <2>10, ReferenceNames DEF Reference!UnLz4, At
    <3> QED
      BY <3>1, <1>3, ReferenceNames
  <2>11. CASE Reference!Restore
    <3>1. child.state = "running" /\ \E r, l : Reference!MoveAsOk(r, l)
      BY <2>11, ReferenceNames DEF Reference!Restore, At
    <3> QED
      BY <3>1, <1>3, ReferenceNames
  <2> QED
    BY ONLY <1>8, <2>1, <2>2, <2>3, <2>4, <2>5, <2>6, <2>7, <2>8, <2>9, <2>10, <2>11 DEF Reference!Work
<1>9. Quiet \/ Starts \/ Ends(0) \/ Ends(1) \/ Ends(SigAbrt)
  BY <1>6, <1>7, <1>8 DEF Work
<1>10. ASSUME NEW c, Ends(c)
       PROVE  child.state = "running" /\ \E o : Exit(c, o)
  BY <1>10 DEF Ends
<1> QED
  BY <1>9, <1>10 DEF Quiet, Starts

\* What the process does to what its parent sees.
LEMMA SeenFields ==
  ASSUME ProcessInv, child.state # "none",
         \/ UNCHANGED child
         \/ child' = [child EXCEPT !.state = "running"]
         \/ \E c : \E o : Exit(c, o)
  PROVE  child'.state # "none" /\ child'.mode = child.mode /\ child'.text = child.text
<1>1. CASE child' = [child EXCEPT !.state = "running"]
  BY <1>1, ChildFields DEF ProcessInv
<1>2. CASE \E c : \E o : Exit(c, o)
  BY <1>2, ExitFields
<1> QED
  BY <1>1, <1>2

\* Work needs a process.
LEMMA WorkAlive ==
  ASSUME Work
  PROVE  child.state # "none"
<1>1. CASE Gzip!Work
  BY <1>1 DEF Gzip!Work, Gzip!Launch, Gzip!RejectMode, Gzip!ReadMode, Gzip!RejectEmpty,
     Gzip!DecodeInput, Gzip!Deserialize, Gzip!Serialize, Gzip!CompressChunk, Gzip!EndOfChunks,
     Gzip!GzipAll, Gzip!Gunzip, Gzip!UnLz4, Gzip!Restore, Gzip!Expand, Gzip!At
<1>2. CASE Example!Work
  BY <1>2 DEF Example!Work, Example!Launch, Example!RejectMode, Example!ReadMode,
     Example!RejectEmpty, Example!DecodeInput, Example!Deserialize, Example!Serialize,
     Example!Compress, Example!UnLz4, Example!Restore, Example!Expand, Example!PrintResult,
     Example!At
<1>3. CASE Reference!Work
  BY <1>3 DEF Reference!Work, Reference!Launch, Reference!CheckMode, Reference!CheckData,
     Reference!DecodeInput, Reference!Deserialize, Reference!Serialize, Reference!Compress,
     Reference!UnLz4, Reference!Restore, Reference!Expand, Reference!PrintResult, Reference!At
<1> QED
  BY <1>1, <1>2, <1>3 DEF Work

\* There is no process, and no memory of one is looked at.
LEMMA NoProcess ==
  ASSUME ProcessInv, child' = NoChild, UNCHANGED <<memory, prog>>
  PROVE  ProcessInv'
<1>1. child' = [state |-> "none", mode |-> "none", text |-> EmptyText,
                stdout |-> EmptyText, code |-> 0]
  BY DEF NoChild
<1>2. child'.state = "none" /\ ChildRecord'
  BY ONLY <1>1 DEF ChildRecord
<1>3. MemoryType'
  BY DEF ProcessInv, MemoryType, memory
<1> QED
  BY <1>2, <1>3 DEF ProcessInv, Printed

\* A new process has not printed anything.
LEMMA NewProcess ==
  ASSUME ProcessInv, NEW mode, NEW text, child' = Spawned(mode, text), Known(text),
         UNCHANGED memory, prog' \in {"gzip", "example", "reference"}
  PROVE  /\ ProcessInv'
         /\ child'.state = "spawned" /\ child'.mode = mode /\ child'.text = text
<1>1. NoChild \in [state : {"none"}, mode : {"none"}, text : {EmptyText},
                   stdout : {EmptyText}, code : {0}]
  BY DEF NoChild
<1>2. Spawned(mode, text) \in [state : {"spawned"}, mode : {mode}, text : {text},
                               stdout : {EmptyText}, code : {0}]
  BY ONLY <1>1 DEF Spawned
<1>3. child' = [state |-> "spawned", mode |-> mode, text |-> text, stdout |-> EmptyText, code |-> 0]
  BY ONLY <1>2, child' = Spawned(mode, text)
<1>4. child'.state = "spawned" /\ child'.mode = mode /\ child'.text = text /\ ChildRecord'
  BY ONLY <1>3 DEF ChildRecord
<1>5. MemoryType'
  BY DEF ProcessInv, MemoryType, memory
<1>6. Known(child.text)'
  BY <1>4 DEF Known, Given
<1> QED
  BY <1>4, <1>5, <1>6 DEF ProcessInv, Printed

\* Nothing happens to the process.
LEMMA SameProcess ==
  ASSUME ProcessInv, UNCHANGED <<child, memory, prog>>
  PROVE  ProcessInv' /\ (Answered' <=> Answered)
<1>1. UNCHANGED <<child, pc, buf, i, frames, prog>>
  BY DEF memory
<1>2. (Answered' <=> Answered) /\ (Printed' <=> Printed)
  BY <1>1, SameInput DEF Answered, Printed
<1>a. \A b : (OfBlock(b)' <=> OfBlock(b)) /\ (Carried(b)' <=> Carried(b))
  BY <1>1, SameInput
<1>b. \A n : PiecesSoFar(n)' <=> PiecesSoFar(n)
  BY ONLY <1>1 DEF PiecesSoFar
<1>3. GzipMemory => GzipMemory'
  BY ONLY <1>1, <1>a, <1>b DEF GzipMemory
<1>4. PlainMemory => PlainMemory'
  BY <1>1 DEF PlainMemory, OfBlock, Carried, Due
<1> QED
  BY <1>1, <1>2, <1>3, <1>4 DEF ProcessInv, ChildRecord, MemoryType, Known, Given

-----------------------------------------------------------------------------
(* Every step of a process takes it forward.                               *)

\* How far each statement is into main; those of a stage exclude each other.
Stage ==
  [mode |-> 1, data |-> 2, decode |-> 3, deserialize |-> 4, gunzip |-> 4,
   serialize |-> 5, unlz4 |-> 5, chunks |-> 6, lz4 |-> 6, restore |-> 6,
   gzip |-> 7, expand |-> 7, print |-> 8]

\* A process enters main, ends, gets to a later stage, or goes on in the loop
\* over the pieces, which then has less left to do.
Advance ==
  \/ child.state = "spawned" /\ child'.state = "running" /\ pc' = "mode"
  \/ child.state = "running" /\ child'.state = "exited"
  \/ child.state = "running" /\ UNCHANGED child /\ Stage[pc'] > Stage[pc]
  \/ /\ child.state = "running" /\ pc = "chunks" /\ i < SizeOf(buf) /\ i' > i
     /\ UNCHANGED <<child, pc, buf>>

\* The stages, one by one.
LEMMA Stages ==
  /\ Stage["mode"] = 1 /\ Stage["data"] = 2 /\ Stage["decode"] = 3
  /\ Stage["deserialize"] = 4 /\ Stage["gunzip"] = 4
  /\ Stage["serialize"] = 5 /\ Stage["unlz4"] = 5
  /\ Stage["chunks"] = 6 /\ Stage["lz4"] = 6 /\ Stage["restore"] = 6
  /\ Stage["gzip"] = 7 /\ Stage["expand"] = 7 /\ Stage["print"] = 8
BY DEF Stage

\* A running process is at a statement that has a stage.
LEMMA HasStage ==
  ASSUME ProcessInv, child.state = "running"
  PROVE  Stage[pc] \in 1 .. 8
<1>1. pc \in {"mode", "data", "decode", "print", "deserialize", "serialize", "chunks", "gzip",
              "gunzip", "unlz4", "restore", "expand", "lz4"}
  BY DEF ProcessInv, GzipMemory, PlainMemory, Gzip!InCompress, Gzip!InDecompress,
         PlainCompress, PlainDecompress
<1> QED
  BY ONLY <1>1, Stages

\* A statement that goes on to a later stage.
LEMMA StepAdvances ==
  ASSUME NEW k, NEW l, NEW s, At(k), Step(l, s), Stage[l] > Stage[k]
  PROVE  Advance
BY DEF At, Step, Goto, Advance

\* A statement that ends the process.
LEMMA ExitAdvances ==
  ASSUME ProcessInv, child.state = "running", NEW c, NEW o, Exit(c, o)
  PROVE  Advance
BY ExitFields DEF Advance

\* A call that may fail goes on or ends it.
LEMMA CallAdvances ==
  ASSUME ProcessInv, NEW k, NEW l, NEW r, At(k), MoveAsOk(r, l), Stage[l] > Stage[k]
  PROVE  Advance
<1>1. CASE r.ok
  <2>1. Step(l, r.val)
    BY <1>1 DEF MoveAsOk
  <2> QED
    BY ONLY <2>1, At(k), Stage[l] > Stage[k], StepAdvances
<1>2. CASE ~r.ok
  <2>1. Exit(SigAbrt, EmptyText) /\ child.state = "running"
    BY <1>2 DEF MoveAsOk, Abort, At
  <2> QED
    BY ONLY <2>1, ProcessInv, ExitAdvances
<1> QED
  BY <1>1, <1>2

\* The process enters main.
LEMMA LaunchAdvances ==
  ASSUME ProcessInv, Launch
  PROVE  Advance
<1>1. ChildRecord
  BY DEF ProcessInv
<1>2. /\ child.state = "spawned" /\ child' = [child EXCEPT !.state = "running"]
      /\ pc' = "mode"
  BY DEF Launch
<1>3. child' = [state |-> "running", mode |-> child.mode, text |-> child.text,
                stdout |-> child.stdout, code |-> child.code]
  BY ONLY <1>1, <1>2, ChildFields, Zenon
<1>4. child'.state = "running"
  BY ONLY <1>3
<1> QED
  BY ONLY <1>2, <1>4 DEF Advance

\* tester/solution.cpp.
LEMMA GzipAdvances ==
  ASSUME ProcessInv, Gzip!Work
  PROVE  Advance
<1>1. CASE Gzip!Launch
  <2>1. Launch
    BY <1>1, GzipNames DEF Gzip!Launch, Launch
  <2> QED
    BY ONLY <2>1, ProcessInv, LaunchAdvances
<1>2. CASE Gzip!RejectMode
  <2>1. child.state = "running" /\ \E c, o : Exit(c, o)
    BY <1>2, GzipNames DEF Gzip!RejectMode, At
  <2> QED
    BY ONLY <2>1, ProcessInv, ExitAdvances
<1>3. CASE Gzip!ReadMode
  <2>1. At("mode") /\ \E s : Step("data", s)
    BY <1>3, GzipNames DEF Gzip!ReadMode
  <2> QED
    BY ONLY <2>1, Stages, StepAdvances
<1>4. CASE Gzip!RejectEmpty
  <2>1. child.state = "running" /\ \E c, o : Exit(c, o)
    BY <1>4, GzipNames DEF Gzip!RejectEmpty, At
  <2> QED
    BY ONLY <2>1, ProcessInv, ExitAdvances
<1>5. CASE Gzip!DecodeInput
  <2>1. At("data") /\ ((\E s : Step("deserialize", s)) \/ (\E s : Step("gunzip", s)))
    BY <1>5, GzipNames DEF Gzip!DecodeInput
  <2> QED
    BY ONLY <2>1, Stages, StepAdvances
<1>6. CASE Gzip!Deserialize
  <2>1. At("deserialize") /\ \E r : MoveAsOk(r, "serialize")
    BY <1>6, GzipNames DEF Gzip!Deserialize
  <2> QED
    BY ONLY <2>1, ProcessInv, Stages, CallAdvances
<1>7. CASE Gzip!Serialize
  <2>1. At("serialize") /\ \E s : Step("chunks", s)
    BY <1>7, GzipNames DEF Gzip!Serialize
  <2> QED
    BY ONLY <2>1, Stages, StepAdvances
<1>8. CASE Gzip!CompressChunk
  <2>1. At("chunks") /\ i < SizeOf(buf) /\ i' = i + 1024 /\ UNCHANGED <<child, pc, buf>>
    BY <1>8, GzipNames, Limits DEF Gzip!CompressChunk
  <2>2. i \in Nat
    BY DEF ProcessInv, MemoryType
  <2>3. i' > i
    BY ONLY <2>1, <2>2
  <2> QED
    BY ONLY <2>1, <2>3 DEF At, Advance
<1>9. CASE Gzip!EndOfChunks
  <2>1. At("chunks") /\ \E s : Step("gzip", s)
    BY <1>9, GzipNames DEF Gzip!EndOfChunks
  <2> QED
    BY ONLY <2>1, Stages, StepAdvances
<1>10. CASE Gzip!GzipAll
  <2>1. child.state = "running" /\ \E c, o : Exit(c, o)
    BY <1>10, GzipNames DEF Gzip!GzipAll, At
  <2> QED
    BY ONLY <2>1, ProcessInv, ExitAdvances
<1>11. CASE Gzip!Gunzip
  <2>1. At("gunzip") /\ \E s : Step("unlz4", s)
    BY <1>11, GzipNames DEF Gzip!Gunzip
  <2> QED
    BY ONLY <2>1, Stages, StepAdvances
<1>12. CASE Gzip!UnLz4
  <2>1. At("unlz4") /\ \E r : MoveAsOk(r, "restore")
    BY <1>12, GzipNames DEF Gzip!UnLz4
  <2> QED
    BY ONLY <2>1, ProcessInv, Stages, CallAdvances
<1>13. CASE Gzip!Restore
  <2>1. At("restore") /\ \E r : MoveAsOk(r, "expand")
    BY <1>13, GzipNames DEF Gzip!Restore
  <2> QED
    BY ONLY <2>1, ProcessInv, Stages, CallAdvances
<1>14. CASE Gzip!Expand
  <2>1. child.state = "running" /\ \E c, o : Exit(c, o)
    BY <1>14, GzipNames DEF Gzip!Expand, At
  <2> QED
    BY ONLY <2>1, ProcessInv, ExitAdvances
<1> QED
  BY ONLY Gzip!Work, <1>1, <1>2, <1>3, <1>4, <1>5, <1>6, <1>7, <1>8, <1>9, <1>10, <1>11, <1>12, <1>13, <1>14 DEF Gzip!Work

\* examples/solution.cpp.
LEMMA ExampleAdvances ==
  ASSUME ProcessInv, Example!Work
  PROVE  Advance
<1>1. CASE Example!Launch
  <2>1. Launch
    BY <1>1, ExampleNames DEF Example!Launch, Launch
  <2> QED
    BY ONLY <2>1, ProcessInv, LaunchAdvances
<1>2. CASE Example!RejectMode
  <2>1. child.state = "running" /\ \E c, o : Exit(c, o)
    BY <1>2, ExampleNames DEF Example!RejectMode, At
  <2> QED
    BY ONLY <2>1, ProcessInv, ExitAdvances
<1>3. CASE Example!ReadMode
  <2>1. At("mode") /\ \E s : Step("data", s)
    BY <1>3, ExampleNames DEF Example!ReadMode
  <2> QED
    BY ONLY <2>1, Stages, StepAdvances
<1>4. CASE Example!RejectEmpty
  <2>1. child.state = "running" /\ \E c, o : Exit(c, o)
    BY <1>4, ExampleNames DEF Example!RejectEmpty, At
  <2> QED
    BY ONLY <2>1, ProcessInv, ExitAdvances
<1>5. CASE Example!DecodeInput
  <2>1. At("data") /\ ((\E r : MoveAsOk(r, "deserialize")) \/ (\E r : MoveAsOk(r, "unlz4")))
    BY <1>5, ExampleNames DEF Example!DecodeInput
  <2> QED
    BY ONLY <2>1, Stages, ProcessInv, CallAdvances
<1>6. CASE Example!Deserialize
  <2>1. At("deserialize") /\ \E r : MoveAsOk(r, "serialize")
    BY <1>6, ExampleNames DEF Example!Deserialize
  <2> QED
    BY ONLY <2>1, ProcessInv, Stages, CallAdvances
<1>7. CASE Example!Serialize
  <2>1. At("serialize") /\ \E s : Step("lz4", s)
    BY <1>7, ExampleNames DEF Example!Serialize
  <2> QED
    BY ONLY <2>1, Stages, StepAdvances
<1>8. CASE Example!Compress
  <2>1. At("lz4") /\ \E s : Step("print", s)
    BY <1>8, ExampleNames DEF Example!Compress
  <2> QED
    BY ONLY <2>1, Stages, StepAdvances
<1>9. CASE Example!UnLz4
  <2>1. At("unlz4") /\ \E r : MoveAsOk(r, "restore")
    BY <1>9, ExampleNames DEF Example!UnLz4
  <2> QED
    BY ONLY <2>1, ProcessInv, Stages, CallAdvances
<1>10. CASE Example!Restore
  <2>1. At("restore") /\ \E r : MoveAsOk(r, "expand")
    BY <1>10, ExampleNames DEF Example!Restore
  <2> QED
    BY ONLY <2>1, ProcessInv, Stages, CallAdvances
<1>11. CASE Example!Expand
  <2>1. At("expand") /\ \E s : Step("print", s)
    BY <1>11, ExampleNames DEF Example!Expand
  <2> QED
    BY ONLY <2>1, Stages, StepAdvances
<1>12. CASE Example!PrintResult
  <2>1. child.state = "running" /\ \E c, o : Exit(c, o)
    BY <1>12, ExampleNames DEF Example!PrintResult, At
  <2> QED
    BY ONLY <2>1, ProcessInv, ExitAdvances
<1> QED
  BY ONLY Example!Work, <1>1, <1>2, <1>3, <1>4, <1>5, <1>6, <1>7, <1>8, <1>9, <1>10, <1>11, <1>12 DEF Example!Work

\* ton-compress-contest-linux/solution.cpp.
LEMMA ReferenceAdvances ==
  ASSUME ProcessInv, Reference!Work
  PROVE  Advance
<1>1. CASE Reference!Launch
  <2>1. Launch
    BY <1>1, ReferenceNames DEF Reference!Launch, Launch
  <2> QED
    BY ONLY <2>1, ProcessInv, LaunchAdvances
<1>2. CASE Reference!CheckMode
  <2>1. At("mode") /\ ((\E s : Step("data", s)) \/ Exit(SigAbrt, EmptyText))
    BY <1>2, ReferenceNames DEF Reference!CheckMode, Reference!Abort, Reference!SigAbrt, SigAbrt
  <2>2. child.state = "running"
    BY <2>1 DEF At
  <2> QED
    BY ONLY <2>1, <2>2, ProcessInv, Stages, StepAdvances, ExitAdvances
<1>3. CASE Reference!CheckData
  <2>1. At("data") /\ ((\E s : Step("decode", s)) \/ Exit(SigAbrt, EmptyText))
    BY <1>3, ReferenceNames DEF Reference!CheckData, Reference!Abort, Reference!SigAbrt, SigAbrt
  <2>2. child.state = "running"
    BY <2>1 DEF At
  <2> QED
    BY ONLY <2>1, <2>2, ProcessInv, Stages, StepAdvances, ExitAdvances
<1>4. CASE Reference!DecodeInput
  <2>1. At("decode") /\ ((\E r : MoveAsOk(r, "deserialize")) \/ (\E r : MoveAsOk(r, "unlz4")))
    BY <1>4, ReferenceNames DEF Reference!DecodeInput
  <2> QED
    BY ONLY <2>1, Stages, ProcessInv, CallAdvances
<1>5. CASE Reference!Deserialize
  <2>1. At("deserialize") /\ \E r : MoveAsOk(r, "serialize")
    BY <1>5, ReferenceNames DEF Reference!Deserialize
  <2> QED
    BY ONLY <2>1, ProcessInv, Stages, CallAdvances
<1>6. CASE Reference!Serialize
  <2>1. At("serialize") /\ \E s : Step("lz4", s)
    BY <1>6, ReferenceNames DEF Reference!Serialize
  <2> QED
    BY ONLY <2>1, Stages, StepAdvances
<1>7. CASE Reference!Compress
  <2>1. At("lz4") /\ \E s : Step("print", s)
    BY <1>7, ReferenceNames DEF Reference!Compress
  <2> QED
    BY ONLY <2>1, Stages, StepAdvances
<1>8. CASE Reference!UnLz4
  <2>1. At("unlz4") /\ \E r : MoveAsOk(r, "restore")
    BY <1>8, ReferenceNames DEF Reference!UnLz4
  <2> QED
    BY ONLY <2>1, ProcessInv, Stages, CallAdvances
<1>9. CASE Reference!Restore
  <2>1. At("restore") /\ \E r : MoveAsOk(r, "expand")
    BY <1>9, ReferenceNames DEF Reference!Restore
  <2> QED
    BY ONLY <2>1, ProcessInv, Stages, CallAdvances
<1>10. CASE Reference!Expand
  <2>1. At("expand") /\ \E s : Step("print", s)
    BY <1>10, ReferenceNames DEF Reference!Expand
  <2> QED
    BY ONLY <2>1, Stages, StepAdvances
<1>11. CASE Reference!PrintResult
  <2>1. child.state = "running" /\ \E c, o : Exit(c, o)
    BY <1>11, ReferenceNames DEF Reference!PrintResult, At
  <2> QED
    BY ONLY <2>1, ProcessInv, ExitAdvances
<1> QED
  BY ONLY Reference!Work, <1>1, <1>2, <1>3, <1>4, <1>5, <1>6, <1>7, <1>8, <1>9, <1>10, <1>11 DEF Reference!Work

\* Any of them, and an allocation that fails ends it.
LEMMA WorkAdvances ==
  ASSUME ProcessInv, Work \/ BadAlloc, prog' = prog
  PROVE  Advance
<1>1. CASE Work
  BY <1>1, GzipAdvances, ExampleAdvances, ReferenceAdvances DEF Work
<1>2. CASE BadAlloc
  BY <1>2, StarvedKeeps, ExitAdvances
<1> QED
  BY <1>1, <1>2
=============================================================================
