----------------------- MODULE SolutionTests_proofs -------------------------
(***************************************************************************)
(* The script and its solution never disagree about a block: verdicts, for *)
(* every listing, every set of blocks and every choice of programs.        *)
(***************************************************************************)
EXTENDS SolutionTests, Solutions_proofs

\* The script's own variables.
ScriptType ==
  /\ tests \in Listings
  /\ phase \in {"next", "compress", "decompress"} \cup Script!Stopped
  /\ compressed_block \in AllTexts
  /\ report \in Seq(Script!RowType) /\ Len(report) <= Len(tests)

\* There is a process exactly while a test runs, and what strikes strikes in it.
HurtInv ==
  /\ child.state = "none" <=> phase \notin {"compress", "decompress"}
  /\ hurt \subseteq 1 .. Script!test
  /\ phase \notin {"compress", "decompress"} => hurt \subseteq 1 .. Len(report)

\* The second process of a test is given what the solution made of the block,
\* or nothing if gzip did not shrink that or something struck.
Packed ==
  \/ /\ compressed_block = EmptyText
     /\ Script!test \notin hurt =>
          prog = "gzip" /\ \E b \in Blocks \ GzFits : \E m \in Modes :
                             Script!original_block = Text(Boc(b, m))
  \/ \E b \in Blocks :
       /\ \E m \in Modes : Script!original_block = Text(Boc(b, m))
       /\ compressed_block = Text(Form(prog, b)) /\ (prog = "gzip" => b \in GzFits)

\* The process was given this test's block, or what was made of it.
TestInv ==
  /\ phase \in {"compress", "decompress"} =>
       Script!test <= Len(tests) /\ Script!AcceptableBlock
  /\ phase = "compress" => child.mode = "compress" /\ child.text = Script!original_block
  /\ phase = "decompress" =>
       /\ child.mode = "decompress" /\ child.text = compressed_block
       /\ Script!compressed_size <= Script!MaxBlock
       /\ Packed

\* What nothing struck answered.
AnswerInv == child.state # "none" /\ Script!test \notin hurt => Answered

IInv == ProcessInv /\ ScriptType /\ HurtInv /\ TestInv /\ AnswerInv /\ PassIffFits

-----------------------------------------------------------------------------
(* Texts in the pipe.                                                      *)

\* KiB that a text decodes to.
Size64(t) ==
  CASE t.text = "base64" -> SizeOf(t.of) [] t.text = "none" -> 0 [] OTHER -> -1

\* What a solution prints has the size that the library makes of it.
LEMMA FormSizes ==
  ASSUME NEW b \in Blocks, NEW p
  PROVE  /\ Text(Form(p, b)) \in AllTexts /\ Size64(Text(Form(p, b))) = PackedSize[b]
         /\ Canonical(b) \in AllTexts /\ Size64(Canonical(b)) = BocSize[b][31]
         /\ PackedSize[b] \in Nat \ {0} /\ BocSize[b][31] \in Nat \ {0}
<1>1. Text(PlainForm(b)) \in AllTexts /\ Text(GzipForm(b)) \in AllTexts
      /\ Canonical(b) \in AllTexts
  BY DEF AllTexts
<1>2. SizeOf(PlainForm(b)) = PackedSize[b] /\ SizeOf(GzipForm(b)) = PackedSize[b]
  <2>1. Boc(b, 2).root = b
    BY Kinds
  <2>2. SizeOf(PlainForm(b)) = PackedSize[PlainForm(b).of.root]
    BY Forms DEF SizeOf
  <2>3. SizeOf(GzipForm(b)) = PackedSize[GzipForm(b).of.of.root]
    BY Forms DEF SizeOf
  <2> QED
    BY <2>1, <2>2, <2>3, Forms
<1>3. SizeOf(Boc(b, 31)) = BocSize[b][31]
  BY Kinds DEF SizeOf
<1>4. \A s : Size64(Text(s)) = SizeOf(s)
  BY Texts DEF Size64
<1>5. PackedSize[b] \in Nat \ {0} /\ BocSize[b][31] \in Nat \ {0}
  <2>1. 31 \in Modes
    BY DEF Modes
  <2> QED
    BY ONLY <2>1, LibAssumption, b \in Blocks
<1> QED
  BY <1>1, <1>2, <1>3, <1>4, <1>5 DEF Form, Canonical

\* Every text has a size, or is no base64; only no text has none.
LEMMA TextSizes ==
  ASSUME NEW t \in AllTexts
  PROVE  Size64(t) \in Nat \cup {-1} /\ (Size64(t) = 0 <=> t = EmptyText)
<1>1. CASE t = EmptyText
  BY <1>1, Texts DEF Size64
<1>2. CASE t = BadText
  BY <1>2, Texts DEF Size64
<1>3. CASE t = Text(Noise)
  <2>1. SizeOf(Noise) = 1
    BY Kinds DEF SizeOf
  <2> QED
    BY <1>3, <2>1, Texts DEF Size64
<1>4. ASSUME NEW b \in Blocks, NEW m \in Modes, t = Text(Boc(b, m))
      PROVE  Size64(t) \in Nat \ {0} /\ t # EmptyText
  <2>1. SizeOf(Boc(b, m)) = BocSize[b][m]
    BY Kinds DEF SizeOf
  <2>2. BocSize[b][m] \in Nat \ {0}
    BY ONLY LibAssumption, b \in Blocks, m \in Modes
  <2> QED
    BY <1>4, <2>1, <2>2, Texts DEF Size64
<1>5. ASSUME NEW b \in Blocks, t \in {Canonical(b), Text(PlainForm(b)), Text(GzipForm(b))}
      PROVE  Size64(t) \in Nat \ {0} /\ t # EmptyText
  <2>1. Form("gzip", b) = GzipForm(b) /\ Form("example", b) = PlainForm(b)
    BY DEF Form
  <2>2. t # EmptyText
    BY <1>5, Texts DEF Canonical
  <2> QED
    BY <1>5, <2>1, <2>2, FormSizes
<1>6. Given(t) \/ \E b \in Blocks : t \in {Canonical(b), Text(PlainForm(b)), Text(GzipForm(b))}
  BY TestsAssumption DEF AllTexts, Given
<1> QED
  BY <1>1, <1>2, <1>3, <1>4, <1>5, <1>6 DEF Given

\* The script that runs here meets its own assumption.
LEMMA PipeAssumption ==
  /\ EmptyText \in AllTexts
  /\ [t \in AllTexts |-> Size64(t)] \in [AllTexts -> Nat \cup {Script!None}]
  /\ \A t \in AllTexts : Size64(t) = 0 <=> t = EmptyText
  /\ {0, 1, SigAbrt} \subseteq Int
  /\ Listings \subseteq Seq(AllTexts)
<1>1. EmptyText \in AllTexts /\ TestFiles \subseteq AllTexts
  BY DEF AllTexts
<1>2. [t \in AllTexts |-> Size64(t)] \in [AllTexts -> Nat \cup {Script!None}]
  BY TextSizes DEF Script!None
<1>3. ASSUME NEW l \in Listings
      PROVE  l \in Seq(AllTexts)
  <2>1. l \in Seq(TestFiles)
    BY TestsAssumption
  <2> QED
    BY ONLY <1>1, <2>1
<1> QED
  BY <1>1, <1>2, <1>3, TextSizes DEF SigAbrt

\* The block of the current test is one of the test files.
LEMMA Original ==
  ASSUME ScriptType, Script!test <= Len(tests)
  PROVE  /\ Script!original_block \in TestFiles /\ Script!original_block \in AllTexts
         /\ Given(Script!original_block)
<1>1. tests \in Seq(TestFiles) /\ Len(report) \in Nat
  BY TestsAssumption DEF ScriptType
<1>2. Script!test \in 1 .. Len(tests)
  BY <1>1 DEF Script!test
<1>3. Script!original_block \in TestFiles
  <2>1. tests[Script!test] \in TestFiles
    BY ONLY <1>1, <1>2
  <2> QED
    BY <2>1 DEF Script!original_block
<1> QED
  BY <1>3, TestsAssumption DEF AllTexts

\* What the script says of sizes.
LEMMA ScriptSizes ==
  /\ Script!original_block \in AllTexts =>
       (Script!AcceptableBlock <=>
          /\ Script!original_block # EmptyText
          /\ Size64(Script!original_block) # -1 /\ Size64(Script!original_block) <= 2048)
  /\ compressed_block \in AllTexts => Script!compressed_size = Size64(compressed_block)
  /\ Script!MaxBlock = 2048
<1>1. Script!original_block \in AllTexts =>
       (Script!AcceptableBlock <=>
          /\ Script!original_block # EmptyText
          /\ Size64(Script!original_block) # -1 /\ Size64(Script!original_block) <= 2048)
  BY DEF Script!AcceptableBlock, Script!None, Script!MaxBlock, Size64
<1>2. compressed_block \in AllTexts => Script!compressed_size = Size64(compressed_block)
  BY DEF Script!compressed_size, Size64
<1> QED
  BY <1>1, <1>2 DEF Script!MaxBlock

-----------------------------------------------------------------------------
(* A process and its test.                                                 *)

\* A block that the solution can carry is one that the script accepts.
LEMMA AbleAccepted ==
  ASSUME ScriptType, Script!test <= Len(tests), Script!original_block \in Able(prog)
  PROVE  Script!AcceptableBlock
<1>1. PICK b \in Blocks : Script!original_block = Canonical(b) /\ Fits(prog, b)
  BY DEF Able
<1>2. Script!original_block \in AllTexts /\ Size64(Canonical(b)) = BocSize[b][31]
      /\ BocSize[b][31] \in Nat
  BY Original, FormSizes
<1>3. BocSize[b][31] <= 2048
  <2>1. SizeOf(Canonical(b).of) <= 2048
    BY <1>1, ScriptSizes DEF Fits
  <2>2. SizeOf(Canonical(b).of) = Size64(Canonical(b))
    BY Texts DEF Size64, Canonical
  <2> QED
    BY <1>2, <2>1, <2>2
<1>4. Canonical(b) # EmptyText
  BY Texts DEF Canonical
<1>5. Size64(Canonical(b)) # -1
  BY <1>2
<1> QED
  BY <1>1, <1>2, <1>3, <1>4, <1>5, ScriptSizes

\* The texts of a block name it.
LEMMA SameBlock ==
  ASSUME NEW b, NEW c
  PROVE  /\ \A m, n : Text(Boc(b, m)) = Text(Boc(c, n)) => b = c
         /\ \A p : Text(Form(p, b)) = Text(Form(p, c)) => b = c
<1>1. ASSUME NEW m, NEW n, Text(Boc(b, m)) = Text(Boc(c, n))
      PROVE  b = c
  <2>1. Text(Boc(b, m)).of = Boc(b, m) /\ Text(Boc(c, n)).of = Boc(c, n)
    BY Texts
  <2>2. Boc(b, m).root = b /\ Boc(c, n).root = c
    BY Kinds
  <2> QED
    BY ONLY <1>1, <2>1, <2>2
<1>2. ASSUME NEW p, Text(Form(p, b)) = Text(Form(p, c))
      PROVE  b = c
  <2>1. Text(Form(p, b)).of = Form(p, b) /\ Text(Form(p, c)).of = Form(p, c)
    BY Texts
  <2>2. Form(p, b) = Form(p, c)
    BY ONLY <1>2, <2>1
  <2>3. /\ PlainForm(b).of = Boc(b, 2) /\ PlainForm(c).of = Boc(c, 2)
        /\ GzipForm(b).of.of = Boc(b, 2) /\ GzipForm(c).of.of = Boc(c, 2)
    BY Forms
  <2>4. Boc(b, 2) = Boc(c, 2)
    BY ONLY <2>2, <2>3 DEF Form
  <2>5. Boc(b, 2).root = b /\ Boc(c, 2).root = c
    BY Kinds
  <2> QED
    BY ONLY <2>4, <2>5
<1> QED
  BY ONLY <1>1, <1>2

\* The first process of a test is given every block that the solution can carry.
LEMMA AbleCompress ==
  ASSUME IInv, phase = "compress", Script!original_block \in Able(prog)
  PROVE  \E b \in Blocks : Script!original_block = Canonical(b) /\ Fits(prog, b) /\ Carried(b)
<1>1. PICK b \in Blocks : Script!original_block = Canonical(b) /\ Fits(prog, b)
  BY DEF Able
<1>2. child.mode = "compress" /\ child.text = Text(Boc(b, 31))
  BY <1>1 DEF IInv, TestInv, Canonical
<1>3. OfBlock(b)
  BY <1>2 DEF OfBlock, Modes
<1> QED
  BY <1>1, <1>2, <1>3 DEF Carried, Fits

\* The second one is given what was made of it, unless something struck.
LEMMA AbleDecompress ==
  ASSUME IInv, phase = "decompress", Script!original_block \in Able(prog), Script!test \notin hurt
  PROVE  \E b \in Blocks : Script!original_block = Canonical(b) /\ Carried(b)
<1>1. PICK b \in Blocks : Script!original_block = Canonical(b) /\ Fits(prog, b)
  BY DEF Able
<1>2. child.mode = "decompress" /\ child.text = compressed_block /\ Packed
  BY DEF IInv, TestInv
<1>3. ASSUME NEW c \in Blocks, NEW m \in Modes, Script!original_block = Text(Boc(c, m))
      PROVE  c = b
  BY <1>1, <1>3, SameBlock DEF Canonical
<1>4. PICK c \in Blocks :
        /\ \E m \in Modes : Script!original_block = Text(Boc(c, m))
        /\ compressed_block = Text(Form(prog, c))
  BY <1>1, <1>2, <1>3 DEF Packed, Fits
<1>5. c = b
  BY <1>3, <1>4
<1> QED
  BY <1>1, <1>2, <1>4, <1>5 DEF Carried, Fits

\* A compressor that nothing struck prints every block that the solution can carry.
LEMMA AblePrinted ==
  ASSUME IInv, phase = "compress", child.state = "exited",
         Script!original_block \in Able(prog), Script!test \notin hurt
  PROVE  child.code = 0 /\ child.stdout # EmptyText
         /\ child.stdout \in AllTexts /\ 0 <= Size64(child.stdout) /\ Size64(child.stdout) <= 2048
<1>1. PICK b \in Blocks : Script!original_block = Canonical(b) /\ Fits(prog, b) /\ Carried(b)
  BY AbleCompress
<1>2. Answered /\ Printed /\ child.mode = "compress" /\ child.text = Text(Boc(b, 31))
  BY <1>1 DEF IInv, AnswerInv, ProcessInv, TestInv, Canonical
<1>3. child.stdout # EmptyText
  BY <1>1, <1>2 DEF Answered
<1>4. PICK c \in Blocks : Carried(c) /\ child.stdout = Due(c)
  BY <1>2, <1>3 DEF Printed
<1>5. \E m : child.text = Text(Boc(c, m))
  BY <1>2, <1>4 DEF Carried, OfBlock
<1>6. c = b
  BY <1>2, <1>5, SameBlock
<1>7. child.stdout = Text(Form(prog, b))
  BY <1>2, <1>4, <1>6 DEF Due
<1>8. Size64(child.stdout) = PackedSize[b] /\ PackedSize[b] \in Nat /\ child.stdout \in AllTexts
  BY <1>7, FormSizes
<1>9. PackedSize[b] <= 2048
  BY <1>1, ScriptSizes DEF Fits
<1> QED
  BY <1>2, <1>3, <1>8, <1>9 DEF Printed

\* A decompressor that nothing struck prints it again.
LEMMA AbleRestored ==
  ASSUME IInv, phase = "decompress", child.state = "exited",
         Script!original_block \in Able(prog), Script!test \notin hurt
  PROVE  child.code = 0 /\ child.stdout = Script!original_block
<1>1. PICK b \in Blocks : Script!original_block = Canonical(b) /\ Carried(b)
  BY AbleDecompress
<1>2. Answered /\ Printed /\ child.mode = "decompress"
  BY DEF IInv, AnswerInv, ProcessInv, TestInv
<1>3. child.stdout # EmptyText
  BY <1>1, <1>2 DEF Answered
<1>4. PICK c \in Blocks : Carried(c) /\ child.stdout = Due(c) /\ child.code = 0
  BY <1>2, <1>3 DEF Printed
<1>5. Text(Form(prog, b)) = Text(Form(prog, c))
  BY <1>1, <1>2, <1>4 DEF Carried
<1>6. c = b
  BY <1>5, SameBlock
<1> QED
  BY <1>1, <1>2, <1>4, <1>6 DEF Due

\* Whatever struck, a block that comes back is one that the solution can carry.
LEMMA RestoredAble ==
  ASSUME IInv, phase = "decompress", child.state = "exited",
         child.stdout = Script!original_block
  PROVE  Script!original_block \in Able(prog)
<1>1. /\ Printed /\ child.mode = "decompress" /\ child.text = compressed_block /\ Packed
      /\ Script!compressed_size <= Script!MaxBlock /\ compressed_block \in AllTexts
      /\ Script!test <= Len(tests) /\ Script!AcceptableBlock
  BY DEF IInv, ProcessInv, TestInv, ScriptType
<1>2. Script!original_block \in AllTexts
  BY <1>1, Original DEF IInv
<1>3. Script!original_block # EmptyText /\ Size64(Script!original_block) <= 2048
  BY <1>1, <1>2, ScriptSizes
<1>4. PICK b \in Blocks : Carried(b) /\ child.stdout = Due(b)
  BY <1>1, <1>3 DEF Printed
<1>5. /\ Script!original_block = Canonical(b)
      /\ compressed_block = Text(Form(prog, b)) /\ SizeOf(Boc(b, 2)) <= Limit(prog)
  BY <1>1, <1>4 DEF Due, Carried
<1>6. SizeOf(Canonical(b).of) <= 2048
  <2>1. Size64(Canonical(b)) = SizeOf(Canonical(b).of)
    BY Texts DEF Size64, Canonical
  <2> QED
    BY <1>3, <1>5, <2>1
<1>7. PackedSize[b] <= 2048
  BY <1>1, <1>5, FormSizes, ScriptSizes
<1>8. prog = "gzip" => b \in GzFits
  <2>1. compressed_block # EmptyText
    BY <1>5, Texts
  <2>2. PICK c \in Blocks : compressed_block = Text(Form(prog, c)) /\ (prog = "gzip" => c \in GzFits)
    BY <1>1, <2>1 DEF Packed
  <2>3. c = b
    BY <1>5, <2>2, SameBlock
  <2> QED
    BY <2>2, <2>3
<1>9. Fits(prog, b)
  BY <1>5, <1>6, <1>7, <1>8, ScriptSizes DEF Fits
<1> QED
  BY <1>5, <1>9 DEF Able

-----------------------------------------------------------------------------
(* The invariant.                                                          *)

\* Script and solution call a process by the same names.
LEMMA ScriptNames ==
  ASSUME NEW mode, NEW text
  PROVE  Script!NoChild = NoChild /\ Script!Spawned(mode, text) = Spawned(mode, text)
BY DEF Script!NoChild, NoChild, Script!Spawned, Spawned

\* The state before the first test.
LEMMA InitEstablishes ==
  ASSUME Init
  PROVE  IInv
<1>1. /\ prog \in Programs /\ hurt = {} /\ tests \in Listings /\ phase = "next"
      /\ compressed_block = EmptyText /\ report = <<>>
      /\ child = NoChild /\ i = 0 /\ frames = <<>>
  BY DEF Init, Script!Init, ProcessInit
<1>2. child.state = "none" /\ ChildRecord
  BY <1>1 DEF NoChild, ChildRecord
<1>3. ProcessInv
  BY <1>1, <1>2, ProgramsAssumption DEF ProcessInv, MemoryType, Printed
<1>4. tests \in Seq(TestFiles)
  BY <1>1, TestsAssumption
<1>5. report \in Seq(Script!RowType) /\ Len(report) = 0 /\ DOMAIN report = {}
  BY <1>1
<1>6. ScriptType
  BY <1>1, <1>4, <1>5, PipeAssumption DEF ScriptType
<1> QED
  BY <1>1, <1>2, <1>3, <1>5, <1>6
     DEF IInv, HurtInv, TestInv, AnswerInv, PassIffFits, Script!Stopped

\* The tests that came before keep their verdicts, and the new row is right.
LEMMA RowEnds ==
  ASSUME IInv, phase \in {"compress", "decompress"}, NEW row \in Script!RowType,
         report' = Append(report, row), phase' = "next", child' = NoChild,
         UNCHANGED <<tests, compressed_block, memory, prog>>,
         hurt' \in {hurt, hurt \cup {Script!test}},
         Script!test \notin hurt' => (row.tag = "OK" <=> Script!original_block \in Able(prog))
  PROVE  IInv'
<1>1. report \in Seq(Script!RowType) /\ Len(report) \in Nat /\ Len(report) + 1 <= Len(tests)
      /\ Script!test = Len(report) + 1
  BY DEF IInv, ScriptType, TestInv, Script!test
<1>2. /\ report' \in Seq(Script!RowType) /\ Len(report') = Len(report) + 1
      /\ DOMAIN report' = 1 .. Len(report) + 1
      /\ report'[Len(report) + 1] = row
      /\ \A k \in 1 .. Len(report) : report'[k] = report[k]
  BY ONLY <1>1, row \in Script!RowType, report' = Append(report, row), AppendProperties
<1>3. ProcessInv'
  BY NoProcess DEF IInv
<1>4. ScriptType'
  BY <1>1, <1>2 DEF IInv, ScriptType
<1>5. child'.state = "none"
  BY DEF NoChild
<1>6. HurtInv'
  <2>1. hurt \subseteq 1 .. Script!test
    BY DEF IInv, HurtInv
  <2>2. hurt' \subseteq 1 .. Len(report')
    BY ONLY <1>1, <1>2, <2>1, hurt' \in {hurt, hurt \cup {Script!test}}
  <2>3. Script!test' = Len(report') + 1 /\ Len(report') \in Nat
    BY <1>1, <1>2 DEF Script!test
  <2>4. hurt' \subseteq 1 .. Script!test'
    BY ONLY <2>2, <2>3
  <2> QED
    BY <1>5, <2>2, <2>4 DEF HurtInv
<1>7. TestInv'
  BY DEF TestInv
<1>8. AnswerInv'
  BY <1>5 DEF AnswerInv
<1>9. PassIffFits'
  <2> SUFFICES ASSUME NEW k \in DOMAIN report', k \notin hurt'
               PROVE  report'[k].tag = "OK" <=> tests[k] \in Able(prog)
    BY DEF PassIffFits, Able, Fits, Script!MaxBlock
  <2>1. CASE k = Len(report) + 1
    BY <1>1, <1>2, <2>1 DEF Script!original_block
  <2>2. CASE k \in 1 .. Len(report)
    <3>1. k \in DOMAIN report \ hurt
      BY <1>1, <2>2
    <3>2. report[k].tag = "OK" <=> tests[k] \in Able(prog)
      BY <3>1 DEF IInv, PassIffFits
    <3> QED
      BY <1>2, <2>2, <3>2
  <2> QED
    BY ONLY <1>1, <1>2, <2>1, <2>2
<1> QED
  BY <1>3, <1>4, <1>6, <1>7, <1>8, <1>9 DEF IInv

\* Rows of the script are rows.
LEMMA Rows ==
  ASSUME NEW tag \in {"TL", "RE", "PE", "WA", "OK"}, NEW size \in Nat \cup {-1}
  PROVE  /\ Script!Row(tag, size) \in Script!RowType /\ Script!Row(tag, size).tag = tag
BY DEF Script!Row, Script!RowType, Script!Tags, Script!None

\* Starting a process for a test.
LEMMA TestStarts ==
  ASSUME IInv, Script!StartCompress, hurt' = hurt, UNCHANGED <<memory, prog>>
  PROVE  IInv'
<1>1. /\ phase = "next" /\ Script!test <= Len(tests) /\ Script!AcceptableBlock
      /\ phase' = "compress" /\ child' = Spawned("compress", Script!original_block)
      /\ UNCHANGED <<tests, compressed_block, report>>
  BY ScriptNames DEF Script!StartCompress
<1>2. Known(Script!original_block)
  BY <1>1, Original DEF IInv, Known
<1>3. /\ ProcessInv'
      /\ child'.state = "spawned" /\ child'.mode = "compress"
      /\ child'.text = Script!original_block
  BY <1>1, <1>2, NewProcess DEF IInv, ProcessInv
<1>4. Script!test' = Script!test /\ Script!original_block' = Script!original_block
      /\ (Script!AcceptableBlock' <=> Script!AcceptableBlock)
  BY <1>1 DEF Script!test, Script!original_block, Script!AcceptableBlock
<1>5. ScriptType'
  BY <1>1 DEF IInv, ScriptType
<1>6. HurtInv'
  <2>1. hurt \subseteq 1 .. Script!test
    BY DEF IInv, HurtInv
  <2> QED
    BY <1>1, <1>3, <1>4, <2>1 DEF HurtInv
<1>7. TestInv'
  BY <1>1, <1>3, <1>4 DEF TestInv
<1>8. AnswerInv'
  BY <1>3 DEF AnswerInv, Answered
<1>9. PassIffFits'
  BY <1>1 DEF IInv, PassIffFits, Able, Fits, Script!MaxBlock
<1> QED
  BY <1>3, <1>5, <1>6, <1>7, <1>8, <1>9 DEF IInv

\* What the first process printed goes to the second.
LEMMA SecondStarts ==
  ASSUME IInv, Script!StartDecompress, hurt' = hurt, UNCHANGED <<memory, prog>>
  PROVE  IInv'
<1>1. /\ phase = "compress" /\ child.state = "exited" /\ child.code = 0
      /\ phase' = "decompress" /\ compressed_block' = child.stdout
      /\ child' = Spawned("decompress", child.stdout)
      /\ UNCHANGED <<tests, report>>
  BY ScriptNames DEF Script!StartDecompress, Script!Measured, Script!Returned
<1>2. /\ Printed /\ child.mode = "compress" /\ child.text = Script!original_block
      /\ Script!test <= Len(tests) /\ Script!AcceptableBlock
  BY <1>1 DEF IInv, ProcessInv, TestInv
<1>3. child.stdout # EmptyText =>
        \E b \in Blocks : Carried(b) /\ child.stdout = Text(Form(prog, b))
  BY <1>1, <1>2 DEF Printed, Due
<1>4. child.stdout \in AllTexts /\ Known(child.stdout)
  BY <1>3, FormSizes DEF AllTexts, Known, Given, Form
<1>5. /\ ProcessInv'
      /\ child'.state = "spawned" /\ child'.mode = "decompress" /\ child'.text = child.stdout
  BY <1>1, <1>4, NewProcess DEF IInv, ProcessInv
<1>6. Script!test' = Script!test /\ Script!original_block' = Script!original_block
      /\ (Script!AcceptableBlock' <=> Script!AcceptableBlock)
  BY <1>1 DEF Script!test, Script!original_block, Script!AcceptableBlock
<1>7. ScriptType'
  BY <1>1, <1>4 DEF IInv, ScriptType, Script!Stopped
<1>8. HurtInv'
  <2>1. hurt \subseteq 1 .. Script!test
    BY DEF IInv, HurtInv
  <2> QED
    BY <1>1, <1>5, <1>6, <2>1 DEF HurtInv
<1>9. Packed'
  <2>1. CASE child.stdout = EmptyText
    <3>1. ASSUME Script!test \notin hurt
          PROVE  prog = "gzip" /\ \E b \in Blocks \ GzFits : \E m \in Modes :
                                     Script!original_block = Text(Boc(b, m))
      <4>1. Answered
        BY <1>1, <3>1 DEF IInv, AnswerInv
      <4>2. Unshrunk
        BY <1>1, <1>2, <2>1, <4>1, Original DEF Answered, Excused, Misused, SigAbrt, Script!AcceptableBlock
      <4> QED
        BY <1>2, <4>2 DEF Unshrunk, OfBlock
    <3> QED
      BY <1>1, <1>6, <2>1, <3>1 DEF Packed
  <2>2. CASE child.stdout # EmptyText
    <3>1. PICK b \in Blocks : Carried(b) /\ child.stdout = Text(Form(prog, b))
      BY <1>3, <2>2
    <3>2. OfBlock(b) /\ (prog = "gzip" => b \in GzFits)
      BY <1>2, <3>1 DEF Carried
    <3>3. \E m \in Modes : Script!original_block = Text(Boc(b, m))
      BY <1>2, <3>2 DEF OfBlock
    <3> QED
      BY <1>1, <1>6, <3>1, <3>2, <3>3 DEF Packed
  <2> QED
    BY <2>1, <2>2
<1>10. Script!compressed_size' <= Script!MaxBlock'
  <2>1. [t \in AllTexts |->
          CASE t.text = "base64" -> SizeOf(t.of) [] t.text = "none" -> 0 [] OTHER -> -1
        ][child.stdout] <= Script!MaxBlock
    BY DEF Script!StartDecompress
  <2>2. Size64(child.stdout) <= 2048
    BY <1>4, <2>1, ScriptSizes DEF Size64
  <2>3. Script!compressed_size' = Size64(child.stdout)
    BY <1>1, <1>4 DEF Script!compressed_size, Size64
  <2> QED
    BY <2>2, <2>3 DEF Script!MaxBlock
<1>11. TestInv'
  BY <1>1, <1>2, <1>5, <1>6, <1>9, <1>10 DEF TestInv
<1>12. AnswerInv'
  BY <1>5 DEF AnswerInv, Answered
<1>13. PassIffFits'
  BY <1>1 DEF IInv, PassIffFits, Able, Fits, Script!MaxBlock
<1> QED
  BY <1>5, <1>7, <1>8, <1>11, <1>12, <1>13 DEF IInv

\* The script stops between tests.
LEMMA ScriptStops ==
  ASSUME IInv, phase = "next", phase' \in Script!Stopped, hurt' = hurt,
         UNCHANGED <<tests, child, compressed_block, report, memory, prog>>
  PROVE  IInv'
<1>1. child.state = "none" /\ phase' \notin {"next", "compress", "decompress"}
  BY DEF IInv, HurtInv, Script!Stopped
<1>2. ProcessInv'
  <2>1. child'.state = "none" /\ ChildRecord' /\ MemoryType'
    BY <1>1 DEF IInv, ProcessInv, ChildRecord, MemoryType, memory
  <2> QED
    BY <2>1 DEF IInv, ProcessInv, Printed
<1>3. ScriptType'
  BY DEF IInv, ScriptType
<1>4. HurtInv'
  BY <1>1 DEF IInv, HurtInv, Script!test
<1>5. TestInv' /\ AnswerInv'
  BY <1>1 DEF TestInv, AnswerInv
<1>6. PassIffFits'
  BY DEF IInv, PassIffFits, Able, Fits, Script!MaxBlock
<1> QED
  BY <1>2, <1>3, <1>4, <1>5, <1>6 DEF IInv

\* A row that says that a test did not pass is right.
LEMMA TestFails ==
  ASSUME IInv, NEW tag \in {"TL", "RE", "PE", "WA"}, NEW size \in Nat \cup {-1},
         phase \in {"compress", "decompress"}, Script!Fails(tag, size),
         UNCHANGED <<memory, prog>>, hurt' \in {hurt, hurt \cup {Script!test}},
         Script!test \notin hurt' => Script!original_block \notin Able(prog)
  PROVE  IInv'
<1> DEFINE row == Script!Row(tag, size)
<1>1. row \in Script!RowType /\ row.tag = tag /\ tag # "OK"
  BY Rows
<1>2. /\ report' = Append(report, row) /\ phase' = "next" /\ child' = NoChild
      /\ UNCHANGED <<tests, compressed_block>>
  BY ScriptNames DEF Script!Fails
<1> HIDE DEF row
<1> QED
  BY <1>1, <1>2, RowEnds

\* A step of the script.
LEMMA ScriptKeeps ==
  ASSUME IInv, ScriptStep
  PROVE  IInv'
<1>1. /\ Script!Harness /\ UNCHANGED <<memory, prog>>
      /\ hurt' = IF child.state \in {"spawned", "running"} THEN hurt \cup {Script!test} ELSE hurt
  BY DEF ScriptStep
<1>2. child.state \in {"none", "exited"} => hurt' = hurt
  BY <1>1
<1>3. child.state \in {"spawned", "running"} => Script!test \in hurt'
  BY <1>1
<1>4. hurt' \in {hurt, hurt \cup {Script!test}}
  BY <1>1
<1>5. child.state = "none" <=> phase \notin {"compress", "decompress"}
  BY DEF IInv, HurtInv
<1>6. -1 \in Nat \cup {-1}
  OBVIOUS
<1>7. Script!compressed_size \in Nat \cup {-1}
  BY TextSizes, ScriptSizes DEF IInv, ScriptType
<1>8. CASE Script!NoTests \/ Script!BadTestFile \/ Script!PrintTotals
  <2>1. /\ phase = "next" /\ phase' \in Script!Stopped
        /\ UNCHANGED <<tests, child, compressed_block, report>>
    BY <1>8 DEF Script!NoTests, Script!BadTestFile, Script!PrintTotals, Script!Raise, Script!Stopped
  <2>2. hurt' = hurt
    BY <1>2, <1>5, <2>1
  <2> QED
    BY <1>1, <2>1, <2>2, ScriptStops
<1>9. CASE Script!StartCompress
  <2>1. hurt' = hurt
    BY <1>2, <1>5, <1>9 DEF Script!StartCompress
  <2> QED
    BY <1>1, <1>9, <2>1, TestStarts
<1>10. CASE Script!CompressTimeout
  <2>1. phase = "compress" /\ child.state \in {"spawned", "running"} /\ Script!Fails("TL", -1)
    BY <1>10 DEF Script!CompressTimeout, Script!Waiting, Script!None
  <2> QED
    BY <1>1, <1>3, <1>4, <1>6, <2>1, TestFails
<1>11. CASE Script!UndecodableOutput \/ Script!NotAsciiOutput
  BY <1>11 DEF Script!UndecodableOutput, Script!NotAsciiOutput
<1>12. CASE Script!CompressError
  <2>1. /\ phase = "compress" /\ child.state = "exited" /\ child.code # 0
        /\ Script!Fails("RE", -1)
    BY <1>12 DEF Script!CompressError, Script!Returned, Script!None
  <2>2. Script!test \notin hurt => Script!original_block \notin Able(prog)
    BY <2>1, AblePrinted
  <2> QED
    BY <1>1, <1>2, <1>4, <1>6, <2>1, <2>2, TestFails
<1>13. CASE Script!InvalidBase64 \/ Script!TooBigOutput
  <2>1. phase = "compress" /\ child.state = "exited" /\ Script!Fails("PE", -1)
    BY <1>13 DEF Script!InvalidBase64, Script!TooBigOutput, Script!Measured, Script!Returned,
                 Script!None
  <2>2. child.stdout \in AllTexts => Size64(child.stdout) = -1 \/ Size64(child.stdout) > 2048
    BY <1>13 DEF Script!InvalidBase64, Script!TooBigOutput, Script!None, Script!MaxBlock, Size64
  <2>3. Script!test \notin hurt => Script!original_block \notin Able(prog)
    <3>1. ASSUME Script!test \notin hurt, Script!original_block \in Able(prog)
          PROVE  FALSE
      <4>1. child.stdout \in AllTexts
            /\ 0 <= Size64(child.stdout) /\ Size64(child.stdout) <= 2048
        BY <2>1, <3>1, AblePrinted
      <4>2. Size64(child.stdout) \in Nat \cup {-1}
        BY <4>1, TextSizes
      <4> QED
        BY ONLY <2>2, <4>1, <4>2
    <3> QED
      BY <3>1
  <2> QED
    BY <1>1, <1>2, <1>4, <1>6, <2>1, <2>3, TestFails
<1>14. CASE Script!StartDecompress
  <2>1. hurt' = hurt
    BY <1>2, <1>14 DEF Script!StartDecompress, Script!Measured, Script!Returned
  <2> QED
    BY <1>1, <1>14, <2>1, SecondStarts
<1>15. CASE Script!DecompressTimeout
  <2>1. phase = "decompress" /\ child.state \in {"spawned", "running"}
        /\ Script!Fails("TL", Script!compressed_size)
    BY <1>15 DEF Script!DecompressTimeout, Script!Waiting
  <2> QED
    BY <1>1, <1>3, <1>4, <1>7, <2>1, TestFails
<1>16. CASE Script!DecompressError
  <2>1. /\ phase = "decompress" /\ child.state = "exited" /\ child.code # 0
        /\ Script!Fails("RE", Script!compressed_size)
    BY <1>16 DEF Script!DecompressError, Script!Returned
  <2>2. Script!test \notin hurt => Script!original_block \notin Able(prog)
    BY <2>1, AbleRestored
  <2> QED
    BY <1>1, <1>2, <1>4, <1>7, <2>1, <2>2, TestFails
<1>17. CASE Script!WrongBlock
  <2>1. /\ phase = "decompress" /\ child.state = "exited"
        /\ child.stdout # Script!original_block
        /\ Script!Fails("WA", Script!compressed_size)
    BY <1>17 DEF Script!WrongBlock, Script!Returned
  <2>2. Script!test \notin hurt => Script!original_block \notin Able(prog)
    BY <2>1, AbleRestored
  <2> QED
    BY <1>1, <1>2, <1>4, <1>7, <2>1, <2>2, TestFails
<1>18. CASE Script!Pass
  <2> DEFINE row == Script!Row("OK", Script!compressed_size)
  <2>1. /\ phase = "decompress" /\ child.state = "exited"
        /\ child.stdout = Script!original_block
        /\ report' = Append(report, row) /\ phase' = "next" /\ child' = NoChild
        /\ UNCHANGED <<tests, compressed_block>>
    BY <1>18, ScriptNames DEF Script!Pass, Script!Passes, Script!Returned
  <2>2. row \in Script!RowType /\ row.tag = "OK"
    BY <1>7, Rows
  <2>3. Script!original_block \in Able(prog)
    BY <2>1, RestoredAble
  <2> HIDE DEF row
  <2> QED
    BY <1>1, <1>4, <2>1, <2>2, <2>3, RowEnds
<1> QED
  BY <1>1, <1>8, <1>9, <1>10, <1>11, <1>12, <1>13, <1>14, <1>15, <1>16, <1>17, <1>18
     DEF Script!Harness

\* A step of the process: the script's variables stay, and so does what was
\* given to the process.
LEMMA ProcessKeeps ==
  ASSUME IInv, ProcessInv', UNCHANGED <<script, prog>>,
         child.state # "none", child'.state # "none",
         child'.mode = child.mode, child'.text = child.text,
         \/ hurt' = hurt /\ Answered'
         \/ hurt' = hurt \cup {Script!test}
  PROVE  IInv'
<1>1. UNCHANGED <<tests, phase, compressed_block, report>>
  BY DEF script
<1>2. Script!test' = Script!test /\ Script!original_block' = Script!original_block
      /\ (Script!AcceptableBlock' <=> Script!AcceptableBlock)
      /\ Script!compressed_size' = Script!compressed_size
  BY <1>1 DEF Script!test, Script!original_block, Script!AcceptableBlock, Script!compressed_size
<1>3. ScriptType'
  BY <1>1 DEF IInv, ScriptType
<1>4. hurt \subseteq hurt' /\ hurt' \subseteq hurt \cup {Script!test}
  OBVIOUS
<1>5. phase \in {"compress", "decompress"}
  BY DEF IInv, HurtInv
<1>6. HurtInv'
  <2>1. hurt \subseteq 1 .. Script!test
    BY DEF IInv, HurtInv
  <2>2. Script!test \in 1 .. Script!test
    BY DEF Script!test, IInv, ScriptType
  <2> QED
    BY <1>1, <1>2, <1>4, <1>5, <2>1, <2>2 DEF HurtInv
<1>7. Packed => Packed'
  BY <1>1, <1>2, <1>4 DEF Packed
<1>8. TestInv'
  BY <1>1, <1>2, <1>7 DEF IInv, TestInv, Script!MaxBlock
<1>9. AnswerInv'
  BY <1>2 DEF IInv, AnswerInv
<1>10. PassIffFits'
  BY <1>1, <1>4 DEF IInv, PassIffFits, Able, Fits, Script!MaxBlock
<1> QED
  BY <1>3, <1>6, <1>8, <1>9, <1>10 DEF IInv

\* Every step keeps the invariant.
LEMMA NextKeeps ==
  ASSUME IInv, [Next]_vars
  PROVE  IInv'
<1>1. CASE ScriptStep
  BY <1>1, ScriptKeeps
<1>2. CASE SolutionStep
  <2>1. Work /\ UNCHANGED <<script, prog, hurt>> /\ ProcessInv
    BY <1>2 DEF SolutionStep, IInv
  <2>2. ProcessInv' /\ Answered'
    BY <2>1, WorkKeeps
  <2>3. child.state # "none"
    BY <2>1, WorkAlive
  <2>4. child'.state # "none" /\ child'.mode = child.mode /\ child'.text = child.text
    BY <2>1, <2>3, WorkSeen, SeenFields
  <2> QED
    BY <2>1, <2>2, <2>3, <2>4, ProcessKeeps
<1>3. CASE OutOfMemory
  <2>1. BadAlloc /\ hurt' = hurt \cup {Script!test} /\ UNCHANGED <<script, prog>> /\ ProcessInv
    BY <1>3 DEF OutOfMemory, IInv
  <2>2. ProcessInv' /\ child.state = "running" /\ \E c \in {0, 1, SigAbrt} : Exit(c, EmptyText)
    BY <2>1, StarvedKeeps
  <2>3. child'.state # "none" /\ child'.mode = child.mode /\ child'.text = child.text
    BY <2>1, <2>2, SeenFields
  <2> QED
    BY <2>1, <2>2, <2>3, ProcessKeeps
<1>4. CASE UNCHANGED vars
  <2>1. UNCHANGED <<tests, phase, compressed_block, report, child, pc, buf, i, frames, prog, hurt>>
    BY <1>4 DEF vars, script, memory
  <2>2. ProcessInv' /\ (Answered' <=> Answered)
    BY <2>1, SameProcess DEF IInv, memory
  <2>3. ScriptType' /\ HurtInv' /\ TestInv' /\ PassIffFits'
    BY <2>1 DEF IInv, ScriptType, HurtInv, TestInv, Packed, PassIffFits, Able, Fits,
       Script!test, Script!original_block, Script!AcceptableBlock, Script!compressed_size,
       Script!MaxBlock
  <2>4. AnswerInv'
    BY <2>1, <2>2 DEF IInv, AnswerInv, Script!test
  <2> QED
    BY <2>2, <2>3, <2>4 DEF IInv
<1> QED
  BY <1>1, <1>2, <1>3, <1>4 DEF Next, Terminated

-----------------------------------------------------------------------------
(* What it shows.                                                          *)

\* The invariant holds in every state.
THEOREM Invariance == Spec => []IInv
<1>1. Init => IInv
  BY InitEstablishes
<1>2. IInv /\ [Next]_vars => IInv'
  BY NextKeeps
<1> QED
  BY <1>1, <1>2, PTL DEF Spec

\* A test that nothing struck passes exactly if the solution can carry its
\* block, whatever happened in the tests before.
THEOREM Verdicts == Spec => []PassIffFits
<1>1. IInv => PassIffFits
  BY DEF IInv
<1> QED
  BY <1>1, Invariance, PTL

\* No process prints a block other than the one that its test is about.
THEOREM NoOtherBlock == Spec => []NeverAnotherBlock
<1>1. ASSUME IInv
      PROVE  NeverAnotherBlock
  <2> SUFFICES ASSUME child.state = "exited", child.mode = "decompress",
                      child.stdout # EmptyText,
                      NEW b \in Blocks, Script!original_block = Canonical(b)
               PROVE  child.stdout = Script!original_block
    BY DEF NeverAnotherBlock
  <2>1. phase = "decompress" /\ Printed /\ Packed /\ child.text = compressed_block
    BY <1>1 DEF IInv, HurtInv, TestInv, ProcessInv
  <2>2. PICK c \in Blocks : Carried(c) /\ child.stdout = Due(c)
    BY <2>1 DEF Printed
  <2>3. compressed_block = Text(Form(prog, c)) /\ child.stdout = Canonical(c)
    BY <2>1, <2>2 DEF Carried, Due
  <2>4. compressed_block # EmptyText
    BY <2>3, Texts
  <2>5. PICK d \in Blocks : /\ \E m \in Modes : Script!original_block = Text(Boc(d, m))
                            /\ compressed_block = Text(Form(prog, d))
    BY <2>1, <2>4 DEF Packed
  <2>6. d = b
    BY <2>5, SameBlock DEF Canonical
  <2>7. d = c
    BY <2>3, <2>5, SameBlock
  <2> QED
    BY <2>3, <2>6, <2>7
<1> QED
  BY <1>1, Invariance, PTL

\* The exit code tells whether a block was printed, but for a block that gzip
\* did not shrink.
THEOREM CodeTells == Spec => []CodeTellsOutput
<1>1. ASSUME IInv
      PROVE  CodeTellsOutput
  <2> SUFFICES ASSUME child.state = "exited"
               PROVE  /\ child.stdout # EmptyText => child.code = 0
                      /\ child.stdout = EmptyText /\ Script!test \notin hurt =>
                           \/ child.code # 0
                           \/ /\ prog = "gzip" /\ child.mode = "compress"
                              /\ \E b \in Blocks \ GzFits : \E m \in Modes :
                                   Script!original_block = Text(Boc(b, m))
    BY DEF CodeTellsOutput
  <2>1. Printed
    BY <1>1 DEF IInv, ProcessInv
  <2>2. ASSUME child.stdout = EmptyText, Script!test \notin hurt, child.code = 0
        PROVE  /\ prog = "gzip" /\ child.mode = "compress"
               /\ \E b \in Blocks \ GzFits : \E m \in Modes :
                    Script!original_block = Text(Boc(b, m))
    <3>1. Unshrunk
      BY <1>1, <2>2 DEF IInv, AnswerInv, Answered, Excused, SigAbrt
    <3>2. child.text = Script!original_block
      BY <1>1, <3>1 DEF IInv, HurtInv, TestInv, Unshrunk
    <3> QED
      BY <3>1, <3>2 DEF Unshrunk, OfBlock
  <2> QED
    BY <2>1, <2>2 DEF Printed
<1> QED
  BY <1>1, Invariance, PTL

-----------------------------------------------------------------------------
(* The two specifications that it implements, as far as safety goes.       *)

\* A solution is some process.
LEMMA EndsAsChild ==
  ASSUME ProcessInv, ProcessInv', child.state = "running", UNCHANGED script,
         NEW c, NEW o, Exit(c, o)
  PROVE  Script!ChildExits
<1>1. child'.state = "exited" /\ child'.code = c /\ child'.stdout = o
  BY ExitFields
<1>2. c \in {0, 1, SigAbrt} /\ o \in AllTexts
  <2>1. Printed' /\ prog' \in {"gzip", "example", "reference"}
    BY DEF ProcessInv
  <2>2. child'.code \in {0, 1, SigAbrt} /\ child'.stdout # EmptyText =>
          \E b \in Blocks : child'.stdout \in {Text(Form(prog', b)), Canonical(b)}
    BY <1>1, <2>1 DEF Printed, Due
  <2>3. c \in {0, 1, SigAbrt} /\ o # EmptyText =>
          \E b \in Blocks : o \in {Text(Form(prog', b)), Canonical(b)}
    BY ONLY <1>1, <2>2
  <2>4. EmptyText \in AllTexts
    BY DEF AllTexts
  <2> QED
    BY <1>1, <2>1, <2>3, <2>4, FormSizes DEF Printed
<1>3. child' = [child EXCEPT !.state = "exited", !.code = c, !.stdout = o]
  BY DEF Exit
<1> QED
  BY <1>2, <1>3 DEF Script!ChildExits, Script!harness, script

\* Every step is one of RunTests or changes none of its variables.
LEMMA StepOfRunTests ==
  ASSUME IInv, IInv', [Next]_vars
  PROVE  [Script!Next]_(Script!vars)
<1>1. ProcessInv /\ ProcessInv'
  BY DEF IInv
<1>2. CASE ScriptStep
  BY <1>2 DEF ScriptStep, Script!Next
<1>3. CASE SolutionStep
  <2>1. Work /\ UNCHANGED script
    BY <1>3 DEF SolutionStep
  <2>2. CASE UNCHANGED child
    BY <2>1, <2>2 DEF Script!vars, Script!harness, script
  <2>3. CASE child.state = "spawned" /\ child' = [child EXCEPT !.state = "running"]
    BY <2>1, <2>3 DEF Script!Next, Script!ChildRuns, Script!harness, script
  <2>4. CASE child.state = "running" /\ \E c \in {0, 1, SigAbrt} : \E o : Exit(c, o)
    BY <1>1, <2>1, <2>4, EndsAsChild DEF Script!Next
  <2> QED
    BY <2>1, <2>2, <2>3, <2>4, WorkSeen
<1>4. CASE OutOfMemory
  <2>1. BadAlloc /\ UNCHANGED <<script, prog>>
    BY <1>4 DEF OutOfMemory
  <2>2. child.state = "running" /\ \E c \in {0, 1, SigAbrt} : Exit(c, EmptyText)
    BY <1>1, <2>1, StarvedKeeps
  <2> QED
    BY <1>1, <2>1, <2>2, EndsAsChild DEF Script!Next
<1>5. CASE UNCHANGED vars
  BY <1>5 DEF vars, script, Script!vars, Script!harness
<1> QED
  BY <1>2, <1>3, <1>4, <1>5 DEF Next, Terminated

\* The script over a solution takes only steps that RunTests takes over an
\* arbitrary process (ImplementsRunTests without its fairness).
THEOREM StepsOfRunTests == Spec => Script!Init /\ [][Script!Next]_(Script!vars)
<1>1. Init => Script!Init
  BY DEF Init
<1>2. IInv /\ IInv' /\ [Next]_vars => [Script!Next]_(Script!vars)
  BY StepOfRunTests
<1> QED
  BY <1>1, <1>2, Invariance, PTL DEF Spec

\* The verdicts of rows.
VerdictsOf(rows) == [k \in DOMAIN rows |-> rows[k].tag = "OK"]

\* A row more is a verdict more.
LEMMA VerdictMore ==
  ASSUME NEW R, NEW r \in Seq(R), NEW row \in R
  PROVE  /\ VerdictsOf(r) \in Seq(BOOLEAN) /\ Len(VerdictsOf(r)) = Len(r)
         /\ VerdictsOf(Append(r, row)) = Append(VerdictsOf(r), row.tag = "OK")
<1> DEFINE n == Len(r)
           a == Append(r, row)
           V == [k \in DOMAIN r |-> r[k].tag = "OK"]
           W == [k \in DOMAIN a |-> a[k].tag = "OK"]
           e == row.tag = "OK"
<1>1. n \in Nat /\ DOMAIN r = 1 .. n
  BY LenProperties
<1>2. DOMAIN a = 1 .. n + 1 /\ a[n + 1] = row /\ \A k \in 1 .. n : a[k] = r[k]
  BY <1>1, AppendProperties
<1>3. V \in [1 .. n -> BOOLEAN]
  BY <1>1
<1>4. W \in [1 .. n + 1 -> BOOLEAN]
  BY <1>2
<1>5. \A k \in 1 .. n : W[k] = V[k]
  <2> SUFFICES ASSUME NEW k \in 1 .. n
               PROVE  W[k] = V[k]
    OBVIOUS
  <2>1. k \in DOMAIN a /\ k \in DOMAIN r /\ a[k] = r[k]
    BY <1>1, <1>2
  <2> QED
    BY ONLY <2>1
<1>6. W[n + 1] = e
  <2>1. n + 1 \in DOMAIN a /\ a[n + 1] = row
    BY <1>1, <1>2
  <2> QED
    BY ONLY <2>1
<1>7. e \in BOOLEAN
  OBVIOUS
<1> HIDE DEF V, W, e
<1>8. V \in Seq(BOOLEAN) /\ Len(V) = n
  BY ONLY <1>1, <1>3
<1>9. W \in Seq(BOOLEAN) /\ Len(W) = n + 1
  BY ONLY <1>1, <1>4
<1>10. /\ Append(V, e) \in Seq(BOOLEAN) /\ Len(Append(V, e)) = n + 1
       /\ Append(V, e)[n + 1] = e
       /\ \A k \in 1 .. n : Append(V, e)[k] = V[k]
  BY ONLY <1>1, <1>7, <1>8, AppendProperties
<1>11. \A k \in 1 .. n + 1 : W[k] = Append(V, e)[k]
  <2> SUFFICES ASSUME NEW k \in 1 .. n + 1
               PROVE  W[k] = Append(V, e)[k]
    OBVIOUS
  <2>1. CASE k \in 1 .. n
    BY ONLY <2>1, <1>5, <1>10
  <2>2. CASE k = n + 1
    BY ONLY <2>2, <1>6, <1>10
  <2>3. k \in 1 .. n \/ k = n + 1
    BY ONLY k \in 1 .. n + 1, <1>1
  <2> QED
    BY ONLY <2>1, <2>2, <2>3
<1>12. W = Append(V, e)
  BY ONLY <1>9, <1>10, <1>11, SeqEqual
<1> QED
  BY <1>8, <1>12 DEF VerdictsOf, V, W, e

\* A row is a verdict that the solution is able to get.
LEMMA RowJudges ==
  ASSUME IInv, phase \in {"compress", "decompress"}, NEW row \in Script!RowType,
         report' = Append(report, row), phase' = "next", UNCHANGED <<tests, prog>>,
         row.tag = "OK" => Script!original_block \in Able(prog)
  PROVE  Scores!Next
<1>1. VerdictsOf(report) \in Seq(BOOLEAN) /\ Len(VerdictsOf(report)) = Len(report)
      /\ VerdictsOf(report') = Append(VerdictsOf(report), row.tag = "OK")
  BY VerdictMore DEF IInv, ScriptType
<1>2. phase \notin Script!Stopped /\ phase' \notin Script!Stopped
  BY DEF Script!Stopped
<1>3. Script!test = Len(report) + 1 /\ Script!test <= Len(tests) /\ Len(report) \in Nat
      /\ Len(tests) \in Nat
  <2>1. tests \in Seq(TestFiles)
    BY TestsAssumption DEF IInv, ScriptType
  <2> QED
    BY <2>1 DEF IInv, TestInv, ScriptType, Script!test
<1>4. Able(prog)' = Able(prog)
  BY DEF Able, Fits, Script!MaxBlock
<1>5. Script!original_block = tests[Len(VerdictsOf(report)) + 1]
  BY <1>1, <1>3 DEF Script!original_block
<1>6. Len(VerdictsOf(report)) < Len(tests)
  BY <1>1, <1>3
<1>7. (row.tag = "OK") \in BOOLEAN
  OBVIOUS
<1>8. \E passed \in BOOLEAN :
        /\ passed => tests[Len(VerdictsOf(report)) + 1] \in Able(prog)
        /\ VerdictsOf(report)' = Append(VerdictsOf(report), passed)
  <2>1. VerdictsOf(report)' = VerdictsOf(report')
    BY DEF VerdictsOf
  <2> QED
    BY <1>1, <1>5, <1>7, <2>1
<1>9. Scores!Judge
  BY <1>2, <1>4, <1>6, <1>8 DEF Scores!Judge, VerdictsOf
<1> QED
  BY <1>9 DEF Scores!Next

\* The script stops at the end, or at a block that no solution is able to carry.
LEMMA StopJudges ==
  ASSUME IInv, Script!NoTests \/ Script!BadTestFile \/ Script!PrintTotals, UNCHANGED prog
  PROVE  Scores!Next
<1>1. /\ report \in Seq(Script!RowType) /\ Len(report) \in Nat /\ Len(report) <= Len(tests)
      /\ tests \in Seq(TestFiles) /\ Len(tests) \in Nat
      /\ Script!test = Len(report) + 1
  BY TestsAssumption DEF IInv, ScriptType, Script!test
<1>2. VerdictsOf(report) \in Seq(BOOLEAN) /\ Len(VerdictsOf(report)) = Len(report)
  <2>1. DOMAIN report = 1 .. Len(report)
    BY <1>1
  <2>2. VerdictsOf(report) \in [1 .. Len(report) -> BOOLEAN]
    BY <2>1 DEF VerdictsOf
  <2> QED
    BY ONLY <1>1, <2>2
<1>3. phase \notin Script!Stopped /\ phase' \in Script!Stopped /\ UNCHANGED <<tests, report>>
  BY DEF Script!NoTests, Script!BadTestFile, Script!PrintTotals, Script!Raise, Script!Stopped
<1>4. Able(prog)' = Able(prog) /\ VerdictsOf(report)' = VerdictsOf(report)
  BY <1>3 DEF Able, Fits, Script!MaxBlock, VerdictsOf
<1>5. CASE Script!NoTests \/ Script!PrintTotals
  <2>1. Len(report) = Len(tests)
    BY <1>1, <1>5 DEF Script!NoTests, Script!PrintTotals
  <2>2. Len(VerdictsOf(report)) = Len(tests)
    BY <1>2, <2>1
  <2> QED
    BY <1>3, <1>4, <2>2 DEF Scores!Next, Scores!Close, VerdictsOf
<1>6. CASE Script!BadTestFile
  <2>1. Script!test <= Len(tests) /\ ~Script!AcceptableBlock
    BY <1>6 DEF Script!BadTestFile
  <2>2. Script!original_block \notin Able(prog)
    BY <2>1, AbleAccepted DEF IInv
  <2>3. Script!original_block = tests[Len(VerdictsOf(report)) + 1] /\ Len(VerdictsOf(report)) < Len(tests)
    BY <1>1, <1>2, <2>1 DEF Script!original_block
  <2> QED
    BY <1>3, <1>4, <2>2, <2>3 DEF Scores!Next, Scores!GiveUp, VerdictsOf
<1> QED
  BY <1>5, <1>6

\* Every step is a judgement, the end, or nothing that Contest speaks of.
LEMMA StepOfContest ==
  ASSUME IInv, [Next]_vars
  PROVE  [Scores!Next]_(Scores!vars)
<1>1. ASSUME UNCHANGED <<tests, report, prog>>,
             (phase' \in Script!Stopped) <=> (phase \in Script!Stopped)
      PROVE  UNCHANGED Scores!vars
  <2>1. Able(prog)' = Able(prog)
    BY <1>1 DEF Able, Fits, Script!MaxBlock
  <2>2. [k \in DOMAIN report |-> report[k].tag = "OK"]' = [k \in DOMAIN report |-> report[k].tag = "OK"]
    BY <1>1
  <2> QED
    BY <1>1, <2>1, <2>2 DEF Scores!vars
<1>2. ASSUME phase \in {"compress", "decompress"}, NEW tag \in {"TL", "RE", "PE", "WA"},
             NEW size \in Nat \cup {-1}, Script!Fails(tag, size), UNCHANGED prog
      PROVE  Scores!Next
  <2>1. Script!Row(tag, size) \in Script!RowType /\ Script!Row(tag, size).tag # "OK"
    BY Rows
  <2>2. report' = Append(report, Script!Row(tag, size)) /\ phase' = "next" /\ UNCHANGED tests
    BY <1>2 DEF Script!Fails
  <2> QED
    BY <1>2, <2>1, <2>2, RowJudges
<1>3. CASE ScriptStep
  <2>1. Script!Harness /\ UNCHANGED prog
    BY <1>3 DEF ScriptStep
  <2>2. Script!compressed_size \in Nat \cup {-1} /\ -1 \in Nat \cup {-1}
    BY TextSizes, ScriptSizes DEF IInv, ScriptType
  <2>3. CASE Script!NoTests \/ Script!BadTestFile \/ Script!PrintTotals
    BY <2>1, <2>3, StopJudges
  <2>4. CASE Script!StartCompress \/ Script!StartDecompress
    <3>1. UNCHANGED <<tests, report>> /\ phase \notin Script!Stopped /\ phase' \notin Script!Stopped
      BY <2>4 DEF Script!StartCompress, Script!StartDecompress, Script!Measured,
         Script!Returned, Script!Stopped
    <3> QED
      BY <1>1, <2>1, <3>1
  <2>5. CASE Script!CompressTimeout
    <3>1. phase = "compress" /\ Script!Fails("TL", -1)
      BY <2>5 DEF Script!CompressTimeout, Script!Waiting, Script!None
    <3> QED
      BY <1>2, <2>1, <2>2, <3>1
  <2>6. CASE Script!CompressError
    <3>1. phase = "compress" /\ Script!Fails("RE", -1)
      BY <2>6 DEF Script!CompressError, Script!Returned, Script!None
    <3> QED
      BY <1>2, <2>1, <2>2, <3>1
  <2>7. CASE Script!InvalidBase64 \/ Script!TooBigOutput
    <3>1. phase = "compress" /\ Script!Fails("PE", -1)
      BY <2>7 DEF Script!InvalidBase64, Script!TooBigOutput, Script!Measured, Script!Returned,
                  Script!None
    <3> QED
      BY <1>2, <2>1, <2>2, <3>1
  <2>8. CASE Script!UndecodableOutput \/ Script!NotAsciiOutput
    BY <2>8 DEF Script!UndecodableOutput, Script!NotAsciiOutput
  <2>9. CASE Script!DecompressTimeout
    <3>1. phase = "decompress" /\ Script!Fails("TL", Script!compressed_size)
      BY <2>9 DEF Script!DecompressTimeout, Script!Waiting
    <3> QED
      BY <1>2, <2>1, <2>2, <3>1
  <2>10. CASE Script!DecompressError
    <3>1. phase = "decompress" /\ Script!Fails("RE", Script!compressed_size)
      BY <2>10 DEF Script!DecompressError, Script!Returned
    <3> QED
      BY <1>2, <2>1, <2>2, <3>1
  <2>11. CASE Script!WrongBlock
    <3>1. phase = "decompress" /\ Script!Fails("WA", Script!compressed_size)
      BY <2>11 DEF Script!WrongBlock, Script!Returned
    <3> QED
      BY <1>2, <2>1, <2>2, <3>1
  <2>12. CASE Script!Pass
    <3>1. /\ phase = "decompress" /\ child.state = "exited"
          /\ child.stdout = Script!original_block
          /\ report' = Append(report, Script!Row("OK", Script!compressed_size))
          /\ phase' = "next" /\ UNCHANGED tests
      BY <2>12 DEF Script!Pass, Script!Passes, Script!Returned
    <3>2. Script!original_block \in Able(prog)
      BY <3>1, RestoredAble
    <3>3. Script!Row("OK", Script!compressed_size) \in Script!RowType
      BY <2>2, Rows
    <3> QED
      BY <2>1, <3>1, <3>2, <3>3, RowJudges
  <2> QED
    BY <2>1, <2>3, <2>4, <2>5, <2>6, <2>7, <2>8, <2>9, <2>10, <2>11, <2>12 DEF Script!Harness
<1>4. CASE SolutionStep \/ OutOfMemory \/ UNCHANGED vars
  BY <1>1, <1>4 DEF SolutionStep, OutOfMemory, vars, script
<1> QED
  BY <1>3, <1>4 DEF Next, Terminated

\* With its processes, timers and pipes, the script judges as Contest says
\* (ImplementsContest without its fairness).
THEOREM JudgesAsContest == Spec => Scores!Init /\ [][Scores!Next]_(Scores!vars)
<1>1. Init => Scores!Init
  <2> SUFFICES ASSUME Init
               PROVE  Scores!Init
    OBVIOUS
  <2>1. report = <<>> /\ phase = "next"
    BY DEF Init, Script!Init
  <2>2. [k \in DOMAIN report |-> report[k].tag = "OK"] = <<>>
    BY <2>1
  <2> QED
    BY <2>1, <2>2 DEF Scores!Init, Script!Stopped
<1>2. IInv /\ [Next]_vars => [Scores!Next]_(Scores!vars)
  BY StepOfContest
<1> QED
  BY <1>1, <1>2, Invariance, PTL DEF Spec
=============================================================================
