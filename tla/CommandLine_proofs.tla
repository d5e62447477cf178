------------------------ MODULE CommandLine_proofs --------------------------
(***************************************************************************)
(* The programs read each other's output as Interchange says, for any      *)
(* number of runs over any blocks.                                         *)
(***************************************************************************)
EXTENDS CommandLine, Solutions_proofs

\* Run r was given block b, or what its program makes of it, and can carry it.
RunCarried(r, b) ==
  \/ /\ r.mode = "compress" /\ \E m \in Modes : r.text = Text(Boc(b, m))
     /\ r.prog = "gzip" => b \in GzFits
  \/ /\ r.mode = "decompress" /\ r.text = Text(Form(r.prog, b))
     /\ SizeOf(Boc(b, 2)) <= Limit(r.prog)

RunDue(r, b) == IF r.mode = "compress" THEN Text(Form(r.prog, b)) ELSE Canonical(b)

\* Run r printed what it had to.
Lawful(r) ==
  /\ r.prog \in {"gzip", "example", "reference"} /\ r.code \in {0, 1, SigAbrt}
  /\ r.stdout # EmptyText =>
       r.code = 0 /\ \E b \in Blocks : RunCarried(r, b) /\ r.stdout = RunDue(r, b)
  /\ r.stdout = EmptyText /\ ~r.starved =>
       /\ \A b \in Blocks : ~RunCarried(r, b)
       /\ r.mode = "decompress" /\ r.text # EmptyText => r.code = SigAbrt

\* Its record has its type, with texts of those in S.
Typed(r, S) ==
  /\ r.prog \in Programs /\ r.mode \in ModeWords
  /\ {r.text, r.stdout} \subseteq S
  /\ r.code \in {0, 1, SigAbrt} /\ r.starved \in BOOLEAN

\* Every run in the log did, and what it printed is at hand.
LogInv ==
  /\ log \in Seq({log[k] : k \in DOMAIN log}) /\ Len(log) <= MaxRuns
  /\ child.state # "none" => Len(log) < MaxRuns
  /\ \A k \in DOMAIN log : log[k].stdout \in shelf /\ Lawful(log[k])

\* What is at hand comes from the user or from one of the programs.
ShelfInv == EmptyText \in shelf /\ \A t \in shelf : Known(t)

\* The current run answers unless an allocation failed in it.
RunInv == prog \in Programs /\ starved \in BOOLEAN /\ (~starved => Answered)

\* What was handed to the process, and that it has printed nothing before its end.
HandedInv ==
  /\ child.mode \in IF child.state = "none" THEN {"none"} ELSE ModeWords
  /\ child.text \in shelf
  /\ child.state # "exited" => child.code = 0 /\ child.stdout = EmptyText

IInv == ProcessInv /\ LogInv /\ LogOK /\ ShelfInv /\ RunInv /\ HandedInv

-----------------------------------------------------------------------------
(* The invariant.                                                          *)

\* What a process prints is known.
LEMMA PrintedKnown ==
  ASSUME ProcessInv, child.state = "exited"
  PROVE  Known(child.stdout)
<1>1. CASE child.stdout = EmptyText
  BY <1>1 DEF Known, Given
<1>2. CASE child.stdout # EmptyText
  <2>1. PICK b \in Blocks : child.stdout = Due(b)
    BY <1>2 DEF ProcessInv, Printed
  <2>2. 31 \in Modes
    BY DEF Modes
  <2> QED
    BY <2>1, <2>2 DEF Due, Known, Given, Form, Canonical
<1> QED
  BY <1>1, <1>2

\* Nothing has run.
LEMMA InitEstablishes ==
  ASSUME Init
  PROVE  IInv
<1>1. /\ prog \in Programs /\ starved = FALSE /\ shelf = Inputs \cup {EmptyText} /\ log = <<>>
      /\ child = NoChild /\ i = 0 /\ frames = <<>>
  BY DEF Init, ProcessInit
<1>2. child.state = "none" /\ ChildRecord
  BY <1>1 DEF NoChild, ChildRecord
<1>3. ProcessInv
  BY <1>1, <1>2, ProgramsAssumption DEF ProcessInv, MemoryType, Printed
<1>4. LogInv
  <2>1. log \in Seq({log[k] : k \in DOMAIN log}) /\ Len(log) = 0 /\ DOMAIN log = {}
    BY <1>1
  <2> QED
    BY <1>2, <2>1, InputAssumption DEF LogInv
<1>5. ShelfInv
  BY <1>1, InputAssumption DEF ShelfInv, Known, Given
<1>6. RunInv
  BY <1>1, <1>2 DEF RunInv, Answered
<1>7. HandedInv
  BY <1>1 DEF HandedInv, NoChild
<1>8. LogOK
  BY <1>1, <1>4 DEF LogOK, LogInv
<1> QED
  BY <1>3, <1>4, <1>5, <1>6, <1>7, <1>8 DEF IInv

\* A new run.
LEMMA StartKeeps ==
  ASSUME IInv, Start
  PROVE  IInv'
<1>1. /\ prog' \in Programs /\ starved' = FALSE /\ Len(log) < MaxRuns
      /\ UNCHANGED <<shelf, log, memory>>
  BY DEF Start
<1>2. PICK mode \in ModeWords, text \in shelf : child' = Spawned(mode, text)
  BY DEF Start
<1>3. Known(text)
  BY DEF IInv, ShelfInv
<1>4. ProcessInv' /\ child'.state = "spawned"
  BY <1>1, <1>2, <1>3, NewProcess, ProgramsAssumption DEF IInv
<1>5. LogInv' /\ ShelfInv'
  BY <1>1 DEF IInv, LogInv, ShelfInv, Lawful, RunCarried, RunDue
<1>6. RunInv'
  BY <1>1, <1>4 DEF RunInv, Answered
<1>7. /\ child'.mode = mode /\ child'.text = text /\ child'.code = 0
      /\ child'.stdout = EmptyText
  <2>1. NoChild \in [state : {"none"}, mode : {"none"}, text : {EmptyText},
                     stdout : {EmptyText}, code : {0}]
    BY DEF NoChild
  <2>2. Spawned(mode, text) \in [state : {"spawned"}, mode : {mode}, text : {text},
                                 stdout : {EmptyText}, code : {0}]
    BY ONLY <2>1 DEF Spawned
  <2> QED
    BY ONLY <1>2, <2>2
<1>8. HandedInv'
  BY <1>1, <1>4, <1>7 DEF HandedInv
<1>9. LogOK'
  BY <1>1 DEF IInv, LogOK
<1> QED
  BY <1>4, <1>5, <1>6, <1>8, <1>9 DEF IInv

\* A run that ends did what it had to.
LEMMA RunLawful ==
  ASSUME IInv, child.state = "exited"
  PROVE  Lawful([prog |-> prog, mode |-> child.mode, text |-> child.text,
                 stdout |-> child.stdout, code |-> child.code, starved |-> starved])
<1> DEFINE r == [prog |-> prog, mode |-> child.mode, text |-> child.text,
                 stdout |-> child.stdout, code |-> child.code, starved |-> starved]
<1>1. /\ r.prog = prog /\ r.mode = child.mode /\ r.text = child.text
      /\ r.stdout = child.stdout /\ r.code = child.code /\ r.starved = starved
  OBVIOUS
<1> HIDE DEF r
<1>2. \A b : RunCarried(r, b) <=> Carried(b)
  BY <1>1 DEF RunCarried, Carried, OfBlock
<1>3. \A b : RunDue(r, b) = Due(b)
  BY <1>1 DEF RunDue, Due
<1>4. Printed /\ prog \in {"gzip", "example", "reference"}
  BY DEF IInv, ProcessInv
<1>5. ASSUME r.stdout = EmptyText, ~r.starved
      PROVE  /\ \A b \in Blocks : ~RunCarried(r, b)
             /\ r.mode = "decompress" /\ r.text # EmptyText => r.code = SigAbrt
  <2>1. Answered
    BY <1>1, <1>5 DEF IInv, RunInv
  <2>2. (\A b \in Blocks : ~Carried(b)) /\ Excused(child.code)
    BY <1>1, <1>5, <2>1 DEF Answered
  <2> QED
    BY <1>1, <1>2, <2>2 DEF Excused, Unshrunk, Misused
<1>6. r.stdout # EmptyText =>
        r.code = 0 /\ \E b \in Blocks : RunCarried(r, b) /\ r.stdout = RunDue(r, b)
  BY <1>1, <1>2, <1>3, <1>4 DEF Printed
<1>7. r.code \in {0, 1, SigAbrt}
  BY <1>1, <1>4 DEF Printed
<1>8. Lawful(r)
  BY <1>1, <1>4, <1>5, <1>6, <1>7 DEF Lawful
<1> QED
  BY <1>8 DEF r

\* It goes into the log, and what it printed is at hand from now on.
LEMMA KeepKeeps ==
  ASSUME IInv, Keep
  PROVE  IInv'
<1> DEFINE r == [prog |-> prog, mode |-> child.mode, text |-> child.text,
                 stdout |-> child.stdout, code |-> child.code, starved |-> starved]
           S == {log[k] : k \in DOMAIN log} \cup {r}
<1>1. /\ child.state = "exited" /\ log' = Append(log, r)
      /\ shelf' = shelf \cup {child.stdout} /\ child' = NoChild
      /\ UNCHANGED <<prog, starved, memory>>
  BY DEF Keep
<1>2. Lawful(r) /\ r.stdout = child.stdout
  BY <1>1, RunLawful
<1>3. log \in Seq({log[k] : k \in DOMAIN log}) /\ Len(log) \in Nat /\ MaxRuns \in Nat
      /\ Len(log) < MaxRuns
  BY <1>1, InputAssumption DEF IInv, LogInv
<1>4. log \in Seq(S) /\ r \in S
  BY <1>3, SeqMonotonic
<1> HIDE DEF r, S
<1>5. /\ log' \in Seq(S) /\ Len(log') = Len(log) + 1 /\ log'[Len(log) + 1] = r
      /\ \A k \in 1 .. Len(log) : log'[k] = log[k]
      /\ DOMAIN log = 1 .. Len(log) /\ DOMAIN log' = 1 .. Len(log) + 1
  BY ONLY <1>1, <1>3, <1>4, AppendProperties, LenProperties
<1>6. ProcessInv' /\ child'.state = "none"
  BY <1>1, NoProcess DEF IInv, NoChild
<1>7. LogInv'
  <2>1. log' \in Seq({log'[k] : k \in DOMAIN log'})
    <3> DEFINE T == {log'[k] : k \in DOMAIN log'}
    <3>1. \A k \in DOMAIN log' : log'[k] \in T
      OBVIOUS
    <3> HIDE DEF T
    <3>2. log' \in [1 .. Len(log) + 1 -> T] /\ Len(log) + 1 \in Nat
      BY ONLY <1>3, <1>5, <3>1
    <3>3. log' \in Seq(T)
      BY ONLY <3>2
    <3> QED
      BY ONLY <3>3 DEF T
  <2>2. Len(log') <= MaxRuns
    BY <1>3, <1>5
  <2>3. ASSUME NEW k \in DOMAIN log'
        PROVE  log'[k].stdout \in shelf' /\ Lawful(log'[k])
    <3>1. CASE k = Len(log) + 1
      BY <3>1, <1>1, <1>2, <1>5
    <3>2. CASE k \in 1 .. Len(log)
      <4>1. k \in DOMAIN log /\ log'[k] = log[k]
        BY <3>2, <1>5
      <4>2. log[k].stdout \in shelf /\ Lawful(log[k])
        BY <4>1 DEF IInv, LogInv
      <4> QED
        BY <1>1, <4>1, <4>2
    <3>3. k = Len(log) + 1 \/ k \in 1 .. Len(log)
      BY ONLY k \in DOMAIN log', <1>3, <1>5
    <3> QED
      BY ONLY <3>1, <3>2, <3>3
  <2> QED
    BY <1>6, <2>1, <2>2, <2>3 DEF LogInv, Lawful, RunCarried, RunDue
<1>8. ShelfInv'
  <2>1. Known(child.stdout)
    BY <1>1, PrintedKnown DEF IInv
  <2> QED
    BY <1>1, <2>1 DEF IInv, ShelfInv, Known, Given
<1>9. RunInv'
  BY <1>1, <1>6 DEF IInv, RunInv, Answered
<1>10. HandedInv'
  <2>1. EmptyText \in shelf'
    BY <1>1 DEF IInv, ShelfInv
  <2> QED
    BY <1>1, <2>1 DEF HandedInv, NoChild
<1>11. LogOK'
  <2>1. ASSUME NEW k \in DOMAIN log'
        PROVE  Typed(log'[k], shelf')
    <3>1. CASE k = Len(log) + 1
      <4>1. /\ r.prog \in Programs /\ r.mode \in ModeWords /\ r.text \in shelf
            /\ r.starved \in BOOLEAN
        BY <1>1 DEF IInv, RunInv, HandedInv, r
      <4>2. r.code \in {0, 1, SigAbrt}
        BY <1>2 DEF Lawful
      <4> QED
        BY <3>1, <1>1, <1>2, <1>5, <4>1, <4>2 DEF Typed
    <3>2. CASE k \in 1 .. Len(log)
      <4>1. k \in DOMAIN log /\ log'[k] = log[k]
        BY <3>2, <1>5
      <4>2. Typed(log[k], shelf)
        BY <4>1 DEF IInv, LogOK, Typed
      <4> QED
        BY <1>1, <4>1, <4>2 DEF Typed
    <3>3. k = Len(log) + 1 \/ k \in 1 .. Len(log)
      BY ONLY k \in DOMAIN log', <1>3, <1>5
    <3> QED
      BY ONLY <3>1, <3>2, <3>3
  <2>2. Len(log') <= MaxRuns
    BY <1>3, <1>5
  <2> QED
    BY <2>1, <2>2 DEF LogOK, Typed
<1> QED
  BY <1>7, <1>8, <1>6, <1>9, <1>10, <1>11 DEF IInv

\* What its parent sees of the process: nothing, its start or its end.
Seen ==
  \/ UNCHANGED child
  \/ child.state = "spawned" /\ child' = [child EXCEPT !.state = "running"]
  \/ \E c : \E o : Exit(c, o)

\* What was handed to it stays.
LEMMA StaysHanded ==
  ASSUME ProcessInv, HandedInv, shelf' = shelf, child.state # "none", Seen
  PROVE  HandedInv'
<1>1. CASE UNCHANGED child
  BY <1>1 DEF HandedInv
<1>2. CASE child.state = "spawned" /\ child' = [child EXCEPT !.state = "running"]
  <2>1. child' = [state |-> "running", mode |-> child.mode, text |-> child.text,
                  stdout |-> child.stdout, code |-> child.code]
    BY <1>2, ChildFields DEF ProcessInv
  <2>2. /\ child'.state = "running" /\ child'.mode = child.mode /\ child'.text = child.text
        /\ child'.stdout = child.stdout /\ child'.code = child.code
    BY ONLY <2>1
  <2> QED
    BY <1>2, <2>2 DEF HandedInv
<1>3. CASE \E c : \E o : Exit(c, o)
  <2>1. /\ child'.state = "exited" /\ child'.mode = child.mode
        /\ child'.text = child.text
    BY <1>3, ExitFields
  <2> QED
    BY <2>1 DEF HandedInv
<1> QED
  BY <1>1, <1>2, <1>3 DEF Seen

\* The process goes on, and the log waits.
LEMMA ProcessKeeps ==
  ASSUME IInv, ProcessInv', UNCHANGED <<prog, shelf, log>>, child.state # "none", Seen,
         \/ starved' = starved /\ Answered'
         \/ starved' = TRUE
  PROVE  IInv'
<1>1. LogInv' /\ ShelfInv'
  BY DEF IInv, LogInv, ShelfInv, Lawful, RunCarried, RunDue, Known, Given
<1>2. RunInv'
  BY DEF IInv, RunInv
<1>3. HandedInv'
  BY StaysHanded DEF IInv
<1>4. LogOK'
  BY DEF IInv, LogOK
<1> QED
  BY <1>1, <1>2, <1>3, <1>4 DEF IInv

\* Every step keeps the invariant.
LEMMA NextKeeps ==
  ASSUME IInv, [Next]_vars
  PROVE  IInv'
<1>1. CASE Start
  BY <1>1, StartKeeps
<1>2. CASE SolutionStep
  <2>1. Work /\ UNCHANGED <<prog, starved, shelf, log>> /\ ProcessInv
    BY <1>2 DEF SolutionStep, IInv
  <2>2. ProcessInv' /\ Answered'
    BY <2>1, WorkKeeps
  <2>3. child.state # "none"
    BY <2>1, WorkAlive
  <2>4. Seen
    BY <2>1, WorkSeen DEF Seen
  <2> QED
    BY <2>1, <2>2, <2>3, <2>4, ProcessKeeps
<1>3. CASE OutOfMemory
  <2>1. BadAlloc /\ starved' = TRUE /\ UNCHANGED <<prog, shelf, log>> /\ ProcessInv
    BY <1>3 DEF OutOfMemory, IInv
  <2>2. ProcessInv' /\ child.state = "running" /\ Seen
    BY <2>1, StarvedKeeps DEF Seen
  <2> QED
    BY <2>1, <2>2, ProcessKeeps
<1>4. CASE Keep
  BY <1>4, KeepKeeps
<1>5. CASE UNCHANGED vars
  <2>1. UNCHANGED <<prog, starved, shelf, log, child, memory>>
    BY <1>5 DEF vars
  <2>2. ProcessInv' /\ (Answered' <=> Answered)
    BY <2>1, SameProcess DEF IInv
  <2>3. HandedInv' /\ LogOK'
    BY <2>1 DEF IInv, HandedInv, LogOK
  <2> QED
    BY <2>1, <2>2, <2>3 DEF IInv, LogInv, ShelfInv, RunInv, Lawful, RunCarried, RunDue, Known, Given
<1> QED
  BY <1>1, <1>2, <1>3, <1>4, <1>5 DEF Next, Done

-----------------------------------------------------------------------------
(* What it shows.                                                          *)

\* The invariant holds in every state.
THEOREM Invariance == Spec => []IInv
<1>1. Init => IInv
  BY InitEstablishes
<1>2. IInv /\ [Next]_vars => IInv'
  BY NextKeeps
<1> QED
  BY <1>1, <1>2, PTL DEF Spec

\* What a user has or a program printed is a text.
LEMMA KnownIsText ==
  ASSUME NEW t, Known(t)
  PROVE  IsText(t)
<1>1. CASE t \in {EmptyText, BadText, Text(Noise)}
  BY <1>1, Texts, Kinds DEF IsText, ByteKinds
<1>2. ASSUME NEW s, s.kind \in ByteKinds, t = Text(s)
      PROVE  IsText(t)
  BY <1>2, Texts DEF IsText
<1>3. \A b : \A m : Boc(b, m).kind \in ByteKinds
  BY Kinds DEF ByteKinds
<1>4. \A b : PlainForm(b).kind \in ByteKinds /\ GzipForm(b).kind \in ByteKinds
  BY Forms DEF ByteKinds
<1> QED
  BY <1>1, <1>2, <1>3, <1>4 DEF Known, Given

\* The process has its type.
LEMMA ChildTyped ==
  ASSUME IInv
  PROVE  ChildOK
<1>1. ChildRecord /\ child.state \in {"none", "spawned", "running", "exited"} /\ Printed
  BY DEF IInv, ProcessInv
<1>2. DOMAIN child = {"state", "mode", "text", "stdout", "code"}
  BY ONLY <1>1 DEF ChildRecord
<1>3. HandedInv
  BY DEF IInv
<1>4. CASE child.state = "exited"
  <2>1. IsText(child.stdout)
    BY <1>4, PrintedKnown, KnownIsText DEF IInv
  <2> QED
    BY <1>1, <1>2, <1>3, <1>4, <2>1 DEF ChildOK, HandedInv, Printed
<1>5. CASE child.state # "exited"
  <2>1. IsText(EmptyText)
    BY DEF IsText
  <2> QED
    BY <1>1, <1>2, <1>3, <1>5, <2>1 DEF ChildOK, HandedInv
<1> QED
  BY <1>4, <1>5

\* What a program decodes is bytes, or none.
LEMMA DecodedBytes ==
  ASSUME NEW t, Known(t)
  PROVE  /\ BufferFromBase64(t).kind \in ByteKinds \cup {"empty"}
         /\ GzDecode(BufferFromBase64(t)).kind \in ByteKinds \cup {"empty"}
         /\ \A s : t = Text(s) => s.kind \in ByteKinds
<1>1. CASE t \in {EmptyText, BadText}
  <2>1. BufferFromBase64(t) = Empty /\ t.text # "base64"
    BY <1>1, Texts DEF BufferFromBase64
  <2>2. GzDecode(Empty) = Empty
    BY Kinds DEF GzDecode
  <2> QED
    BY <2>1, <2>2, Kinds, Texts
<1>2. ASSUME NEW s, t = Text(s), s.kind \in ByteKinds, s.kind = "gz" => s.of.kind \in ByteKinds
      PROVE  /\ BufferFromBase64(t).kind \in ByteKinds \cup {"empty"}
             /\ GzDecode(BufferFromBase64(t)).kind \in ByteKinds \cup {"empty"}
             /\ \A u : t = Text(u) => u.kind \in ByteKinds
  <2>1. t.text = "base64" /\ t.of = s /\ \A u : t = Text(u) => u = s
    BY <1>2, Texts
  <2>2. BufferFromBase64(t) = s
    BY <2>1 DEF BufferFromBase64
  <2>3. GzDecode(s) = s.of \/ GzDecode(s) = Empty
    BY DEF GzDecode
  <2>4. GzDecode(s).kind \in ByteKinds \cup {"empty"}
    <3>1. CASE s.kind = "gz"
      BY <1>2, <3>1 DEF GzDecode
    <3>2. CASE s.kind # "gz"
      BY <3>2, Kinds DEF GzDecode
    <3> QED
      BY <3>1, <3>2
  <2> QED
    BY <1>2, <2>1, <2>2, <2>4
<1>3. \A b : \A m : Boc(b, m).kind = "boc"
  BY Kinds
<1>4. \A b : PlainForm(b).kind = "lz4" /\ GzipForm(b).kind = "gz" /\ GzipForm(b).of.kind = "lz4"
  BY Forms
<1>5. Noise.kind = "noise"
  BY Kinds
<1>6. {"boc", "lz4", "gz", "noise"} \subseteq ByteKinds
  BY DEF ByteKinds
<1> QED
  BY <1>1, <1>2, <1>3, <1>4, <1>5, <1>6 DEF Known, Given

\* So has the memory of a process of tester/solution.cpp.
LEMMA GzipTyped ==
  ASSUME GzipMemory, Known(child.text), prog = "gzip"
  PROVE  /\ pc \in Statements(prog)
         /\ pc \in {"serialize", "expand"} => buf.kind = "cell"
         /\ pc \notin {"mode", "data", "decode", "serialize", "expand"} =>
              buf.kind \in ByteKinds \cup {"empty"}
<1>1. pc \in {"mode", "data", "deserialize", "serialize", "chunks", "gzip",
              "gunzip", "unlz4", "restore", "expand"}
  BY GzipStatements DEF GzipMemory
<1>2. pc \in Statements(prog)
  BY <1>1 DEF Statements
<1>3. pc \in {"serialize", "expand"} => buf.kind = "cell"
  BY Kinds DEF GzipMemory
<1>4. pc \in {"deserialize", "gunzip", "unlz4"} => buf.kind \in ByteKinds \cup {"empty"}
  BY DecodedBytes DEF GzipMemory
<1>5. pc \in {"chunks", "restore"} => buf.kind \in ByteKinds
  BY Kinds DEF GzipMemory, ByteKinds
<1>6. pc = "gzip" => buf.kind \in ByteKinds
  <2> SUFFICES ASSUME pc = "gzip"
               PROVE  buf.kind \in ByteKinds
    OBVIOUS
  <2>1. PICK b \in Blocks : Gz(buf) = GzipForm(b)
    BY DEF GzipMemory
  <2>2. Gz(buf).of = buf
    BY Kinds
  <2>3. buf = GzipForm(b).of
    BY ONLY <2>1, <2>2
  <2> QED
    BY <2>3, Forms DEF ByteKinds
<1> QED
  BY <1>1, <1>2, <1>3, <1>4, <1>5, <1>6

\* So has that of the other two.
LEMMA PlainTyped ==
  ASSUME PlainMemory, Known(child.text), prog # "gzip"
  PROVE  /\ pc \in Statements(prog)
         /\ pc \in {"serialize", "expand"} => buf.kind = "cell"
         /\ pc \notin {"mode", "data", "decode", "serialize", "expand"} =>
              buf.kind \in ByteKinds \cup {"empty"}
<1>1. pc \in {"mode", "data", "decode", "print", "deserialize", "serialize", "lz4",
              "unlz4", "restore", "expand"}
  BY DEF PlainMemory, PlainCompress, PlainDecompress
<1>2. pc \in Statements(prog)
  BY <1>1 DEF Statements
<1>3. pc \in {"serialize", "expand"} => buf.kind = "cell"
  BY Kinds DEF PlainMemory
<1>4. pc \in {"deserialize", "unlz4"} => buf.kind \in ByteKinds
  BY DecodedBytes DEF PlainMemory
<1>5. pc \in {"lz4", "restore"} => buf.kind \in ByteKinds
  BY Kinds DEF PlainMemory, ByteKinds
<1>6. pc = "print" => buf.kind \in ByteKinds
  <2> SUFFICES ASSUME pc = "print"
               PROVE  buf.kind \in ByteKinds
    OBVIOUS
  <2>1. PICK b \in Blocks : Text(buf) = Due(b)
    BY DEF PlainMemory
  <2>2. Due(b) = Text(PlainForm(b)) \/ Due(b) = Text(Boc(b, 31))
    BY DEF Due, Form, Canonical
  <2>3. buf = PlainForm(b) \/ buf = Boc(b, 31)
    BY <2>1, <2>2, Texts
  <2> QED
    BY <2>3, Forms, Kinds DEF ByteKinds
<1> QED
  BY <1>1, <1>2, <1>3, <1>4, <1>5, <1>6

\* The process, its memory, the texts at hand and the log have their types: a
\* process is at a statement of its program, with a cell in hand between the two
\* boc calls and bytes elsewhere, and prints base64 of bytes or nothing.
THEOREM TypeCorrect == Spec => []TypeOK
<1>1. IInv => TypeOK
  <2> SUFFICES ASSUME IInv
               PROVE  TypeOK
    OBVIOUS
  <2>1. /\ prog \in Programs /\ starved \in BOOLEAN /\ EmptyText \in shelf /\ LogOK
    BY DEF IInv, RunInv, ShelfInv
  <2>2. \A t \in shelf : IsText(t)
    BY KnownIsText DEF IInv, ShelfInv
  <2>3. ChildOK
    BY ChildTyped
  <2>4. MemoryOK
    <3>1. i \in Nat /\ frames \in Seq(Nat \X Nat)
      BY DEF IInv, ProcessInv, MemoryType
    <3>2. child.state = "running" =>
            Known(child.text) /\ IF prog = "gzip" THEN GzipMemory ELSE PlainMemory
      BY DEF IInv, ProcessInv
    <3> QED
      BY <3>1, <3>2, GzipTyped, PlainTyped DEF MemoryOK
  <2> QED
    BY <2>1, <2>2, <2>3, <2>4 DEF TypeOK
<1> QED
  BY <1>1, Invariance, PTL

\* The texts of two blocks, or of two families, are two texts.
LEMMA TextsDiffer ==
  ASSUME NEW b, NEW c, NEW p, NEW q, Text(Form(p, b)) = Text(Form(q, c))
  PROVE  b = c /\ Family(p) = Family(q)
<1>1. Text(Form(p, b)).of = Form(p, b) /\ Text(Form(q, c)).of = Form(q, c)
  BY Texts
<1>2. Form(p, b) = Form(q, c)
  BY ONLY <1>1, Text(Form(p, b)) = Text(Form(q, c))
<1>3. /\ PlainForm(b).kind = "lz4" /\ PlainForm(b).of = Boc(b, 2)
      /\ GzipForm(b).kind = "gz" /\ GzipForm(b).of.of = Boc(b, 2)
      /\ PlainForm(c).kind = "lz4" /\ PlainForm(c).of = Boc(c, 2)
      /\ GzipForm(c).kind = "gz" /\ GzipForm(c).of.of = Boc(c, 2)
  BY Forms
<1>4. p = "gzip" <=> q = "gzip"
  BY ONLY <1>2, <1>3 DEF Form
<1>5. Boc(b, 2) = Boc(c, 2)
  BY ONLY <1>2, <1>3, <1>4 DEF Form
<1>6. Boc(b, 2).root = b /\ Boc(c, 2).root = c
  BY Kinds
<1> QED
  BY ONLY <1>4, <1>5, <1>6 DEF Family

\* Programs of a family make and restore the same.
LEMMA FamilyForms ==
  ASSUME NEW p, NEW q, Family(p) = Family(q)
  PROVE  Limit(p) = Limit(q) /\ \A b : Form(p, b) = Form(q, b)
<1>1. p = "gzip" <=> q = "gzip"
  BY DEF Family
<1> QED
  BY <1>1 DEF Limit, Form

\* What one program made of a block another of its family gives back, in mode
\* 31, if the block is within its limit; any other program aborts.
THEOREM ProgramsInterchange == Spec => []Interchange
<1>1. ASSUME IInv
      PROVE  Interchange
  <2> SUFFICES ASSUME NEW k \in DOMAIN log, NEW l \in DOMAIN log, NEW b \in Blocks,
                      Chained(log[k], log[l], b)
               PROVE  IF Family(log[k].prog) = Family(log[l].prog)
                         /\ SizeOf(Boc(b, 2)) <= Limit(log[l].prog)
                      THEN log[l].code = 0 /\ log[l].stdout = Text(Boc(b, 31))
                      ELSE log[l].code = SigAbrt /\ log[l].stdout = EmptyText
    BY DEF Interchange
  <2> DEFINE c == log[k]
             d == log[l]
  <2>1. Lawful(c) /\ Lawful(d)
    BY <1>1 DEF IInv, LogInv
  <2>2. /\ c.mode = "compress" /\ c.text.text = "base64"
        /\ c.text.of.kind = "boc" /\ c.text.of.root = b
        /\ d.mode = "decompress" /\ d.text = c.stdout /\ c.stdout # EmptyText /\ ~d.starved
    BY DEF Chained
  <2> HIDE DEF c, d
  <2>3. d.text = Text(Form(c.prog, b))
    <3>1. PICK e \in Blocks : RunCarried(c, e) /\ c.stdout = RunDue(c, e)
      BY <2>1, <2>2 DEF Lawful
    <3>2. PICK m : c.text = Text(Boc(e, m))
      BY <2>2, <3>1 DEF RunCarried
    <3>3. Text(Boc(e, m)).of = Boc(e, m) /\ Boc(e, m).root = e
      BY Texts, Kinds
    <3>4. e = b
      BY ONLY <2>2, <3>2, <3>3
    <3> QED
      BY <2>2, <3>1, <3>4 DEF RunDue
  <2>4. \A e \in Blocks : RunCarried(d, e) <=>
          Text(Form(c.prog, b)) = Text(Form(d.prog, e)) /\ SizeOf(Boc(e, 2)) <= Limit(d.prog)
    BY <2>2, <2>3 DEF RunCarried
  <2>5. CASE Family(c.prog) = Family(d.prog) /\ SizeOf(Boc(b, 2)) <= Limit(d.prog)
    <3>1. RunCarried(d, b)
      BY <2>4, <2>5, FamilyForms
    <3>2. d.stdout # EmptyText
      BY <2>1, <2>2, <3>1 DEF Lawful
    <3>3. PICK e \in Blocks : RunCarried(d, e) /\ d.stdout = RunDue(d, e)
      BY <2>1, <3>2 DEF Lawful
    <3>4. e = b
      BY <2>4, <3>3, TextsDiffer
    <3>5. d.code = 0
      BY <2>1, <3>2 DEF Lawful
    <3>6. d.code = 0 /\ d.stdout = Text(Boc(b, 31))
      BY <2>2, <3>3, <3>4, <3>5 DEF RunDue, Canonical
    <3> QED
      BY <2>5, <3>6 DEF c, d
  <2>6. CASE ~(Family(c.prog) = Family(d.prog) /\ SizeOf(Boc(b, 2)) <= Limit(d.prog))
    <3>1. ASSUME NEW e \in Blocks, RunCarried(d, e)
          PROVE  FALSE
      <4>1. b = e /\ Family(c.prog) = Family(d.prog)
        BY <2>4, <3>1, TextsDiffer
      <4> QED
        BY <2>4, <2>6, <3>1, <4>1
    <3>2. d.stdout = EmptyText
      BY <2>1, <3>1 DEF Lawful
    <3>3. d.text # EmptyText
      BY <2>3, Texts
    <3>4. d.code = SigAbrt
      BY <2>1, <2>2, <3>2, <3>3 DEF Lawful
    <3> QED
      BY <2>6, <3>2, <3>4 DEF c, d
  <2> QED
    BY <2>5, <2>6
<1> QED
  BY <1>1, Invariance, PTL

\* What a decompressor prints is the block that its input was made from.
THEOREM OnlyTheBlock == Spec => []OnlyTheBlockWithin
<1>1. ASSUME IInv
      PROVE  OnlyTheBlockWithin
  <2> SUFFICES ASSUME NEW k \in DOMAIN log, log[k].mode = "decompress", log[k].stdout # EmptyText
               PROVE  LET in == log[k].text.of
                          lz == IF in.kind = "gz" THEN in.of ELSE in
                      IN  lz.kind = "lz4" /\ log[k].stdout = Text(Boc(lz.of.root, 31))
    BY DEF OnlyTheBlockWithin
  <2> DEFINE in == log[k].text.of
             lz == IF in.kind = "gz" THEN in.of ELSE in
  <2>1. Lawful(log[k])
    BY <1>1 DEF IInv, LogInv
  <2>2. PICK b \in Blocks : RunCarried(log[k], b) /\ log[k].stdout = RunDue(log[k], b)
    BY <2>1 DEF Lawful
  <2>3. log[k].text = Text(Form(log[k].prog, b)) /\ log[k].stdout = Text(Boc(b, 31))
    BY <2>2 DEF RunCarried, RunDue, Canonical
  <2>4. in = Form(log[k].prog, b)
    BY <2>3, Texts
  <2>5. in \in {PlainForm(b), GzipForm(b)}
    BY <2>4 DEF Form
  <2> HIDE DEF in
  <2>6. /\ PlainForm(b).kind = "lz4" /\ PlainForm(b).of = Boc(b, 2)
        /\ GzipForm(b).kind = "gz" /\ GzipForm(b).of.kind = "lz4"
        /\ GzipForm(b).of.of = Boc(b, 2)
    BY Forms
  <2>7. lz.kind = "lz4" /\ lz.of = Boc(b, 2)
    BY ONLY <2>5, <2>6
  <2>8. Boc(b, 2).root = b
    BY Kinds
  <2> QED
    BY <2>3, <2>7, <2>8 DEF in
<1> QED
  BY <1>1, Invariance, PTL

\* A compressor prints nothing for a text that is no bag of cells.
THEOREM BlocksOnly == Spec => []CompressesBlocksOnly
<1>1. ASSUME IInv
      PROVE  CompressesBlocksOnly
  <2> SUFFICES ASSUME NEW k \in DOMAIN log, log[k].mode = "compress", log[k].stdout # EmptyText
               PROVE  log[k].text.text = "base64" /\ log[k].text.of.kind = "boc"
    BY DEF CompressesBlocksOnly
  <2>1. Lawful(log[k])
    BY <1>1 DEF IInv, LogInv
  <2>2. PICK b \in Blocks, m \in Modes : log[k].text = Text(Boc(b, m))
    BY <2>1 DEF Lawful, RunCarried
  <2> QED
    BY <2>2, Texts, Kinds
<1> QED
  BY <1>1, Invariance, PTL

\* A step from a state in which a process lives is one of the process.
LEMMA LivingAdvances ==
  ASSUME IInv, [Next]_vars, child.state \in {"spawned", "running"}
  PROVE  Advance \/ UNCHANGED vars
<1>1. CASE SolutionStep
  BY <1>1, WorkAdvances DEF SolutionStep, IInv
<1>2. CASE OutOfMemory
  BY <1>2, WorkAdvances DEF OutOfMemory, IInv
<1>3. ~Start /\ ~Keep
  BY DEF Start, Keep
<1> QED
  BY <1>1, <1>2, <1>3 DEF Next, Done

\* What RunsEnd rests on besides fairness, and what rules out that a process of
\* any of the programs loops: from its start every step takes it to a statement
\* further down, of at most eight, or to its end, and the only loop, the one over
\* the pieces in tester/solution.cpp, gets nearer to the size of its buffer.
THEOREM RunsAdvance ==
  Spec => /\ [](child.state = "running" => Stage[pc] \in 1 .. 8)
          /\ [][child.state \in {"spawned", "running"} => Advance]_vars
<1>1. IInv => (child.state = "running" => Stage[pc] \in 1 .. 8)
  BY HasStage DEF IInv
<1>2. IInv /\ [Next]_vars => [child.state \in {"spawned", "running"} => Advance]_vars
  BY LivingAdvances
<1> QED
  BY <1>1, <1>2, Invariance, PTL DEF Spec
=============================================================================
