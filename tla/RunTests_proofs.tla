-------------------------- MODULE RunTests_proofs ---------------------------
(***************************************************************************)
(* Safety of run_tests.py for every listing, every size of block and every *)
(* behaviour of the solution.                                              *)
(***************************************************************************)
EXTENDS RunTests, FiniteSetTheorems, TLAPS

\* What the counters need to stay right, besides being right: a row is counted
\* at most once.
Counters ==
  /\ n_ok <= Len(report)
  /\ total_points <= 2000 * n_ok
  /\ OkRowsCounted

IInv == TypeOK /\ OneChild /\ Judging /\ Counters

\* f sums up w, from 1 to each k up to n.
SumsUp(f, w, n) == f = [k \in 0 .. n |-> IF k = 0 THEN 0 ELSE f[k - 1] + w[k]]

\* The rows have a sum, and only one, which total_points is.
Worths == [k \in 1 .. Len(report) |-> Worth(k)]
SumInv ==
  /\ \E f : SumsUp(f, Worths, Len(report))
  /\ \A f : SumsUp(f, Worths, Len(report)) => f[Len(report)] = total_points

-----------------------------------------------------------------------------
(* The points of one test.                                                 *)

\* The share of a positive size in a sum is at most the whole.
LEMMA ShareBound ==
  ASSUME NEW a \in Nat \ {0}, NEW b \in Nat
  PROVE  (2000 * a) \div (a + b) \in 0 .. 2000
<1> DEFINE q == (2000 * a) \div (a + b)
<1>1. a + b \in Nat /\ a + b > 0 /\ 2000 * a \in Nat
  OBVIOUS
<1>2. q \in Int /\ (a + b) * q <= 2000 * a /\ 2000 * a < (a + b) * (q + 1)
  BY <1>1
<1>3. q >= 0
  BY <1>1, <1>2
<1>4. q <= 2000
  BY <1>1, <1>2
<1> QED
  BY <1>2, <1>3, <1>4

\* No test is worth more than 2000 points, whatever the block compresses to.
LEMMA PointsBound ==
  ASSUME NEW o \in Nat \ {0}, NEW c \in Nat
  PROVE  Points(o, c) \in Nat /\ Points(o, c) <= 2000
BY ShareBound DEF Points

\* A size that is known and passes the assert of its upper bound.
LEMMA KnownSize ==
  ASSUME NEW size \in Nat \cup {None}, size # None, size <= MaxBlock
  PROVE  size \in 0 .. MaxBlock
BY DEF None, MaxBlock

-----------------------------------------------------------------------------
(* The rows.                                                               *)

OkRows(rows) == {k \in DOMAIN rows : rows[k].tag = "OK"}

\* A new row adds one to the OK rows if it is one, and nothing otherwise.
LEMMA OkRowsAppend ==
  ASSUME NEW rows \in Seq(RowType), NEW row \in RowType
  PROVE  /\ row.tag = "OK" =>
              Cardinality(OkRows(Append(rows, row))) = Cardinality(OkRows(rows)) + 1
         /\ row.tag # "OK" =>
              Cardinality(OkRows(Append(rows, row))) = Cardinality(OkRows(rows))
<1> DEFINE n == Len(rows)
           more == Append(rows, row)
<1>1. n \in Nat /\ DOMAIN rows = 1 .. n /\ DOMAIN more = 1 .. n + 1
  OBVIOUS
<1>2. more[n + 1] = row /\ \A k \in 1 .. n : more[k] = rows[k]
  OBVIOUS
<1>3. IsFiniteSet(OkRows(rows))
  <2>1. OkRows(rows) \subseteq 1 .. n
    BY <1>1 DEF OkRows
  <2>2. IsFiniteSet(1 .. n)
    BY <1>1, FS_Interval
  <2> QED
    BY <2>1, <2>2, FS_Subset
<1>4. n + 1 \notin OkRows(rows)
  BY <1>1 DEF OkRows
<1>5. ASSUME row.tag = "OK"
      PROVE  Cardinality(OkRows(more)) = Cardinality(OkRows(rows)) + 1
  <2>1. OkRows(more) = OkRows(rows) \cup {n + 1}
    BY <1>1, <1>2, <1>5 DEF OkRows
  <2> QED
    BY <2>1, <1>3, <1>4, FS_AddElement
<1>6. ASSUME row.tag # "OK"
      PROVE  Cardinality(OkRows(more)) = Cardinality(OkRows(rows))
  <2>1. OkRows(more) = OkRows(rows)
    BY <1>1, <1>2, <1>6 DEF OkRows
  <2> QED
    BY <2>1
<1> QED
  BY <1>5, <1>6

LEMMA OkRowsEmpty == Cardinality(OkRows(<<>>)) = 0
<1>1. OkRows(<<>>) = {}
  BY DEF OkRows
<1> QED
  BY <1>1, FS_EmptySet

-----------------------------------------------------------------------------
(* The sum of the rows.                                                    *)

\* No rows have the sum 0.
LEMMA SumOfNone ==
  ASSUME NEW w
  PROVE  (\E f : SumsUp(f, w, 0)) /\ \A f : SumsUp(f, w, 0) => f[0] = 0
<1>1. SumsUp([k \in 0 .. 0 |-> 0], w, 0)
  BY DEF SumsUp
<1>2. \A f : SumsUp(f, w, 0) => f[0] = 0
  BY DEF SumsUp
<1> QED
  BY <1>1, <1>2

\* One more row adds its worth to the sum.
LEMMA SumOfMore ==
  ASSUME NEW n \in Nat, NEW w, NEW v, \A k \in 1 .. n : v[k] = w[k], NEW total,
         \E f : SumsUp(f, w, n), \A f : SumsUp(f, w, n) => f[n] = total
  PROVE  /\ \E g : SumsUp(g, v, n + 1)
         /\ \A g : SumsUp(g, v, n + 1) => g[n + 1] = total + v[n + 1]
<1>1. \E g : SumsUp(g, v, n + 1)
  <2>1. PICK f : SumsUp(f, w, n)
    OBVIOUS
  <2> DEFINE g == [k \in 0 .. n + 1 |-> IF k = n + 1 THEN f[n] + v[n + 1] ELSE f[k]]
  <2>2. \A k \in 0 .. n : f[k] = IF k = 0 THEN 0 ELSE f[k - 1] + w[k]
    BY <2>1 DEF SumsUp
  <2>3. ASSUME NEW k \in 0 .. n + 1
        PROVE  g[k] = IF k = 0 THEN 0 ELSE g[k - 1] + v[k]
    <3>1. CASE k = 0
      BY <3>1, <2>2
    <3>2. CASE k \in 1 .. n
      <4>1. g[k] = f[k] /\ g[k - 1] = f[k - 1]
        BY <3>2
      <4>2. f[k] = f[k - 1] + w[k] /\ v[k] = w[k]
        BY <3>2, <2>2
      <4> QED
        BY <3>2, <4>1, <4>2
    <3>3. CASE k = n + 1
      <4>1. g[k] = f[n] + v[n + 1] /\ g[k - 1] = f[n]
        BY <3>3
      <4> QED
        BY <3>3, <4>1
    <3> QED
      BY <3>1, <3>2, <3>3
  <2>4. SumsUp(g, v, n + 1)
    BY <2>3 DEF SumsUp
  <2> QED
    BY <2>4
<1>2. ASSUME NEW g, SumsUp(g, v, n + 1)
      PROVE  g[n + 1] = total + v[n + 1]
  <2> DEFINE f == [k \in 0 .. n |-> g[k]]
  <2>1. \A k \in 0 .. n + 1 : g[k] = IF k = 0 THEN 0 ELSE g[k - 1] + v[k]
    BY <1>2 DEF SumsUp
  <2>2. ASSUME NEW k \in 0 .. n
        PROVE  f[k] = IF k = 0 THEN 0 ELSE f[k - 1] + w[k]
    <3>1. CASE k = 0
      BY <3>1, <2>1
    <3>2. CASE k \in 1 .. n
      <4>1. f[k] = g[k] /\ f[k - 1] = g[k - 1] /\ v[k] = w[k]
        BY <3>2
      <4>2. g[k] = g[k - 1] + v[k]
        BY <3>2, <2>1
      <4> QED
        BY <3>2, <4>1, <4>2
    <3> QED
      BY <3>1, <3>2
  <2>3. SumsUp(f, w, n)
    BY <2>2 DEF SumsUp
  <2>4. f[n] = total /\ f[n] = g[n]
    BY <2>3
  <2>5. g[n + 1] = g[n] + v[n + 1]
    BY <2>1
  <2> QED
    BY <2>4, <2>5
<1> QED
  BY <1>1, <1>2

\* A row is printed: its worth is added to the sum.
LEMMA SumStep ==
  ASSUME TypeOK, SumInv, NEW n \in Nat, n = Len(report), NEW row \in RowType,
         report' = Append(report, row), total_points' = total_points + Worth(n + 1)',
         UNCHANGED tests
  PROVE  SumInv'
<1>1. Len(report') = n + 1 /\ \A k \in 1 .. n : report'[k] = report[k]
  BY DEF TypeOK
<1>2. \A k \in 1 .. n : Worth(k)' = Worth(k)
  BY <1>1 DEF Worth
<1>3. \A k \in 1 .. n : Worths'[k] = Worths[k]
  BY <1>1, <1>2 DEF Worths
<1>4. Worths'[n + 1] = Worth(n + 1)'
  BY <1>1 DEF Worths
<1>5. /\ \E f : SumsUp(f, Worths, n)
      /\ \A f : SumsUp(f, Worths, n) => f[n] = total_points
  BY DEF SumInv
<1>6. /\ \E g : SumsUp(g, Worths', n + 1)
      /\ \A g : SumsUp(g, Worths', n + 1) => g[n + 1] = total_points + Worths'[n + 1]
  BY ONLY n \in Nat, <1>3, <1>5, SumOfMore
<1>7. total_points + Worths'[n + 1] = total_points'
  BY <1>4
<1> QED
  BY ONLY <1>1, <1>6, <1>7 DEF SumInv, SumsUp

\* No row is printed, and the sum stays.
LEMMA SumStays ==
  ASSUME SumInv, UNCHANGED <<report, tests, total_points>>
  PROVE  SumInv'
<1>1. \A k \in 1 .. Len(report) : Worth(k)' = Worth(k)
  BY DEF Worth
<1>2. Worths' = Worths
  BY <1>1 DEF Worths
<1> QED
  BY <1>2 DEF SumInv, SumsUp

-----------------------------------------------------------------------------
(* The invariant.                                                          *)

LEMMA InitInv == Init => IInv
<1> SUFFICES ASSUME Init PROVE IInv
  OBVIOUS
<1> USE HarnessAssumption DEF Init
<1>1. NoChild \in ChildType
  BY DEF NoChild, ChildType, ProcessStates
<1>2. tests \in Seq(Texts) /\ Len(tests) \in Nat
  OBVIOUS
<1>3. TypeOK
  BY <1>1, <1>2 DEF TypeOK, RowType
<1>4. OneChild /\ Judging
  BY DEF OneChild, Judging, NoChild
<1>5. Counters
  BY OkRowsEmpty DEF Counters, OkRowsCounted, Passed, OkRows
<1> QED
  BY <1>3, <1>4, <1>5 DEF IInv

\* A test that did not pass: its row is not OK and the totals stay.
LEMMA FailsStep ==
  ASSUME IInv, phase \in {"compress", "decompress"},
         NEW tag \in Tags \ {"OK"}, NEW size \in Nat \cup {None}, Fails(tag, size)
  PROVE  IInv'
<1> USE DEF IInv, TypeOK, Fails
<1>1. Row(tag, size) \in RowType /\ Row(tag, size).tag # "OK"
  BY DEF Row, RowType
<1>2. /\ report' \in Seq(RowType) /\ Len(report') = Len(report) + 1
      /\ Len(report') <= Len(tests)
  <2>1. Len(report) + 1 <= Len(tests)
    BY DEF Judging, test
  <2> QED
    BY <1>1, <2>1
<1>3. NoChild \in ChildType
  BY HarnessAssumption DEF NoChild, ChildType, ProcessStates
<1>4. TypeOK'
  BY <1>2, <1>3
<1>5. (OneChild /\ Judging)'
  BY DEF OneChild, Judging, NoChild
<1>6. Counters'
  <2>1. Cardinality(OkRows(report')) = Cardinality(OkRows(report))
    BY <1>1, OkRowsAppend
  <2>2. UNCHANGED <<n_ok, total_points>>
    OBVIOUS
  <2>3. OkRowsCounted'
    <3>1. Passed = OkRows(report) /\ Passed' = OkRows(report')
      BY DEF Passed, OkRows
    <3>2. n_ok = Cardinality(OkRows(report))
      BY <3>1 DEF Counters, OkRowsCounted
    <3>3. n_ok' = Cardinality(OkRows(report'))
      BY ONLY <2>1, <2>2, <3>2
    <3> QED
      BY ONLY <3>1, <3>3 DEF OkRowsCounted
  <2>4. n_ok' <= Len(report')
    BY <2>2, <1>2 DEF Counters
  <2>5. total_points' <= 2000 * n_ok'
    BY <2>2 DEF Counters
  <2> QED
    BY ONLY <2>3, <2>4, <2>5 DEF Counters
<1> QED
  BY <1>4, <1>5, <1>6

\* An exception: no row, and no process but one that has exited.
LEMMA RaiseStep ==
  ASSUME IInv, child.state \notin {"spawned", "running"}, Raise
  PROVE  IInv'
BY DEF IInv, TypeOK, OneChild, Judging, Counters, OkRowsCounted, Passed, Raise, Stopped

\* A test that passed: one more row, one more OK row, at most 2000 points more.
LEMMA PassStep ==
  ASSUME IInv, Pass
  PROVE  IInv'
<1> USE DEF IInv, TypeOK
<1> DEFINE o == Base64Size[original_block]
           row == Row("OK", compressed_size)
<1>1. phase = "decompress" /\ test <= Len(tests) /\ AcceptableBlock
  BY DEF Pass, Returned, Judging
<1>2. compressed_size \in 0 .. MaxBlock
  BY <1>1 DEF OneChild
<1>3. o \in Nat \ {0}
  <2>1. Len(report) \in Nat /\ test \in 1 .. Len(tests) /\ tests \in Seq(Texts)
    BY <1>1, HarnessAssumption DEF test
  <2>2. original_block \in Texts
    BY <2>1 DEF original_block
  <2> QED
    BY <1>1, <2>2, HarnessAssumption DEF AcceptableBlock, None
<1>4. Points(o, compressed_size) \in Nat /\ Points(o, compressed_size) <= 2000
  <2>1. compressed_size \in Nat
    BY <1>2 DEF MaxBlock
  <2> QED
    BY ONLY <2>1, <1>3, PointsBound
<1>5. row \in RowType /\ row.tag = "OK"
  BY <1>2 DEF Row, RowType, Tags, MaxBlock
<1>6. /\ report' = Append(report, row) /\ phase' = "next" /\ child' = NoChild
      /\ n_ok' = n_ok + 1
      /\ total_points' = total_points + Points(o, compressed_size)
      /\ UNCHANGED <<tests, compressed_block>>
  BY DEF Pass, Passes, Score
<1>7. /\ report' \in Seq(RowType) /\ Len(report') = Len(report) + 1
      /\ Len(report') <= Len(tests)
  BY <1>1, <1>5, <1>6 DEF test
<1>8. TypeOK'
  <2>1. NoChild \in ChildType
    BY HarnessAssumption DEF NoChild, ChildType, ProcessStates
  <2> QED
    BY <1>4, <1>6, <1>7, <2>1
<1>9. (OneChild /\ Judging)'
  BY <1>6 DEF OneChild, Judging, NoChild
<1>10. Counters'
  <2>1. Cardinality(OkRows(report')) = Cardinality(OkRows(report)) + 1
    BY <1>5, <1>6, OkRowsAppend
  <2>2. OkRowsCounted'
    <3>1. Passed = OkRows(report) /\ Passed' = OkRows(report')
      BY DEF Passed, OkRows
    <3>2. n_ok = Cardinality(OkRows(report))
      BY <3>1 DEF Counters, OkRowsCounted
    <3>3. n_ok' = Cardinality(OkRows(report'))
      BY <2>1, <1>6, <3>2
    <3> QED
      BY <3>1, <3>3 DEF OkRowsCounted
  <2>3. n_ok' <= Len(report')
    BY <1>6, <1>7 DEF Counters
  <2>4. total_points' <= 2000 * n_ok'
    BY <1>4, <1>6 DEF Counters
  <2> QED
    BY <2>2, <2>3, <2>4 DEF Counters
<1> QED
  BY <1>8, <1>9, <1>10

\* The steps that start a process: the row and the totals are not touched.
LEMMA StartStep ==
  ASSUME IInv, StartCompress \/ StartDecompress
  PROVE  IInv'
<1> USE DEF IInv, TypeOK
<1>1. CASE StartCompress
  <2>1. original_block \in Texts
    <3>1. test \in 1 .. Len(tests) /\ tests \in Seq(Texts)
      BY <1>1, HarnessAssumption DEF StartCompress, test
    <3> QED
      BY <3>1 DEF original_block
  <2>2. child' \in ChildType
    BY <1>1, <2>1, HarnessAssumption
    DEF StartCompress, Spawned, NoChild, ChildType, ProcessStates
  <2>3. TypeOK'
    BY <1>1, <2>2 DEF StartCompress
  <2>4. (OneChild /\ Judging)'
    BY <1>1 DEF StartCompress, OneChild, Judging, Spawned, NoChild, test, original_block,
      AcceptableBlock
  <2>5. Counters'
    BY <1>1 DEF StartCompress, Counters, OkRowsCounted, Passed
  <2> QED
    BY <2>3, <2>4, <2>5
<1>2. CASE StartDecompress
  <2>1. child.stdout \in Texts /\ Base64Size[child.stdout] \in 0 .. MaxBlock
    <3>1. child.stdout \in Texts
      BY DEF ChildType
    <3>2. Base64Size[child.stdout] \in Nat \cup {None}
      BY <3>1, HarnessAssumption
    <3>3. Base64Size[child.stdout] # None /\ Base64Size[child.stdout] <= MaxBlock
      BY <1>2 DEF StartDecompress
    <3> QED
      BY ONLY <3>1, <3>2, <3>3, KnownSize, Zenon
  <2>2. child' \in ChildType
    BY <1>2, <2>1, HarnessAssumption
    DEF StartDecompress, Spawned, NoChild, ChildType, ProcessStates
  <2>3. TypeOK'
    BY <1>2, <2>1, <2>2 DEF StartDecompress
  <2>4. OneChild'
    BY <1>2, <2>1 DEF StartDecompress, OneChild, Spawned, NoChild, compressed_size
  <2>5. Judging'
    BY <1>2 DEF StartDecompress, Measured, Returned, Judging, test, original_block,
      AcceptableBlock
  <2>6. Counters'
    BY <1>2 DEF StartDecompress, Counters, OkRowsCounted, Passed
  <2> QED
    BY <2>3, <2>4, <2>5, <2>6
<1> QED
  BY <1>1, <1>2

\* The script's last steps.
LEMMA StopStep ==
  ASSUME IInv, NoTests \/ PrintTotals
  PROVE  IInv'
<1>1. /\ phase = "next" /\ phase' \in Stopped
      /\ UNCHANGED <<tests, child, compressed_block, report, n_ok, total_points>>
  BY DEF NoTests, PrintTotals, Stopped
<1>2. TypeOK'
  BY <1>1 DEF IInv, TypeOK
<1>3. (OneChild /\ Judging)'
  BY <1>1 DEF IInv, OneChild, Judging, Stopped
<1>4. Counters'
  BY <1>1 DEF IInv, Counters, OkRowsCounted, Passed
<1> QED
  BY <1>2, <1>3, <1>4 DEF IInv

\* The process may do what it likes, while the script waits for it.
LEMMA ChildStep ==
  ASSUME IInv, ChildRuns \/ ChildExits
  PROVE  IInv'
<1> USE DEF IInv, TypeOK
<1>1. child' \in ChildType
  <2>1. CASE ChildRuns
    BY <2>1 DEF ChildRuns, ChildType, ProcessStates
  <2>2. CASE ChildExits
    BY <2>2 DEF ChildExits, ChildType, ProcessStates
  <2> QED
    BY <2>1, <2>2
<1>2. /\ child'.mode = child.mode /\ child'.text = child.text
      /\ child.state \in {"spawned", "running"} /\ UNCHANGED harness
  <2>1. CASE ChildRuns
    BY <2>1 DEF ChildRuns, ChildType
  <2>2. CASE ChildExits
    BY <2>2 DEF ChildExits, ChildType
  <2> QED
    BY <2>1, <2>2
<1>3. UNCHANGED <<tests, phase, compressed_block, report, n_ok, total_points>>
  BY <1>2 DEF harness
<1>4. TypeOK'
  BY <1>1, <1>3
<1>5. OneChild'
  BY <1>2, <1>3 DEF OneChild, original_block, test, compressed_size
<1>6. (Judging /\ Counters)'
  BY <1>3 DEF Judging, Counters, OkRowsCounted, Passed, AcceptableBlock, original_block, test
<1> QED
  BY <1>4, <1>5, <1>6

LEMMA NextInv == IInv /\ [Next]_vars => IInv'
<1> SUFFICES ASSUME IInv, [Next]_vars PROVE IInv'
  OBVIOUS
<1> USE DEF Waiting, Returned, Measured
<1>1. ASSUME NEW tag \in Tags \ {"OK"}, NEW size \in {None, compressed_size},
             phase = "decompress" \/ size = None,
             phase \in {"compress", "decompress"}, Fails(tag, size)
      PROVE  IInv'
  <2>1. size \in Nat \cup {None}
    BY <1>1 DEF IInv, OneChild, MaxBlock
  <2> QED
    BY <1>1, <2>1, FailsStep
<1>2. CASE NoTests \/ PrintTotals
  BY <1>2, StopStep
<1>3. CASE StartCompress \/ StartDecompress
  BY <1>3, StartStep
<1>4. CASE BadTestFile
  <2>1. child.state \notin {"spawned", "running"}
    BY <1>4 DEF BadTestFile, IInv, OneChild
  <2> QED
    BY <1>4, <2>1, RaiseStep DEF BadTestFile
<1>5. CASE UndecodableOutput
  BY <1>5, RaiseStep DEF UndecodableOutput
<1>6. CASE NotAsciiOutput
  BY <1>6, RaiseStep DEF NotAsciiOutput
<1>7. CASE CompressTimeout
  BY <1>7, <1>1 DEF CompressTimeout, Tags
<1>8. CASE CompressError
  BY <1>8, <1>1 DEF CompressError, Tags
<1>9. CASE InvalidBase64
  BY <1>9, <1>1 DEF InvalidBase64, Tags
<1>10. CASE TooBigOutput
  BY <1>10, <1>1 DEF TooBigOutput, Tags
<1>11. CASE DecompressTimeout
  BY <1>11, <1>1 DEF DecompressTimeout, Tags
<1>12. CASE DecompressError
  BY <1>12, <1>1 DEF DecompressError, Tags
<1>13. CASE WrongBlock
  BY <1>13, <1>1 DEF WrongBlock, Tags
<1>14. CASE Pass
  BY <1>14, PassStep
<1>15. CASE ChildRuns \/ ChildExits
  BY <1>15, ChildStep
<1>16. CASE Terminated \/ UNCHANGED vars
  <2>1. UNCHANGED <<tests, phase, compressed_block, report, n_ok, total_points, child>>
    BY <1>16 DEF Terminated, vars, harness
  <2> QED
    BY <2>1 DEF IInv, TypeOK, OneChild, Judging, Counters, OkRowsCounted, Passed,
      AcceptableBlock, original_block, test, compressed_size
<1> QED
  BY <1>2, <1>3, <1>4, <1>5, <1>6, <1>7, <1>8, <1>9, <1>10, <1>11, <1>12, <1>13, <1>14,
    <1>15, <1>16 DEF Next, Harness

LEMMA Invariance == Spec => []IInv
BY InitInv, NextInv, PTL DEF Spec

-----------------------------------------------------------------------------
(* The totals.                                                             *)

LEMMA InitSum == Init => SumInv
<1> SUFFICES ASSUME Init PROVE SumInv
  OBVIOUS
<1>1. Len(report) = 0 /\ total_points = 0
  BY DEF Init
<1> QED
  BY <1>1, SumOfNone DEF SumInv

\* A row that is not OK is worth nothing, and nothing is added.
LEMMA FailsSum ==
  ASSUME IInv, SumInv, NEW tag \in Tags \ {"OK"}, NEW size \in Nat \cup {None}, Fails(tag, size)
  PROVE  SumInv'
<1>1. Row(tag, size) \in RowType /\ Row(tag, size).tag # "OK"
  BY DEF Row, RowType
<1>2. PICK n \in Nat : n = Len(report)
  BY DEF IInv, TypeOK
<1>3. report' = Append(report, Row(tag, size)) /\ tests' = tests /\ total_points' = total_points
  BY DEF Fails
<1>4. report'[n + 1] = Row(tag, size)
  BY <1>2, <1>3 DEF IInv, TypeOK
<1>5. Worth(n + 1)' = 0
  BY <1>1, <1>4 DEF Worth
<1>6. total_points' = total_points + Worth(n + 1)'
  BY <1>3, <1>5 DEF IInv, TypeOK
<1> QED
  BY <1>1, <1>2, <1>3, <1>6, SumStep DEF IInv

\* What Pass adds is the worth of the row that it prints.
LEMMA PassSum ==
  ASSUME IInv, SumInv, Pass
  PROVE  SumInv'
<1>1. compressed_size \in 0 .. MaxBlock
  BY DEF IInv, OneChild, Pass, Returned
<1>2. Row("OK", compressed_size) \in RowType /\ Row("OK", compressed_size).tag = "OK"
      /\ Row("OK", compressed_size).size = compressed_size
  BY <1>1 DEF Row, RowType, Tags, MaxBlock
<1>3. PICK n \in Nat : n = Len(report)
  BY DEF IInv, TypeOK
<1>4. /\ report' = Append(report, Row("OK", compressed_size)) /\ tests' = tests
      /\ total_points' = total_points + Points(Base64Size[original_block], compressed_size)
  BY DEF Pass, Passes, Score
<1>5. report'[n + 1] = Row("OK", compressed_size) /\ original_block = tests[n + 1]
  BY <1>3, <1>4 DEF IInv, TypeOK, original_block, test
<1>6. Worth(n + 1)' = Points(Base64Size[original_block], compressed_size)
  BY <1>2, <1>4, <1>5 DEF Worth
<1> QED
  BY <1>2, <1>3, <1>4, <1>6, SumStep DEF IInv

LEMMA NextSum == IInv /\ SumInv /\ [Next]_vars => SumInv'
<1> SUFFICES ASSUME IInv, SumInv, [Next]_vars PROVE SumInv'
  OBVIOUS
<1> USE DEF Waiting, Returned, Measured
<1>1. ASSUME NEW tag \in Tags \ {"OK"}, NEW size \in {None, compressed_size},
             phase = "decompress" \/ size = None, Fails(tag, size)
      PROVE  SumInv'
  <2>1. size \in Nat \cup {None}
    BY <1>1 DEF IInv, OneChild, MaxBlock
  <2> QED
    BY <1>1, <2>1, FailsSum
<1>2. CASE CompressTimeout \/ CompressError \/ InvalidBase64 \/ TooBigOutput
  BY <1>1, <1>2 DEF CompressTimeout, CompressError, InvalidBase64, TooBigOutput, Tags
<1>3. CASE DecompressTimeout \/ DecompressError \/ WrongBlock
  BY <1>1, <1>3 DEF DecompressTimeout, DecompressError, WrongBlock, Tags
<1>4. CASE Pass
  BY <1>4, PassSum
<1>5. CASE \/ NoTests \/ PrintTotals \/ StartCompress \/ StartDecompress
           \/ BadTestFile \/ UndecodableOutput \/ NotAsciiOutput
           \/ ChildRuns \/ ChildExits \/ Terminated \/ UNCHANGED vars
  <2>1. UNCHANGED <<report, tests, total_points>>
    BY <1>5 DEF NoTests, PrintTotals, StartCompress, StartDecompress, BadTestFile,
      UndecodableOutput, NotAsciiOutput, Raise, ChildRuns, ChildExits, Terminated, vars, harness
  <2> QED
    BY <2>1, SumStays
<1> QED
  BY <1>2, <1>3, <1>4, <1>5 DEF Next, Harness

\* A sum that exists and is total_points is the one that Earned computes.
LEMMA SumEarned ==
  ASSUME SumInv, TypeOK
  PROVE  total_points = Earned[Len(report)]
<1> DEFINE n == Len(report)
<1>1. n \in Nat
  BY DEF TypeOK
<1>2. \A f : SumsUp(f, Worths, n) <=>
             f = [k \in 0 .. n |-> IF k = 0 THEN 0 ELSE f[k - 1] + Worth(k)]
  <2>1. \A k \in 1 .. n : Worths[k] = Worth(k)
    BY DEF Worths
  <2>2. \A k \in 0 .. n : k # 0 => Worths[k] = Worth(k)
    BY <1>1, <2>1
  <2>3. ASSUME NEW f
        PROVE  [k \in 0 .. n |-> IF k = 0 THEN 0 ELSE f[k - 1] + Worths[k]]
               = [k \in 0 .. n |-> IF k = 0 THEN 0 ELSE f[k - 1] + Worth(k)]
    BY <2>2
  <2> QED
    BY <2>3 DEF SumsUp
<1>3. SumsUp(Earned, Worths, n)
  <2>1. PICK f : SumsUp(f, Worths, n)
    BY DEF SumInv
  <2>2. f = [k \in 0 .. n |-> IF k = 0 THEN 0 ELSE f[k - 1] + Worth(k)]
    BY <1>2, <2>1
  <2>3. Earned = [k \in 0 .. n |-> IF k = 0 THEN 0 ELSE Earned[k - 1] + Worth(k)]
    BY <2>2 DEF Earned
  <2> QED
    BY <1>2, <2>3
<1> QED
  BY <1>3 DEF SumInv

LEMMA SumInvariance == Spec => []SumInv
BY InitSum, NextSum, Invariance, PTL DEF Spec

-----------------------------------------------------------------------------
(* Theorems.                                                               *)

\* Type correctness: in particular there is never a row for a test that does
\* not exist, whatever the solutions of the listing did.
THEOREM TypeCorrect == Spec => []TypeOK
<1>1. IInv => TypeOK
  BY DEF IInv
<1> QED
  BY <1>1, Invariance, PTL

\* The script has at most one process, which it waits for and which was given
\* this test's block or what its own first run printed.
THEOREM OneChildAtATime == Spec => []OneChild
<1>1. IInv => OneChild
  BY DEF IInv
<1> QED
  BY <1>1, Invariance, PTL

\* n_ok, out of which the script prints "Passed tests", is the number of OK rows.
THEOREM PassedTestsCorrect == Spec => []OkRowsCounted
<1>1. IInv => OkRowsCounted
  BY DEF IInv, Counters
<1> QED
  BY <1>1, Invariance, PTL

\* The totals printed are those of the rows printed: total_points is the sum
\* of the points of the OK rows, each taken from the sizes of its own test.
THEOREM TotalsCorrect == Spec => []TotalsMatchRows
<1>1. IInv /\ SumInv => TotalsMatchRows
  BY SumEarned DEF IInv, Counters, TotalsMatchRows
<1> QED
  BY <1>1, Invariance, SumInvariance, PTL

\* The score is bounded by 2000 points a test for every solution.
THEOREM ScoreBounded == Spec => []ScoreBound
<1>1. IInv => ScoreBound
  <2>1. ASSUME IInv PROVE Len(report) \in Nat /\ Len(tests) \in Nat
    BY <2>1, HarnessAssumption DEF IInv, TypeOK
  <2> QED
    BY <2>1 DEF IInv, Counters, ScoreBound, TypeOK
<1> QED
  BY <1>1, Invariance, PTL

-----------------------------------------------------------------------------
(* How the script ends.                                                    *)

\* Unless an exception ended it, it stops with a row for every test; an
\* exception has its reason; and the script never waits with no process.
EndsRight ==
  /\ phase \in {"finished", "exit2"} => Len(report) = Len(tests)
  /\ phase = "crashed" =>
       \/ child.state = "none" /\ test <= Len(tests) /\ ~AcceptableBlock
       \/ child.state = "exited" /\ child.stdout \in NotUtf8 \cup NotAscii
  /\ phase \in {"compress", "decompress"} => child.state # "none"
  /\ phase = "next" => child.state = "none"

\* How far the script has come.
Place == [next |-> 0, compress |-> 1, decompress |-> 2, finished |-> 3, crashed |-> 3, exit2 |-> 3]
Progress == 3 * Len(report) + Place[phase]

LEMMA InitEnds == Init => EndsRight
BY DEF Init, EndsRight, NoChild

LEMMA NextEnds == IInv /\ EndsRight /\ [Next]_vars => EndsRight'
<1> SUFFICES ASSUME IInv, EndsRight, [Next]_vars PROVE EndsRight'
  OBVIOUS
<1> USE DEF Waiting, Returned, Measured
<1>1. ASSUME NEW tag, NEW size, Fails(tag, size)
      PROVE  EndsRight'
  BY <1>1 DEF Fails, EndsRight, NoChild
<1>2. CASE \/ CompressTimeout \/ CompressError \/ InvalidBase64 \/ TooBigOutput
           \/ DecompressTimeout \/ DecompressError \/ WrongBlock
  BY <1>1, <1>2 DEF CompressTimeout, CompressError, InvalidBase64, TooBigOutput,
    DecompressTimeout, DecompressError, WrongBlock
<1>3. CASE Pass
  BY <1>3 DEF Pass, Passes, EndsRight, NoChild
<1>4. CASE StartCompress \/ StartDecompress
  <2>1. phase' \in {"compress", "decompress"} /\ child'.state = "spawned"
    BY <1>4 DEF StartCompress, StartDecompress, Spawned, NoChild
  <2> QED
    BY <2>1 DEF EndsRight
<1>5. CASE NoTests \/ PrintTotals
  <2>1. /\ phase' \in {"finished", "exit2"} /\ UNCHANGED <<report, tests>>
        /\ tests = <<>> \/ Len(report) + 1 > Len(tests)
    BY <1>5 DEF NoTests, PrintTotals, test
  <2>2. Len(report) \in Nat /\ Len(tests) \in Nat /\ Len(report) <= Len(tests)
    BY HarnessAssumption DEF IInv, TypeOK
  <2>3. tests = <<>> => Len(tests) = 0
    OBVIOUS
  <2>4. Len(report) = Len(tests)
    BY <2>1, <2>2, <2>3
  <2> QED
    BY <2>1, <2>4 DEF EndsRight
<1>6. CASE BadTestFile
  BY <1>6 DEF BadTestFile, Raise, EndsRight, test, AcceptableBlock, original_block
<1>7. CASE UndecodableOutput \/ NotAsciiOutput
  <2>1. /\ phase' = "crashed" /\ child' = child
        /\ child.state = "exited" /\ child.stdout \in NotUtf8 \cup NotAscii
    BY <1>7 DEF UndecodableOutput, NotAsciiOutput, Raise
  <2> QED
    BY <2>1 DEF EndsRight
<1>8. CASE ChildRuns \/ ChildExits
  <2>1. child.state \in {"spawned", "running"} /\ child' \in ChildType /\ UNCHANGED harness
    BY <1>8, ChildStep DEF ChildRuns, ChildExits, IInv, TypeOK
  <2>2. phase \in {"compress", "decompress"} /\ UNCHANGED phase
    BY <2>1 DEF IInv, OneChild, harness
  <2>3. child'.state # "none"
    <3>1. CASE ChildRuns
      BY <3>1 DEF ChildRuns, IInv, TypeOK, ChildType
    <3>2. CASE ChildExits
      BY <3>2 DEF ChildExits, IInv, TypeOK, ChildType
    <3> QED
      BY <1>8, <3>1, <3>2
  <2> QED
    BY <2>2, <2>3 DEF EndsRight
<1>9. CASE Terminated \/ UNCHANGED vars
  BY <1>9 DEF Terminated, vars, harness, EndsRight, test, AcceptableBlock, original_block
<1> QED
  BY <1>2, <1>3, <1>4, <1>5, <1>6, <1>7, <1>8, <1>9 DEF Next, Harness

\* The script stops after the last test's row, or on an exception that only a
\* test file or an output that is not text of base64's kind raises; and until
\* then it never waits for a process that is not there.  Together with
\* ScriptAdvances this is EveryTestJudged but for the fairness of the script.
THEOREM EndsWithEveryRow == Spec => []EndsRight
BY InitEnds, NextEnds, Invariance, PTL DEF Spec

\* A row more is a step on, whatever the script waited for.
LEMMA RowAdvances ==
  ASSUME IInv, phase \in {"compress", "decompress"}, phase' = "next", NEW row,
         row \in RowType, report' = Append(report, row)
  PROVE  Progress' > Progress
<1>1. Len(report) \in Nat /\ Len(report') = Len(report) + 1
  BY DEF IInv, TypeOK
<1>2. Place[phase] \in 1 .. 2 /\ Place[phase'] = 0
  BY DEF Place
<1> QED
  BY <1>1, <1>2 DEF Progress

\* No step of the script goes back, and there are at most 3 * Len(tests) + 3: the
\* loop comes to its end whatever the solution does, as EveryTestJudged says.
THEOREM ScriptAdvances ==
  Spec => /\ [][Harness => Progress' > Progress]_vars
          /\ [](Progress <= 3 * Len(tests) + 3)
<1>1. ASSUME IInv, Harness
      PROVE  Progress' > Progress
  <2> USE DEF Waiting, Returned, Measured
  <2>1. ASSUME NEW tag \in Tags, NEW size \in {None, compressed_size},
               phase = "decompress" \/ size = None,
               phase \in {"compress", "decompress"}, Fails(tag, size)
        PROVE  Progress' > Progress
    <3>1. size \in Nat \cup {None}
      BY <1>1, <2>1 DEF IInv, OneChild, MaxBlock
    <3>2. Row(tag, size) \in RowType
      BY <3>1 DEF Row, RowType
    <3> QED
      BY <1>1, <2>1, <3>2, RowAdvances DEF Fails
  <2>2. CASE CompressTimeout \/ CompressError \/ InvalidBase64 \/ TooBigOutput
    BY <2>1, <2>2 DEF CompressTimeout, CompressError, InvalidBase64, TooBigOutput, Tags
  <2>3. CASE DecompressTimeout \/ DecompressError \/ WrongBlock
    BY <2>1, <2>3 DEF DecompressTimeout, DecompressError, WrongBlock, Tags
  <2>4. CASE Pass
    <3>1. compressed_size \in 0 .. MaxBlock
      BY <1>1, <2>4 DEF IInv, OneChild, Pass
    <3>2. Row("OK", compressed_size) \in RowType
      BY <3>1 DEF Row, RowType, Tags, MaxBlock
    <3> QED
      BY <1>1, <2>4, <3>2, RowAdvances DEF Pass, Passes
  <2>5. CASE \/ NoTests \/ PrintTotals \/ StartCompress \/ StartDecompress
             \/ BadTestFile \/ UndecodableOutput \/ NotAsciiOutput
    <3>1. /\ report' = report
          /\ \/ phase = "next" /\ phase' \in {"compress", "finished", "crashed", "exit2"}
             \/ phase = "compress" /\ phase' \in {"decompress", "crashed"}
             \/ phase = "decompress" /\ phase' = "crashed"
      BY <2>5 DEF NoTests, PrintTotals, StartCompress, StartDecompress, BadTestFile,
        UndecodableOutput, NotAsciiOutput, Raise
    <3>2. Place[phase] \in Nat /\ Place[phase'] \in Nat /\ Place[phase'] > Place[phase]
      BY <3>1 DEF Place
    <3>3. Len(report) \in Nat
      BY <1>1 DEF IInv, TypeOK
    <3> QED
      BY <3>1, <3>2, <3>3 DEF Progress
  <2> QED
    BY <1>1, <2>2, <2>3, <2>4, <2>5 DEF Harness
<1>2. IInv => Progress <= 3 * Len(tests) + 3
  <2> SUFFICES ASSUME IInv PROVE Progress <= 3 * Len(tests) + 3
    OBVIOUS
  <2>1. Len(report) \in Nat /\ Len(tests) \in Nat /\ Len(report) <= Len(tests)
    BY HarnessAssumption DEF IInv, TypeOK
  <2>2. Place[phase] \in 0 .. 3
    BY DEF IInv, TypeOK, Stopped, Place
  <2> QED
    BY <2>1, <2>2 DEF Progress
<1>3. IInv /\ [Next]_vars => [Harness => Progress' > Progress]_vars
  BY <1>1
<1> QED
  BY <1>2, <1>3, Invariance, PTL DEF Spec
=============================================================================
