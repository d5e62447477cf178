# Verification of the TON block compressors

TLA+ specifications, TLC models and TLAPS proofs for this repository: an entry to
the TON block compression contest. A *solution* is a process that reads
`compress` or `decompress` and one base64 token, and prints one base64 token.
Compressing deserializes a bag of cells, serializes it in a smaller mode and
packs it with LZ4; decompressing goes back and must print the block exactly as it
was (mode 31). A script runs a solution over the files of `tests/` and scores it.

Contents: 1 the system, 2 the hazards, 3 the modules and the code, 4 the runs,
5 what disagrees with the code, 6 the proofs, 7 what is not modelled, 8 what could come next.

## 1. The system

| Component | Code | State | Operations |
|---|---|---|---|
| Test harness | `tester/run_tests.py`; `test.py` is the same with a limit of 2 s for 20 s | list of files, current test, child process, compressed block, `n_ok`, `total_points`, rows printed | start compress, judge, start decompress, judge, score, totals |
| Gzip solution | `tester/solution.cpp` | stdin, a `BufferSlice`, the chunk loop | boc in mode 2, LZ4 in pieces of 1 MiB, gzip; and back |
| Example solution | `examples/solution.cpp` | stdin, a `BufferSlice` | boc in mode 2, one LZ4 block; and back |
| Reference solution | `ton-compress-contest-linux/solution.cpp` and its Windows twin | the same | the same, with `CHECK` for bad usage |
| File solution | `solution.cpp` | `input.txt`, `output.txt`, a `BufferSlice`, the chunk loop | boc in mode 0, LZ4 in pieces of 128 KiB; and back |
| Chain buffer | `include/tdutils/td/utils/buffer.h` | nodes with counts, flags and links; writer; readers with two iterators each | append, prepare_append_at_least, extract_reader, sync_with_writer, prepare_read, confirm_read, advance, cut_head, move_as_buffer_slice, destructors |
| References to cells | `include/crypto/common/refcnt.hpp`, `AtomicRef.h` | a counter in each object; a word of pointer and reserve | make_ref, copy, clear, write; load, store, store_if_empty, extract, constructors, destructor |
| Queue between threads | `include/tdutils/td/utils/MpmcQueue.h`, `HazardPointers.h` | a chain of nodes with two counters and slots; a hazard pointer and a list of nodes to delete for each thread | push, try_pop, pop, gc; protect, clear, retire |
| Byte flows, other queues, epochs, pools, cells in a file | other headers of `include/` | | not modelled, section 7 |
| TON library | declarations only (`boc.h`, `lz4.h`, `Gzip.h`, `base64.h`, ...) | none | operators over symbolic byte strings |

How they interact. The script starts a solution with `subprocess.run`, writes its
standard input, waits with a timer, reads exit code and standard output; the two
share nothing else, and the script runs it twice per test. The stdio solutions can
also be run by hand, on each other's output. The file solution meets its user,
and its own later runs, through two files. The solutions call the library; an error there
is a `Result` whose `move_as_ok` ends the process by `LOG(FATAL)`
(`Status.h:271-275`), which no `catch` sees. The chain buffer is a header that a
writer thread and a reader thread share without locks. The solutions hold the root
cell by a `Ref`; the library's threads share cells by `AtomicRef`, and the queue
is there for threads to hand work to each other. No program here starts a thread:
the last three are headers that travel with the repository, modelled for
what their interfaces allow.

What is hard. For the script: a process that may do anything at any time,
including dying or never answering; many early exits in one loop body. For the
solutions: pieces of a pipeline that must agree on limits and modes although they
are in different functions, or different programs, and failures that are reported in
three ways (abort, exit code 1, an empty result with exit code 0). For the
file solution: files that outlive a process killed at any statement. For the chain
buffer: plain fields that are shared under the protection of an atomic flag. For the
references: a count that is spread over objects, threads and the words
they share. For the queue: memory that is deleted and used again while others are about to
enter it.

What makes each correct. *Script*: every test has exactly one row, totals are
those of the rows, at most one process lives, it ends. *Solutions*: a block comes
back exactly when it is within the limits; no process ever prints another block; the
exit code tells success. *File solution*: a failed or killed run keeps earlier output,
"Operation completed" means that the result for the input was written. *Chain buffer*: bytes in order,
none lost, none repeated, no access to a freed node, no leak. *References*: counters equal the
references there are, an object that is written to is nobody else's, and the lock-free class
does what the one with the lock does. *Queue*: first in, first out, no value lost or doubled, no
false empty answer, no deleted node in use.

## 2. The hazards

`PROJECT.json` lists each at its line with the properties that would catch it going
wrong. In short: the timer of `subprocess.run` against a late answer; the ways out of the
loop body; exceptions the script does not catch; division by a sum of sizes of
which one may be zero; equal chunk size and decompression limit; emptiness tested after
use; failures that look like success; LZ4 blocks without lengths between them;
truncation of the output file before the write; a stream whose state nobody looks
at; order of loads and plain links in the chain buffer, and copies of iterators that know
different states of it; counts taken in advance and given back in an `AtomicRef`, and its reserve
of 16 bits; slots claimed before they are filled, and pointers announced too late, in the queue.
One has no property: the two references of `ExtCell`, of which no program makes one.

## 3. The modules and the code

A definition bears the name of the function, variable or field it stands for where
TLA+ allows it; `map` in `PROJECT.json` gives the lines. Definitions with a comment
that starts with "Fault:" are not part of any specification: each is an operator with
one plausible mistake in it, kept beside the original to show that a property
notices the mistake.

```
TonLib ── StdioProcess ─┬─ GzipSolution ──────┐
   │                    ├─ ExampleSolution ───┼─ Solutions ─┬─ SolutionTests ── MCSolutionTests
   │                    └─ ReferenceSolution ─┘             │    ├─ refines RunTests ── MCRunTests
   │                                                        │    └─ refines Contest
   └─ RootSolution ── MCRootSolution                        └─ CommandLine ── MCCommandLine
 ChainBuffer ── refines ByteStream
 AtomicRef ── refines RefCell
 MpmcQueue ── MCMpmcQueue
```

The theorems about a module `M` are in `M_proofs`, which extends it;
`SolutionTests_proofs` and `CommandLine_proofs` share `Solutions_proofs`.

**TonLib** says what the callers of the library rely on. The library is not in the
repository, so a byte string is a record of what it was made from: `Boc(b, m)`,
`Lz4(s, frames)`, `Gz(s)`. Sizes are in KiB since all limits are multiples of 1024.
The assumptions, each of which a reader may want to question:
- Serializing in a mode and deserializing gives the same cell; a mode only adds
  bytes (`BocSize[b][0] <= BocSize[b][m]`).
- `lz4_compress` makes one raw block. `Lz4Decompress` restores input that is one whole
  block if it fits the limit. Of several blocks in a row it makes an error or bytes
  that start like the original and go wrong (`Mangled`), never the original.
- Mangled bytes with the checksum of mode bit 1 do not deserialize; without it they
  may be an error or *any other* block.
- Bytes that no encoder wrote (`Noise`) are no bag of cells and no gzip data.
- `gzencode` with ratio 1.0 answers an empty slice for data it does not shrink
  (the blocks outside `GzFits`); `gzdecode` answers an empty slice for an error.
- `base64_decode` of `common/util.h` (gzip and file solutions) answers an empty
  slice for bad text, the one of `td/utils/base64.h` a `Result`.

**StdioProcess** is the process as its parent sees it (`child`: state, stdin, stdout,
exit code) and the memory of `main` (`pc`, `buf`, `i`, `frames`). `MoveAsOk`
goes on with the value of a `Result` or aborts with -6. **GzipSolution**,
**ExampleSolution** and **ReferenceSolution** have one action per statement that can
fail; `BadAlloc` is a failed allocation at any statement, which ends in an empty line
and 0 (inside `compress`/`decompress` of the gzip solution), in 1 (where `main` catches) or
in an abort (reference).

**RunTests** is the script over an arbitrary process: `ChildRuns` and `ChildExits` let it exit
at any time with any code and text. `phase` is the place in the loop body, one action per way
out of it; `report` is the rows printed; `tests` any listing out of `Listings`. A
text is a token; `NotUtf8` and `NotAscii` are those on which `subprocess.run` and
`b64decode` raise exceptions that nobody catches. Points are rounded down.

**Solutions** is a process of any of the three: `prog` says which, `Work` is a step of its
`main`, `Form` and `Limit` what it makes of a block and what it can restore.

**SolutionTests** puts a solution in the place of that process: the script's actions
through `INSTANCE RunTests`, the solution's through its own module. A script action
taken while the process lives is a timeout. `hurt` records the tests struck by a timeout
or a failed allocation. **Contest** is the abstract specification: blocks judged one
after the other, a block may pass only if the solution can carry it, and judging ends.

**CommandLine** runs the three stdio solutions by hand, any of them on any mode word and
any text at hand, and again on what earlier runs printed. Its `TypeOK` is of all the state: what the
process was given and left, the statements that its program has, cell or bytes in hand at each, the
texts at hand and the log.

**RootSolution** is the file solution with its user: edit `input.txt`, turn
`output.txt` around to be decompressed, start, be killed, have the disk full. `before`
and `faults` record the output the run found and what struck it. A kill leaves the file as it is, or, in the
middle of the write, cut. `IsResult` says what the right `output.txt` is for an `input.txt`;
for one that is decompressed `GivesBack` ties the block that comes back to the bytes that were given.

**ChainBuffer** has one action per access to something the threads share. A byte is its
position in the stream, so that order, loss and repetition are arithmetic on
positions. `head_`, `tail_` and `it` (the iterators `begin_` and `end_`) are the
fields of the code; `drop` is the reference a thread is about to give up, one
decrement per step, and goes on to the next node when the last one goes
(`dec_ref_cnt`, `clear_nonrecursive`; the load in `unique()` and the decrement after
it are one step, since nobody else can clone a node whose only reference one holds).
Flags and counts are released and acquired, which is why steps may be taken to
interleave; `next_` is plain, which is what `NoRaceOnNext` is about. A node's bytes are kept
alive by the iterator's own `BufferSlice`, whose count is not modelled. `extract_reader`'s first
`advance_till_end` may run beside appends, which is more than a caller that hands
the reader over would see. `cut_head` gives a second reader (`begin2`, `end2`), of fixed size,
that lives and dies beside the first. `call` is the function of a reader that runs: the loops
of `advance_till_end`, `advance`, `cut_head` and `move_as_buffer_slice` are rounds of
`prepare_read`, which is why `Return` says what each of them does with the bytes it gets.
`read_as_buffer_slice` is `PrepareRead` and `ConfirmRead`. The capacity of a fresh `BufferWriter`
is a constant, as its code is not in the repository. **ByteStream** is the abstract
specification: counts of bytes written, seen and consumed.

**AtomicRef** is `Ref`, its counter and `AtomicRefLockfree` with any number of threads, each with one
`Ref` (`held`) and the references that its operation has still to pass on (`owed`). The word is a
pointer and a reserve. A loop around a compare-exchange is one action: a round that fails only reads again,
so the action is the round that succeeds, on the word as it is then. `load` of a word with an empty
reserve has no such round and waits. References that are counted before they are known to be needed
are `owed` until they are put in the word or given back, which is what a counter
has to agree with. Objects have places in memory, and a place is used again.
**RefCell** is `AtomicRefSpinlock`: the same operations, one at a time, on objects that exist as long as
anybody refers to them. An operation of `AtomicRef` takes effect at its exchange of the word; the
`Ref` that `store` was handed stays the caller's until then. The two classes differ in one
way, which `RefCell` leaves open: `store_if_empty` moves from its argument under the lock, and
leaves it to the caller without.

**MpmcQueue** is the queue and the hazard pointers as it uses them: one pointer for each thread, one access
to shared memory a step. A slot that its reader reaches before its writer is `Taken`, and both try another.
`retire` looks at one thread's pointer a step (`Look`). A deleted node's place is blank and may
be given to the next `new`. `C++` leaves open which counter of `write_pos <= read_pos` is read first; the model reads
`write_pos` first. In the other order a reader finds the queue empty in fewer cases, which `EmptyIsTrue` is about, and may
try a slot in vain in a few more (when another reader and a writer came between), which the model leaves out.
`Defined` says that no writer has used a deleted node so far, which finding 5 is about. What a step
does after that is undefined, so `DefinedSpec` takes none: what is shown of it holds up to there.
**MCMpmcQueue** makes the places alike.

## 4. The runs

| Run | Model | States | What it shows |
|---|---|---|---|
| `harness` | MCRunTests | 3 853 | whatever a process does, totals match rows, one child at a time, at most 2000 points a test, the script ends with a row for each test |
| `solutions` | MCSolutionTests | 40 901 | over each stdio solution, a test that no timeout and no failed allocation struck passes exactly when its block is within the limits; no other block is printed; the exit code tells success; both refinements |
| `command_line` | MCCommandLine | 126 043 | two runs of any programs: example and reference solution read each other, gzip only itself; nothing but blocks is compressed; every run ends |
| `root_files` | MCRootSolution | 32 274 | failed and killed runs keep `output.txt`, but for the window after it was opened; "Operation completed" means that it holds the result for the input, faults aside; a block comes back exactly when it was one chunk |
| `chain_buffer` | ChainBuffer | 821 561 | order, size, memory and termination with every interleaving of the two threads, heads cut off, advanced in and moved out; an advance never falls short; the byte stream refined |
| `atomic_ref` | AtomicRef | 267 774 | counters exact, no object used after it was deleted or leaked, copy on write, a waiting load gets on; the class with the lock refined |
| `mpmc_queue` | MCMpmcQueue | 1 923 342 | no value lost, doubled or overtaken, no false empty answer, no node leaked or retired twice, no reader in a deleted node, up to finding 5 |

**Bounds.** The state space of each run is finite; all of it is explored.
- `harness`: 8 texts, one on each side of every test the script makes (empty, a block,
  exactly `2 ** 21` bytes, 1 KiB more, another base64 text, not base64, not ASCII,
  not UTF-8), three exit codes, five listings of up to three tests. A test depends on
  earlier ones only through counters and rows, so two tests after one another show what
  leaks from one to the next, and the third follows a file the asserts refuse.
- `solutions`: six blocks on both sides of every limit: one chunk exactly (1024 KiB in mode 2),
  one KiB more, one that gzip cannot shrink, the largest the script admits, one that LZ4
  makes larger than that, and a common one; besides a block in mode 2, base64 that is no
  block and text that is not base64. Listings of two or three.
- `command_line`: `MaxRuns = 2`, since a run depends on the past only through texts, and
  a text that was compressed and then decompressed or compressed again has seen all there is;
  three mode words.
- `root_files`: blocks of one chunk exactly, a chunk and 1 KiB, 225 KiB (as
  `tests/1-001.txt` is in mode 0) and three chunks; LZ4 that is whole and LZ4 in pieces, of mode 0 and of a
  mode with a checksum, so that what LZ4 makes of pieces is restored as another block in one case and must be
  refused in the other. Runs are not bounded: the files and the memory of one run are the whole state.
- `chain_buffer`: `MaxBytes = 3` over buffers of 1 and 2 bytes, so that appends fit, fill a buffer
  exactly, are cut, and take a node of their own, with copied bytes before and after it; the
  thresholds of 1 KiB, 4 KiB and 256 bytes become 2, 2 and 1. Every byte may have
  a node of its own, so that iterators that were copied from one another are up to three nodes
  apart. One head at a time is cut off, any number one after the other.
- `atomic_ref`: three threads, two objects, `Batch = 4` for 100. Two threads race and the third takes what
  they left behind; two objects are the least with which a word is replaced by another and its
  old place used again. With 4 the reserve has a half that is neither 0 nor 1, so a reserve that is low,
  one that is empty and one that was refilled twice are three things.
- `mpmc_queue`: two writers, two readers, one call each, of any length (each may go round its loop
  as often as it takes), one slot a node for 1024, three places. With one slot every other push
  makes a node and every other pop unlinks one, so that two calls of each side have a node filled,
  linked, used up, retired, deleted and its place used again. A `push` that needs a node while none
  of the places is free waits: the only place where the bound is felt.

**Fairness.** `harness` and `solutions`: weak fairness of the script only. It is
never stuck: either the process has exited or the timer of `subprocess.run` fires. Nothing
is assumed of the process. `command_line`: weak fairness of the running
process, which the operating system schedules, and none of the user or of
faults. `root_files` states safety only. `chain_buffer`: a call of the reader runs to its end (weak fairness); that its owner calls
`sync_with_writer` and `prepare_read` again and takes bytes it is handed is strong
fairness, since other calls may come between; nothing is assumed of the writer. `atomic_ref`: a thread inside an
operation is scheduled now and then. Not every load ends by this: others may take the reserve each time. `Refilled`
says that the reserve does not stay empty. `mpmc_queue` assumes no fairness:
the code promises none to a thread whose slots others keep taking.

**Deadlock** is checked in every run but those of the queue. The stuttering steps `Terminated` and
`Done` mark where a model is meant to stop; threads of the queue stop when their calls are used
up, or wait for a free place, which is a bound of the model.

**Mutants.** `PROJECT.json` names for every property a mistake in the code's model
that violates it under the same configuration: a dropped `continue`, a missing
kill, a wrong flag bit, a raised limit without the chunk size, a checksum that is not
tested, an output file opened too early, an unchecked flag, a reference not counted.

## 5. Where the code disagrees with itself

Each is the counterexample of a run, and `findings` quotes the lines.

1. `output_ends_script`: `run_tests.py` has a row for output that is not base64, but
   catches `binascii.Error` only. Output that is not ASCII (`ValueError`) or not
   UTF-8 (`UnicodeDecodeError`) ends the script, without totals.
2. `large_blocks`: `tester/solution.cpp` cannot restore a block whose mode-2 form is over
   1 MiB, although the script admits 2 MiB. The block of the run is 1 KiB over, 1025 KiB in mode 2: the
   decompressor aborts and the script prints RE.
3. `bad_input_aborts`: `tester/solution.cpp` tests the result of `gzdecode` after
   `lz4_decompress(...).move_as_ok()` has aborted on it.
4. `split_blocks`: `solution.cpp` cannot restore what it compressed in more than one
   chunk of 128 KiB. `tests/1-001.txt` and `tests/1-005.txt` are such blocks.
5. `two_writers`: the "MPMC queue" can delete a node that a producer is in. A reader
   retires a used-up node that `write_pos_` still names, as long as the writer that linked the
   next one has not moved it on. Only that writer's hazard pointer keeps the node, and `is_protected`
   looks at one thread after the other: a second writer with a smaller `thread_id` announces the
   node after its place was looked at, and the first one leaves before its own is.

## 6. The proofs

Every theorem is about every value of the constants: any blocks of any sizes, any listing,
any number of threads, bytes or runs, every behaviour.

| Module | Theorem | States |
|---|---|---|
| `RunTests_proofs` | `TypeCorrect` | `Spec => []TypeOK` |
| | `OneChildAtATime` | `Spec => []OneChild` |
| | `TotalsCorrect` | `Spec => []TotalsMatchRows`; its first half alone is `PassedTestsCorrect` |
| | `ScoreBounded` | `Spec => []ScoreBound` |
| | `EndsWithEveryRow` | `Spec => []EndsRight`: what holds when the script stops |
| | `ScriptAdvances` | every step of the script raises `Progress`, which is at most `3 * Len(tests) + 3` |
| `SolutionTests_proofs` | `Verdicts` | `Spec => []PassIffFits` |
| | `NoOtherBlock` | `Spec => []NeverAnotherBlock` |
| | `CodeTells` | `Spec => []CodeTellsOutput` |
| | `StepsOfRunTests` | `Spec => Script!Init /\ [][Script!Next]_(Script!vars)`: the solution is one of the processes that `RunTests` allows |
| | `JudgesAsContest` | `Spec => Scores!Init /\ [][Scores!Next]_(Scores!vars)`: the same for `Contest` |
| `CommandLine_proofs` | `TypeCorrect` | `Spec => []TypeOK` |
| | `ProgramsInterchange` | `Spec => []Interchange` |
| | `OnlyTheBlock` | `Spec => []OnlyTheBlockWithin` |
| | `BlocksOnly` | `Spec => []CompressesBlocksOnly` |
| | `RunsAdvance` | every step from a state in which a process lives is an `Advance` of it, through at most eight stages |
| `RootSolution_proofs` | `TypeCorrect` | `Spec => []TypeOK` |
| | `FailedRunKeeps` | `Spec => FailedRunKeepsOutput` |
| | `CompletedWritten` | `Spec => CompletedMeansWritten` |
| | `RestoresOneChunk` | `Spec => RestoresIffOneChunk` |
| `ChainBuffer_proofs` | `TypeCorrect`, `NoOverflow` | `Spec => []TypeOK`, `Spec => []WithinBuffer` |
| | `BytesInOrder`, `SizeCounts` | `Spec => []InOrder`, `Spec => []WithinSize` |
| | `CallsComplete`, `SyncComplete` | `Spec => []AdvanceComplete`, `Spec => []SyncSeesAppended` |
| | `NextNotRaced` | `Spec => []NoRaceOnNext` |
| | `NodesAlive`, `NodesDeleted` | `Spec => []NoUseAfterFree`, `Spec => []NoLeak` |
| | `Implements` | `Spec => ImplementsByteStream` |
| | `CallsAdvance` | every step of a call takes bytes, leaves a node, goes on or gives up a reference |
| `AtomicRef_proofs` | `TypeCorrect` | `Spec => []TypeOK` |
| | `CountsExact` | `Spec => []CountExact` |
| | `CopyOnWrite` | `Spec => []WriteExclusive` |
| | `Implements` | `Spec => ImplementsRefCell` |
| | `LowReserveNoticed` | `Spec => []Noticed`: while the reserve is low, a thread is on its way to refill it |
| `MpmcQueue_proofs` | `TypeCorrect`, `ReadersAlive` | `Spec => []TypeOK`, `Spec => []ReadersSafe` |
| | `NoneLeaked`, `NothingLost` | `DefinedSpec => []NodesAccounted`, `DefinedSpec => []Conserved` |
| | `EmptyWhenFound`, `FirstInFirstOut` | `DefinedSpec => []EmptyIsTrue`, `DefinedSpec => []InOrder` |
| | `OneWriterAlive` | with one writer, `Spec => []NoUseAfterFree` |
| | `OneWriterQueue` | with one writer, `Spec => [](Conserved /\ InOrder /\ EmptyIsTrue /\ NodesAccounted)` |

Each proof has the same shape: an inductive invariant (`IInv`; of the queue, `DefinedInv`), checked by TLC as an invariant
of the component's run before it was proved (`Ahead`, below, with one writer and two readers); a lemma that the initial states have it; one lemma for each
action, or kind of action, that it is kept; and the properties as consequences.

**The script.** The theorems rest on `HarnessAssumption` alone: listings are sequences of texts, a text has
a size or none, only the empty text has size 0, zero is an exit code. TLC evaluates it in
every run of the harness. None of the properties is inductive. `ScoreBound` needs that a test that
passes adds at most 2000 points, hence that the block's size is not zero (the empty block is
refused, `Judging`) and that the compressed size is one that the script accepted
(`OneChild`). `n_ok <= Len(tests)` needs that a row is counted at most once (`Counters`), and
that a row is printed only for a test that exists (`Judging` again). So the invariant is
`IInv == TypeOK /\ OneChild /\ Judging /\ Counters`. There is a lemma per kind of step:
`FailsStep` (all the rows that are not OK), `RaiseStep`, `PassStep`, `StartStep`,
`StopStep` and `ChildStep`; `NextInv` sorts the actions into these.
`OkRowsAppend` says what a new row does to the number of OK rows, `ShareBound` and
`PointsBound` bound the points by integer division.

`TotalsCorrect` is about a sum over the rows, `Earned`, a recursive function. That such a function
exists and is only one would need induction over the rows. So both are carried along the
behaviour instead: `SumInv` says that some function adds up the points of the rows so far, and that each function that does
ends in `total_points`. `SumOfMore` extends it by the row that is printed, `SumStays` by none, and the initial report
is empty; the induction is that of `[]` itself.

`EndsWithEveryRow` and `ScriptAdvances` are `EveryTestJudged` without fairness. The script stops
only with a row for each test or on one of the three exceptions, for which there then is a reason; it never waits for a
process that is not there; and each of its steps raises `Progress`: one for each process it starts
and one for the row, so at most three for a test.

**The solutions.** `Solutions_proofs` is about one process, whoever started it. `ProcessInv`
says what is in memory at each statement (`GzipMemory`, `PlainMemory`): the buffer is what the
statements so far make of the text, the chunk loop has cut exactly the pieces before `i`, and
what was printed is `Due`: the form of the block that was given, or the block in mode 31, and only
if the process can carry it (`Carried`: within the limit and, for gzip, shrunk). `Answered` is the
converse, which a failed allocation breaks: a process that printed nothing was given nothing it could carry.
`WorkKeeps` proves both for a step of any of the programs. `Answered` had to say more than the
runs suggested: `Interchange` claims that a refused text ends in SIGABRT, which follows only if
the exit codes of the other ways to print nothing are known, too (`Excused`: a block that gzip does
not shrink; bad usage). `ProgramsAssumption` names the three programs.

*Under the script.* `PassIffFits` is about two processes, one after the other, so `IInv` of
`SolutionTests_proofs` carries over what the first one made: `TestInv` ties a child's input to the
test's block or to `compressed_block`, and `Packed` says that this is the block's form, or is empty
and gzip or a strike is why. `HurtInv` keeps a strike with the test in which it happened.
`TestsAssumption` says that test files are what `run_tests.py` is given there: blocks in some mode,
base64 that is no block, text that is no base64, or nothing.
`StepsOfRunTests` and `JudgesAsContest` are the safety parts of the refinements `ImplementsRunTests` and
`ImplementsContest`, each action mapped to an action or a stutter: each statement of a solution is a stutter of the
arbitrary process, except the last one, which is `ChildExits`. `PipeAssumption` proves that
`HarnessAssumption` holds for the texts that are substituted, so that what is proved of `RunTests` carries over.

*By hand.* `LogInv` keeps of every run that ended what `ProcessInv` and `Answered` say
(`Lawful`), and `ShelfInv` that whatever is at hand is from the user or from one of the programs (`Known`), for
any number of runs.
`HandedInv` says that a process was given one of the texts at hand, which with `ProcessInv` is what `TypeCorrect` needs.
`RunsAdvance` is `RunsEnd` without fairness. `Stage` numbers the statements of all three programs; while a process lives,
a step is of that process, and takes it from the start into `main`, to a later stage, to its end, or on in the loop over
the pieces towards the size of the buffer. So no text makes a program loop.

**The file solution.** `IInv == Types /\ FilesInv /\ KeepInv /\ DataInv`; `Types` is `TypeOK` but for what is in hand.
`FilesInv` says what the two files can hold: what the user gave, a result, or a cut one. `KeepInv` is
why failed and killed runs keep the output: it is untouched until a result is in hand and the file is opened, and empty until the
write. `DataInv` follows the data through the statements, always as what was made of this run's input: the block
it is (`Compresses`) with the pieces of the chunk loop (`ChunksInv`), or what LZ4 makes of it (`Unpacked`) and the
block that may be made of that (`Decompresses`). `Result` is what these come to, whence `CompletedWritten` and the last case of
`FailedRunKeeps` (`ResultWritten`). `GivenBack` adds that of what `compress` made the block given back is the one
it was made of exactly if that was one piece, whence `RestoresOneChunk`. `TypeCorrect` follows from
`DataInv`, which tells the kind of what is in hand (`InHandKinds`). `InputAssumption`: what a user types is a command with a
text that is empty, bad, or a known byte string.

**The chain buffer.** `IInv` has seven parts besides the types. `WriterInv` and `ChainInv`: where one node
ends the next one begins, the flags `has_writer` and `sync_flag` agree with where the writer is, and all but the
last node are linked. `IterInv` (`OnChain`): an iterator's offset is its node's first byte and its place in it, and it knows
no more of the node than there is, all of it once it does not synchronise any more.
`PresInv`: which iterators exist during which call. `LocalInv`: what `prepare_read` has learnt between its
loads; without it the plain read of `next_` cannot be shown to come after the flag. `SizeInv`: how the
offsets of the iterators are ordered, hence that an advance cannot run out. `RefInv`: every counter
is the number of references there are, and the nodes that were deleted are the first ones up to some
`k`; the last is what keeps the rest of the chain alive while the first node goes, and gives `NoLeak`. `Implements`: the steps of `prepare_read`
up to the one that hands out bytes are stutters of `ByteStream`. `ChainAssumption`: sizes are natural numbers and
a fresh buffer is not empty.
`CallsAdvance` is what `EverythingRead` needs besides fairness: no call of the reader runs for ever, though `advance_till_end` asks
until there is nothing more and the writer goes on meanwhile. Bytes taken are at most those written (`TakesBytes`), a node is left for
the next one in the chain or for good (`LeavesNode`), and otherwise the statement is a later one (`GoesOn`).

**References.** The theorems rest on `AtomicRefAssumption`: finitely many threads, a null pointer that is no object, a batch of
at least 2. The inductive invariant is `IInv == TypeOK /\ Owing /\ CountExact /\ WriteExclusive`. `Owing`
ties what a thread owes to where it is (a batch of the object it holds while it refills, a batch and one
while it stores or fills, nothing while it is idle). Without it `CountExact` does not say
that a decrement takes no more than there is. `CountExact` is a sum over threads, written as the size of a
set of references; `SplitHands` takes one thread's part out of it and `MoveHand` says how the size changes when only that
thread moves, so that `Step` reduces every action to one equation between two numbers. `InUse`, `Fresh` and
`Alone` are what a counter tells about the rest of the state: somebody holds it, so it is above 0; it
is free, so nobody refers to it; it is 1, so nobody else does. The last gives `WriteExclusive`.
For `Implements` each action has a lemma that names the operation of `RefCell` it is, or shows that
value, references and writers are as before. Types are needed there too: a new object is one that
nobody refers to because its counter is 0.
`LowReserveNoticed` is why a load never waits in vain (`Refilled` without fairness): below half a batch, some thread holds
the object and is at `reserve` or `refill`. Two facts carry it. A reference that takes the reserve below half
is taken by a thread that then goes on to `reserve`; and a thread that gives up its batch does so because
the word is another object's, or not low.

**The queue.** `MpmcQueueAssumption` says that the threads are `0 .. LastThread`, that a thread writes or
reads, and that a node has a slot. The argument goes in layers, as each needs the ones before it.

*Readers are safe*, whatever the writers do: `SafeInv` is inductive for `Spec`. Of what follows a use of a deleted node
this says something of the model only, in which such a node keeps what it held; of the code it says that the first
such use is a writer's.
Its parts: types, and what a thread knows at each step (`TypeInv`, `KnowInv`); a node that is not linked has one
owner, once (`OwnInv`); no link leads to an unlinked node, nor to `read_pos_`, nor do two lead to the same (`LinkInv`), so
that nobody comes back to a node that is gone; a reader's node is `read_pos_`'s or was it when the reader announced
it (`ReadInv`); and the heart of hazard pointers, `ScanInv`: while one thread looks for a node,
no reader is in it whose pointer was already looked at. A reader can get into a node only before that is
unlinked, and `LookFreeUnused` shows that the last pointer looked at then tells that nobody is in it.

*The shape of the chain*, from here on for `DefinedSpec`: `write_pos_` is one node behind the last at most, writers are at
the last node or behind it (`TailInv`); what is linked is the chain from `read_pos_` on (`ChainInv`, which says with
sets closed under `next` what a recursive definition would need induction for); deleted and new
nodes are as `new` makes them (`BlankInv`).

*Slots and values*: a slot belongs to one writer and one reader, who leaves it `Taken`, and nodes are left only when all
their slots are claimed (`CountInv`, `SlotInv`); a value is in one slot at most, and in one until it is popped
(`ValueInv`): `NothingLost`. `EmptyInv` follows what a reader has found through the three loads of `try_pop`, in
their order: once `write_pos <= read_pos`, all the old values of this node were claimed, and `next` being null
after that means that there was no other node. `OrderInv`: a writer that has claimed a slot is behind every value
that was pushed before it began, and so is its value. That is first in, first out.

*One writer* (`OneWriterAlive`). What two writers get wrong, one gets right: the only writer is in `write_pos_`'s node,
the next node is linked only while it is about to move `write_pos_` there itself, and its pointer was there before it
linked that node, hence before a reader could look for the old one (`Ahead`). Its `thread_id` does not matter. So
`Defined` always holds, and the theorems about `DefinedSpec` hold of `Spec`. For two writers `NoUseAfterFree` is false.

**Only model-checked.** Liveness, because the provers do not handle fairness and ENABLED: `EveryTestJudged`, `RunsEnd`,
`EverythingRead`, `Refilled`, and the liveness parts of `ImplementsRunTests` and `ImplementsContest`. Of each the part that
is safety is a theorem, as said above: the steps map to steps (`StepsOfRunTests`, `JudgesAsContest`), each step gets nearer to the
end (`ScriptAdvances`, `RunsAdvance`, `CallsAdvance`), and whoever is waited for exists (`EndsWithEveryRow`, `LowReserveNoticed`).
What stays with TLC is that such a step is always possible and is taken. Every other property of a passing run is a theorem.

## 7. What is not modelled

- The library: deserialization, serialization, LZ4, gzip, base64 are prebuilt code
  outside the repository. Section 3 lists what is assumed of them. The same goes for the counts of
  `BufferRaw` and for `BufferWriter`, `BufferBuilder` and `BufferSlice` beyond what `ChainBuffer` uses:
  `create_reader`, `create_writer` and `dec_ref_cnt` are declared in `buffer.h` and defined elsewhere.
- Of the chain buffer: `clone` of a whole reader and `advance_end`, which are not called anywhere.
  `append` of a reader is `AppendBufferSlice` for each slice that the other chain's reader gives.
- Of references: `Ref` to constant or base objects, which counts alike; `load_unsafe` and `get_unsafe`,
  whose callers answer for the object; `ExtCell`, which no program makes.
- Of the queues: `MpmcQueueOld` and `MpmcQueueBlock`; `MpscLinkQueue`, `StealingQueue`, epochs and pools,
  which no code of the repository calls; the `Holder` interface of hazard pointers. Memory orders
  weaker than sequential consistency: `next` is also loaded relaxed in `try_pop`, and the model takes
  the value that is there.
- `ByteFlow.h`: one thread and no shared state; a chain of calls over `ChainBuffer`'s stream.
- The rest of `include/`: strings, parsing, formatting, file and system wrappers, big integers, cell
  builders and slices: declarations, or sequential code without a protocol between parts. They are the
  bulk of the repository's lines, four times over.
- `fib.c`, `a.cpp`, `version.cpp` (scratch), `examples/01` to `07` (demonstrations
  without state), generated block records (`block-auto.h`), test data, and the copies of the
  headers under `examples/`, `tester/` and `windows/`.
- Fractions of points, colours, column widths; standard error, which the script also decodes
  (bytes there that are not UTF-8 would end it just as on standard output).

## 8. What could come next

1. A repaired queue for several writers: `OneWriterQueue` and the theorems about `DefinedSpec` say which part of the
   present one can stay. It is a change of the code, and would be modelled before it is made.
2. `ExtCell` over two `RefCell`s, for programs that load cells from a file.
3. `ByteFlow` over `ByteStream`, if a program should ever run one in two threads.
