# Formal models of the linux2026 labs

The repository is a collection of small, independent laboratory programs (C, a
little Python) written for a Linux kernel course. There is no single server or
protocol in it; the part with real concurrency is the quiz 8 scheduler, and the
others are sequential programs whose difficulty is in failure paths, boundaries
of fixed-width arithmetic and hand-written data structures. This directory
models them in TLA+: state machines checked by TLC, and proofs checked by TLAPS.

## 1. The system

| Component | State | Operations | Interaction | What is hard | What makes it correct |
|---|---|---|---|---|---|
| **quiz 8 scheduler** `scheduler/main.c`, `list.h` | run queue (head, tail, 32 nodes), `g_ticks`, `iter`, signal mask | `runqueue_seed`, `busy_mutate_safe` / `_unsafe`, `touch_runqueue`, `alarm_handler`, `simulate_context_switch`, list functions | SIGALRM handler runs on top of the thread and shares the list | interleaving at any statement; masking; delivery after unmasking; counters that wrap | one well-formed list outside updates; handler excluded from the critical section; neither side starves |
| **hw2 linked-list cache lab** `alloc.c`, `middle_*.c`, `bench.c` | heap blocks, `list_handle`, node links | `list_build` (4 modes), `list_destroy`, two middle searches | the benchmark builds, searches, destroys | every allocation may fail; aliasing of `storage` and `indirect`; `size_t` overflow | nothing leaked or freed twice; a built list is one path; both searches agree |
| **hw3 dispatch benchmark** `interpreter.c`, `bytecode.c`, `bench*.c` | program, registers, pc, count | `run_switch`, `run_computed_goto`, `program_init` | the driver compares their times and prints their checksums | two hand-written control flows for one machine; self-jumps | same result, pc inside the program, termination |
| **quiz 3 ch_sort_trace** | array, loop variables | two heapsorts, `list_sort` pending-run trace | `bench_one` sorts the same array twice | heap boundaries; the bottom-up path | sorted output, same elements |
| **hw3 tree cache locality** `tree.c`, `bench.c` | BST with node table, B-tree, mode list | init, lookup, destroy | `bench.c` builds, queries and destroys one tree per mode | recursive roll-back of failed allocations; separators | both trees find exactly the keys; nothing leaked |
| **quiz 4 amei** `amei.original.c` | range coder (r, p, contexts), planes, scratch array | `t`, `n`, quadtree `W`, `D`, `F`, PNG writer | each stage reads the planes of the one before | adaptive counters, halving, 83 contexts laid out by literals, neighbours that must be decoded already | 0 <= p < r; every sample decoded once; chunks as long as announced |
| **quiz 4 experiments** | bit stream position, context counters | guarded Exp-Golomb decoder, `step_context`, CRC nibble / byte | none | ends of input, 2^31 boundary | decode(encode(v)) = v; both tables divide alike |
| **quiz 3 list / hlist** `bc_list_hlist.c` | circular list, hlist | add, delete with poison, iteration | none | deletion during iteration | ring and pprev invariants |
| **quiz 3 fixed point, hash** (Python) | counters | `time_after`, EWMA, PELT carry, hashes | none | wrap at 2^31; lost remainders | no time is lost |
| **quiz 5 arithmetic** | none | 64 x 32 multiply-shift, fp16 conversion, quarter of a float | none | carries, rounding ties | equal to exact arithmetic |
| **quiz 6** bitpack, ewma, fp16, tree | byte arrays, average | pack / unpack, EWMA update, blocked tree | none | straddled bytes, truncation | round trip; bounded error |
| **quiz 8 bloom, modulo bias, CRC** | bit array, RNG | hashes, Lemire rejection, CRC table | none | rejection threshold | unbiased residues |
| **hw2 numeric lab** | none | balanced ternary, binary fractions, IEEE 754 | none | carries, negative remainders, the repeating part | value preserved |
| **hw3 container_of, UB demos; scripts** | none | straight-line programs, report generators | none | compiler behaviour | out of reach of a model |

`PROJECT.json` lists each of them with its sources and status, and the hazards
line by line.

## 2. What is modelled now

### Scheduler (`SchedulerList`, `Scheduler`, `RunQueue`, `SchedulerRefinement`)

`SchedulerList` gives the intrusive list of `list.h`. Each list function is a
table of its C statements, because a signal handler can run between any two of
them: `list_remove(k, q, n)` is the list after statement `k`. `Queued(q, S, L)`
says that the pointers of `q` form one list of exactly the `L` nodes of `S`, the
same read from the head and from the tail.

`Scheduler` is the program. `main` and `handler` say which call each side is in,
at which statement, and with which local pointers.

| Action | Code |
|---|---|
| `Seed`, `MainStatement` (seed_add) | `runqueue_seed`, `list_add_back` |
| `Block`, `Unblock` | the two `sigprocmask` calls of `busy_mutate_safe` |
| `MainStatement` | one statement of `list_remove` / `list_remove_unchecked` / `list_add_front` |
| `Scan`, `Touch`, `TouchDone` | `touch_runqueue` |
| `Advance` | `++iter` and the loop |
| `Expire` | the interval timer makes SIGALRM pending; one already pending absorbs it |
| `Deliver` | the kernel starts the handler: not while SIGALRM is blocked or handled |
| `Tick`, `HandlerStatement`, `Flip` | `alarm_handler`, `simulate_context_switch` |

The handler runs to completion before the thread continues (there is one
thread), and a deliverable signal is delivered before the thread's next
statement in user code: the model lets the timer expire at any point, so this
loses no interleaving. Of a node's `value` the lowest bit is kept, all that
`^= 1` changes. `g_ticks` wraps as the volatile increment compiles;
in the code the wrap comes after 2^31 ticks, about 25 days. A store through NULL sets `status` to "fault"
and nothing runs any more.

`RunQueue` is the abstract promise: a sequence of nodes, from which either side
takes one and puts it back, never both at once, the thread taking the nodes in
turn and the handler the head. `SchedulerRefinement` maps the pointers to it
(the walk from the head; a node is held between the statement that takes it out
of that walk and the one that links it again), and holds `WalkInv`, what a walk meets in the
middle of a call, on which the proof of the refinement rests.

### List building (`ListBuild`)

One trial of `benchmark_once`: build, search, destroy; a step is one allocator
call, one swap of the shuffle or the straight code between them, and every
allocation may fail. `live` is the set of heap blocks, so a leak is a block left
in it and a double free is a `free` of something outside it. `size_t` counts
modulo `SizeMax + 1`. A failed build ends the program, as `run_benchmarks`
returns; that is why deadlock is not checked. The generator of the shuffle is a
free choice, a superset of what one seed gives; payload and checksum are left out.

`live`, `Allocate` and `Free` come from `Heap`, the allocator as these programs use it.

### Search trees (`Trees`, `TreeBench`)

`Trees` is `tree.c` of the cache-locality lab. `bst_tree_init` allocates its nodes
in shuffled order and stores each under its index; the shuffle is again a free choice.
`build_btree_rec` is an explicit stack of frames: `Enter` is a call with its `calloc`,
`ReturnNode` one more round of the loop over the children, `ReturnNull` the roll-back
when a child could not be built. A node is named by its path, so two nodes are never
confused, and `destroy_btree_rec` is the sequence of blocks it frees. `TreeBench` is
`main` of `bench.c`: the mode list grown by `realloc`, keys, queries, one tree per
mode, repetitions and the two fail labels. The arguments are sequences of modes,
`--help`, or anything wrong; a query is any key, a superset of what a seed draws.
`TreeAssumption` keeps what the real numbers (16 and 32) satisfy; the counts modelled are those
whose keys 2i + 1 fit an `int`. The program is over at "exit", hence no deadlock check.

### Sorting (`HeapSort`, `Digits`)

`HeapSort` is `bench_one`: `heapsort_standard` and then `heapsort_bottom_up` on the same
permutation, one loop round per step. The run is over after the second check,
hence no deadlock check. Comparison counters are left out. The program's other
command, the trace of list_sort's pending runs, is `TraceRow` of `NumericLabs`.

### Interpreters (`Interpreter`, `SwitchInterpreter`, `ComputedGoto`)

`Interpreter` holds the registers and the opcodes; `SwitchInterpreter` is
`run_switch`, the reference; `ComputedGoto` has the labels and the `ADVANCE`
macro of `run_computed_goto`. `SwitchSpec` says that the second implements the
first: between an opcode's code and its `ADVANCE` the abstract pc and count are
already advanced. `BitXor` is a constant operator, given by the MC module, so that
nothing depends on how it is defined. Checksums are compared before they are
mixed: registers, pc and count. A program is over when it returned.

`DispatchBench` is the two drivers around them, `bench.c` and `bench_mode_common.c`
(`Single`, `SingleRuns`): the argument lists that `realloc` grows, `program_init`, the
loops over patterns, dispatches and repetitions, and the fail label, every allocation
failing or not. What a program computes is the interpreters' matter. The driver exits
at the end, hence no deadlock check.

### Lists (`KernelList`, `AbstractList`)

`KernelList` is `bc_list_hlist.c`, whose `main` runs three functions one after the
other. `pc` says where it is; a pointer is a node's number, 0 the head, and `NULL`, the
two poisons and memory nobody initialised are values of their own, so a use of any of
them shows.

| Place | Code | Actions |
|---|---|---|
| "hlist" | `run_hlist_smoke` | `init_hlist_node`, `hlist_add_head`, `hlist_del`, in any order the functions allow |
| "relink", "seek" | `run_probe_delete_suite`, `write_probe_trace` | `Relink` stores the links again and picks a target, or none; `Seek` moves pp; `DeleteTarget` unlinks and checks; `Miss` dies |
| "fill" .. "safe", "advance" | `write_iteration_artifact`, first loop | `FirstFill`, `AddTail`, `StartLoop`, `VisitSafe`, `Advance`, `SafeDone` |
| "refill" .. "unsafe" | its second loop | `SecondFill`, `AddTail`, `StartLoop`, `VisitUnsafe`, `UnsafeDone` |

The lab fixes which nodes it deletes; the model deletes any, in the suite under the one
restriction the code has to obey (`Targets`: the tail last). `AbstractList` is what a
list promises: a sequence of distinct nodes, added at either end, any removed.
`ListSpec` maps the pointers to it by the walk from the head.

### Range decoder (`RangeDecoder`)

`t(c)` of `amei.original.c`: the refill, the split by the two counters of context c, the
bit, and the counters with their halving. Any byte may come next; past the end of the
stream the code reads 0, which is one of them. 256, 63 and 0..82 are constants.

### The decoder's walk (`Amei`)

`main` and `W` of `amei.original.c`. `todo` is the stack of calls of the recursion: `Split`
replaces a tile by its quarters, `Leaf` reads a mode, `Coefficient` is one round of the
coefficient loop, `EndOfPlane` its end, `Predict` the transform, the prediction and the
next plane or tile. Bits are any bits. What is kept of a step is what could go wrong in
it: the contexts it read, each with the syntax element it read there (`read`), the
highest index of the scratch array it wrote (`wrote`), the 4 x 4 cells of each plane that
are decoded, and what the prediction reads (`PixelsRead`, which has the index
arithmetic of all 34 modes, reflection and clipping included). The rest is the PNG
writer: `PO`, `PC` and `PE` as a chunk that announces its length, gets bytes and is
closed. A picture is over at "done", hence no deadlock check.

A tile may use any mode. The prediction of the modes 15 to 19 reads, among others, the sample
diagonally above the tile's corner, as the index -1 of the row above (15, 16) or of the column
on the left (17 to 19), and looks only whether that one side is there. In the picture's first column
or row there is no such sample, and `NeighboursDecoded` says that these reads are the only
ones of a sample that is not in the picture or not decoded: `CornerMissing` names them.

Two things are assumed of the stream, and hold for the one embedded in the program
(blocks of order 2 to 5, prefixes of at most 7 zeros): the picture is at
least 4 samples wide, as tiles of order below 2 would use the level contexts for their
end flags; and a code starts with at most nine zeros (`MaxPrefix`; a tenth would
read the first context of the next element, which is what `ContextsApart` would show, and
`ContextsAreApart` has the bound as a hypothesis). Neither is checked by the program.

### Numbers (`Powers`, `Floats`, `Words`, `Lookups`, `Digits`, `Checksums`, `NumericLabs`)

`Floats` to `Checksums` are the pure functions of the numeric labs, one operator per function, on
formats whose widths are constants; `NumericLabs` is their `main` programs. `Powers` is the
power as a recursive function, which can be reasoned about where `^` cannot; `PowerAssumption`
compares the two in every run. `lab` says which
program runs; `Draw` takes any input of its type, a superset of what its loops, tables
and generator draw; then its function is called and `Compare` is its comparison with the
lab's own reference, after which the program exits or draws again. Two keep
state: the fixed-point average from sample to sample, and the rejection loop, which draws
again for the same modulus.

| Lab | Module | Checked against |
|---|---|---|
| `d_fp16`, `fp16_lab`, `e_float_quarter` | `Floats` | the nearest value of the format, ties to even (`Nearest`) |
| `c_mul_high` | `Words` | exact products, as in the lab |
| `modulo_bias` | `Words` | a count over all words |
| `bitpack_lab`, `decode_unsigned`, `balanced_ternary.py`, `binary_fraction.py` | `Words`, `Digits` | decoding what was encoded |
| `ewma_lab` | `Words` | the exact rational average |
| `tree_cache_lab` | `Lookups` | each other, and whether the key is there |
| `ch_sort_trace trace` | `Digits` | merging run by run |
| `crc_nibble_vs_byte`, `side_channel` | `Checksums` | each other |

An int operation that overflows is undefined, and may leave any int (`IntResult`). Both decoders
and the encoder of `decode_unsigned_safe_test.c` meet one at the same place: `int value = v + 1` at
INT_MAX, the last shift of the original decoder and `(int) b - 1` of the guarded one on the code
of INT_MAX + 1, whose check is `b > INT_MAX + 1`. They are therefore sets of possible results, from which
`Decode` picks. `SafeDecodeInverts` speaks of the values below INT_MAX and, for the converse, of
every stream but those that begin with that one code.

The programs exit on the first failed comparison, hence no deadlock check.

## 3. Runs

| Run | Shows | Bounds and why they are enough |
|---|---|---|
| `scheduler_safe` | `TypeOK`; `Exclusion`; `WellFormed`; `FlipParity` (the walk meets each queued node once, across the wraps); `RunQueueSpec` (refinement); `EveryNodeMoved`, `TickHandled` (liveness) | N = 3: a middle node, a first and a last one, so every branch of the NULL tests is taken; 6 iterations and 4 tick values make both counters wrap |
| `scheduler_unsafe` | `UnsafeFaults`: unsafe mode faults, before one iteration completes | the real N = 32: the fault comes at once, so seeding is most of the behaviour |
| `list_build` | `NothingLost`, `OnePath`, `MiddleFound`, `NodesApart` | n = 0 to 5 (both parities, every shuffle), strides below, at and above the node size, SIZE_MAX = 31 so that some products overflow |
| `tree_bench` | `NothingLeaks`, `FindsExactly`, `LeavesTile`, `SameChecksum` | 0, 1, 2, 4 and 7 keys with fanout 3 and leaves of 2: a lone leaf, a remainder of 1, three levels; all 5040 orders of 7 allocations; eight argument lists with either tree, both, one twice, help and errors; 0 or 1 lookup, 2 repetitions. One query is enough: a checksum adds independent lookups |
| `heapsort` | `HeapOrder`, `SortsRight` | all 720 permutations of 6: an inner node with one child and a path of length 2 |
| `heapsort_bottom_up` | **violated**: `BottomUpPermutes` | n = 4 |
| `computed_goto` | `PcInRange`, `SwitchSpec`, `Returns` | all programs of 1 to 3 instructions out of eleven, two seeds, 0, 1 and 4 steps: self-jumps, wrapped jumps and the steps == 0 return occur; 6-bit words |
| `kernel_list` | `SlotsPointBack` (each pprev points at the pointer that points at its node); `RingBothWays`; `SafeVisitsAll`; `ListSpec` (refinement) | 4 nodes, as in the loops: first, middle, last, two neighbours deleted in a row; every order of hlist calls, every target, every set of deletions |
| `numeric_labs` | `NearestEven`, `HighWordsExact`, `LemireUniform`, `SafeDecodeInverts`, `NumbersRestored`, `AverageStaysClose`, `VariantsAgree`, `PendingRuns` | a float of 10 bits and a half of 6: all values, so every tie, carry, subnormal and overflow; 3-bit words, all operands, shifts and moduli; indices at byte borders in 1 to 7 bits; all streams of up to 11 bits for a 4-bit int, whose code of IntMax + 1 has 7; averages of 5 samples; lists of up to 5 keys with equal ones, blocks of 2; 24 rows (four carries into a new digit); -60..60; denominators to 11; 8-bit checksums of 4-bit bytes, all states |
| `range_decoder` | `CodeInRange` | bytes of 8 values, counters halved above 5, two contexts: refills, halvings of either and carries between all occur; the real sizes are `AmeiProofs`' |
| `amei` | `ContextsApart`, `EachSampleOnce`, `NeighboursDecoded`, `ScratchHolds`, `ChunksAddUp` | widths 4, 8, 16 and 64 with every quadtree but for at most two splits at 64, where the root has to split; all 34 modes on every tile, those of the border with a missing corner included; runs to both ends of the block and around d / 8, where the code compares |
| `dispatch_bench` | `DriverFreesAll` | twelve argument lists: both lists grown twice, help and errors before, between and after; lengths 0 and 4, repetitions 0, 1 and 3; every allocation failing |

The inductive invariants of section 4 also hold on the instances of the runs, where TLC checked
them; not so those of the drivers, of the decoder's walk and of the B-tree (`BenchInv`, `WalkInv` of
`AmeiProofs`, `BtreeInv`), which quantify over all sets, integers or paths. Each property has a mutant, a plausible bug written beside
the definition it replaces (named "Mutant of ..."), under which its run fails.

### A finding

`sift_down_bottom_up` reads `value = a[start]` (line 103) after the descent has
overwritten `a[start]`. The element to sift is lost and another one is there
twice: [3,2,1,0] is "sorted" to [0,0,1,1]. `bench_one` checks only that the
output is sorted, which `BothSort` shows it always is, so the
lab's comparison ratio (README of quiz 3, lines 125 and 129) counts something that is not
a heapsort of the array.

### Fairness

`FairSpec` of `Scheduler`: weak fairness of `Deliver` and of the handler (a
deliverable signal is delivered; a running handler runs on), and strong fairness
of the thread together with `SlowTimer`. The thread is disabled again and again
by the timer, so weak fairness would not make it advance; `SlowTimer` says that
again and again the thread may run, that is, that not every handler ends with
the next signal already pending. The code justifies it: the interval is 1 ms and
one run of the handler is a dozen stores. Without it a timer faster than the
handler would starve the loop, and `EveryNodeMoved` would not hold.
`ComputedGoto` assumes weak fairness of its only thread.

## 4. Proofs

The proof modules are `Facts` (numbers, division, sequences), `SchedulerProofs`,
`HeapProofs` (the programs that allocate: list building and the dispatch drivers),
`Quiz3Proofs` (lists and sorts), `DispatchProofs`, `AmeiProofs` (range decoder and walk),
`TreeBenchProofs` and `NumericProofs`; each states for every value of the constants what
a run checks on an instance. The modules that a proof module extends together have
their own names for what each calls init, next and spec (`SortSpec`, `RangeSpec`, `DriverSpec`). Each safety invariant follows from an inductive one, proved
in three steps: it holds initially, every action keeps it (one lemma or step per
action), and it implies the property.

Induction over numbers is made by the least counterexample (`LeastNumber`), and what a
recursive function computes is shown by giving the function in closed form and checking
that it satisfies the recursion's equation, which determines it (`WalkFollows`,
`ReachedIs`, `NthIs`).

### Scheduler

For every N >= 1, every width of the counters that satisfies the assumptions
of `Scheduler`, and both modes, `SchedulerProofs` proves

* `TypeCorrect`: `Spec => []TypeOK`;
* `HandlerExcluded`: `Spec => []Exclusion`;
* `RunQueueWellFormed`: `Spec => []WellFormed`;
* `FlipsCounted`: `Spec => []FlipParity`;
* `SafeImplementsRunQueue`: `Spec => RunQueueSpec`.

Assumptions: `NAssumption` (there is a node), `ModeAssumption`,
`WidthAssumption` (the node count divides 2^64, as 32 does) and `TickAssumption`.

`Exclusion` is not inductive: that the handler is idle in the critical section
follows from SIGALRM being blocked there, and that it is blocked there from the
mask being empty outside. `ControlInv` says both. `WellFormed` is not inductive
either, since it says nothing while a call is in progress. `ListInv` describes every
intermediate state by what the call will leave when it returns: `Rest(f, k, q,
n)` is the list after the remaining statements, and `ListInv` says that this list
is `Queued`. A statement in the middle of a call then changes nothing in the
invariant (`Rest` at k of the old list is `Rest` at k + 1 of the new one:
`RestStep`, `RestLast`), and the whole work is in three lemmas about complete calls
(`AddFrontWhole`, `AddBackWhole`, `RemoveWhole`), which exhibit the new order of the
nodes. The inductive invariant is `IInv == TypeOK /\ ControlInv /\ ListInv`.

The refinement needs the opposite view: not what the call will leave but what a walk
meets now, when some of its statements are still to come. `WalkInv`
(`SchedulerRefinement`) says it, and the lemmas about single statements
(`RemoveWalkFirst`, `AddBackThird`, ...) show that exactly one statement of each
function changes the walk, by taking out or adding the node the abstract step names. For
`FlipParity`, `FlipInv` counts the set bits: each flip changes the number by one, and so the
parity is that of the flips done, in this iteration, in the earlier ones and in the handlers.

### List building

For every set of lengths and strides, every node size and every word size,
`HeapProofs` proves from `SizeAssumption`

* `NothingIsLost`: `Spec => []NothingLost`;
* `ListIsPath`: `Spec => []OnePath`;
* `MiddleIsFound`: `Spec => []MiddleFound`;
* `NodesDoNotOverlap`: `Spec => []NodesApart`.

`NothingLost` looks at the ends of a trial only; the inductive invariant says who owns the
live blocks in between: `OwnedByLocals` gives, for each place in a build function, the
blocks its locals point to, `OwnedByList` those of a filled handle. `PointedNodes`,
`FreeNodes`, `FreeTwo` and `FreeOne` say what the sequences of `free` calls do to
a heap that holds their arguments. The other three need `PathInv`: the swaps of the shuffle
keep the index table a permutation (`SwapPermutes`), so the links written from it visit
every node once (`ShuffledPath`, `PathMeetsAll`), and when the overflow check has let a
length pass, n * stride is not wrapped (`ProductFits`). `TwoPassMiddle` and
`FastSlowMiddle` are the two searches on any path.

### Lists

For every number of nodes `Quiz3Proofs` proves from `NAssumption`

* `PointersPointBack`: `Spec => []SlotsPointBack`;
* `RingLinked`: `Spec => []RingBothWays`;
* `SafeLoopComplete`: `Spec => []SafeVisitsAll`;
* `ImplementsList`: `Spec => ListSpec`.

For the hlist calls the first property is inductive once the types are added:
`InitNodeKeeps`, `AddHeadKeeps` and `DelKeeps` are the three functions. For the delete suite
it is not. Before each test the suite stores the links of the nodes again, all but the
last node's next; so `IInv` says that this pointer is NULL whenever the chain is linked
again, hence that the tail is deleted in no test but the last, and that the chain is whole
while the target is sought (`Chain`). The other three rest on `ListInv`: there is a
sequence of distinct nodes along which next and back lead (`ListIs`), and where a
loop is, which nodes it has visited and which it still has to meet. `FrontAlong`, `BackAlong`
and `WithoutAlong` say what an insertion and a deletion do to such a sequence; the
steps of `AbstractList` are read off them.

### Sorting

For every length and every permutation `Quiz3Proofs` proves

* `HeapIsKept`: `SortSpec => []HeapOrder`;
* `BothSort`: `SortSpec => []SortsRight`.

`HeapOrder` speaks of the moments between two calls of `sift_down`. In a call
the invariant says which edges of the heap may fail: `Sinking`, those below the element that
is on its way down (standard); `Falling`, those below the start (bottom-up, down); `Climbing`,
those at the place where the value will go (bottom-up, up). Both end with the edges of the whole subtree
(`SinkStops`, `BottomUpPlaceKeeps`). That the bottom-up sort orders the array
is proved although it loses elements; `BottomUpPermutes` is the violated property.

### Dispatch benchmark

`DispatchProofs` proves, for every word size, instruction set and program,

* `StaysInProgram`: `Spec => []PcInRange`;
* `GotoImplementsSwitch`: `Spec => Switch!Init /\ [][Switch!Next]_(Switch!vars)`, the
  safety part of `SwitchSpec`;

and `HeapProofs`, for every set of arguments, lengths and repetitions of the two drivers,

* `DriversFreeAll`: `DriverSpec => []DriverFreesAll`.

Assumptions: `WordAssumption`, `XorAssumption`, `InsnAssumption` and `InputAssumption` (a
program has at least one instruction: `program_init` refuses none); the drivers need
`CountsAssumption`.
The invariant of the interpreter (`IInv`): between a dispatch and the end of its ADVANCE the
fetched instruction is that at pc, and the count is below `steps` until the loop is done.
`NextPcInRange` is the lemma about `vm_next_pc`. In the refinement the code of a label is a whole
round of the switch loop, since the mapping counts an instruction that waits for its ADVANCE as
finished; `Enter`, `Dispatch` and `Advance` are stutters, and `Done` is the return. The
invariant of the drivers (`BenchInv`) names at each place exactly the live blocks: the items
of the two lists, whose block is determined by how often they grew, and the program.

### amei

`AmeiProofs` proves, for every byte size, every halving limit below it (63 and
256 in the program) and every set of contexts, from `SizesAssumption`,

* `RangeKept`: `RangeSpec => []CodeInRange`;
* `EveryBitNarrows`: `RangeSpec => RangeShrinks`, a bit read without a refill leaves a smaller
  range: the decoder consumes its stream.

`CodeInRange` is not inductive: that the split is strictly
inside the range for whatever context comes next needs the counters of every context to
add up to less than the limit (`Counters`; the sum is looked at before the increment, so it
reaches the limit and is then halved), and the range after a refill to be at least `Base`,
which needs r >= 1. `ShareInside` is the lemma about the division.

It proves, for pictures of every order from 2 to 10, every height that goes with
it and every way a stream splits them, from `StreamAssumption`,

* `ScratchIsEnough`: `Spec => []ScratchHolds`;
* `ChunksAreWhole`: `Spec => []ChunksAddUp`;
* `ContextsAreApart`: `MaxPrefix <= 9 => (Spec => []ContextsApart)`;
* `NeighboursAreDecoded`: `Spec => []NeighboursDecoded`, whatever modes the stream uses;
* `EachIsDecodedOnce`: `Spec => []EachSampleOnce`.

`MaxPrefix <= 9` is a hypothesis, not an assumption of the module: with a tenth zero the
theorem would be false, and the code does not refuse such a code (see section 2). `Flow` is
what all five need: types, and that the tile in work is of order 2 to 5. The first two are then
inductive with the counts of a chunk (`ChunkInv`). For the last two, `WalkInv` says that the
tiles on the stack are in an order in which none reaches or borders a later one (`Ordered`:
an earlier tile with the row above and the column left of it has no cell of a later one),
lie on the grid (`AllPlaced`), and leave of the picture what is decoded (`Covers`).
`SplitCovers` shows that the four quarters of a tile, in the order W calls itself, keep
all three. `EachSampleOnce` compares cardinalities, so its proof also counts a
rectangle's cells (`CellsCounted`, `AreaIsCounted`).

### Search trees

For every fanout, leaf capacity, set of key counts and argument list `TreeBenchProofs` proves
from `TreeAssumption` and `BenchAssumption`

* `BenchLeaksNothing`: `Spec => []NothingLeaks`;
* `TreesFindExactly`: `Spec => []FindsExactly`;
* `BtreeLeavesTile`: `Spec => []LeavesTile`;
* `ChecksumsAgree`: `Spec => []SameChecksum`.

The invariant has three parts. `MainInv` is the driver: what it has allocated at each place,
and the lines it has printed. `BstInv` is the pointer tree: the shuffled index table is a
permutation, and the nodes of its first entries are those allocated. `BtreeInv(span)` is the
B-tree in the middle of its recursive build: `span` says for each path which range of keys it
stands for, and the frames on the stack are, from the root down, nodes on one path, each finished
up to the child that is being built (`Building`). The set of nodes that exist is then exactly
what lies below the finished children and on the path, and a roll-back frees those of one
frame (`Unwound`). That the parts of a range are contiguous, not empty and shorter than
the range (`Cut`) needs `Fanout <= LeafCap + 1`. Since `span` is a function on all paths, the
invariant holds for some span; each step of the build gives the next one. The recursive
functions (the frees of a subtree, the two lookups, the linking of the pointer tree)
are shown to exist and to be what the invariant needs by induction on the length of a range.

### Numbers

`NumericProofs` proves for every width of the words and every size of the numbers

* `RejectionIsUniform`: `Spec => []LemireUniform`;
* `HighWordsAreExact`: `Spec => []HighWordsExact`;
* `AverageIsClose`: `Spec => []AverageStaysClose`;
* `SafeDecoderInverts`: `Spec => []SafeDecodeInverts`;
* `AllVariantsAgree`: `Spec => []VariantsAgree`;
* `RowsFollow`: `Spec => []PendingRuns`;
* `DigitsRestoreNumbers`: `Spec => []NumbersRestored`;
* `RoundsToNearestEven`: `Spec => []NearestEven`, for a single and a half of any format.

Assumptions: `FormatAssumption` (the half has fewer exponent and fraction bits than the single;
the integer that is shifted is wider than a significand with its hidden bit, 64 against 24; and
the biases are further apart than the half has fraction bits, 112 against 10, without which a
subnormal single would not always be nearest to zero, which three of the converters return for
it without rounding), `WidthAssumption` (with it, that the longest prefix fits an int: 63 against 31),
`CrcAssumption` (a polynomial of as many bits as the word, and bytes no wider), and the types
of the constants: `AverageAssumption`, `StreamAssumption`, `LookupAssumption` (a structure is
built of one key at least), `DataAssumption`, `RowAssumption`, `DigitsAssumption` and
`PackAssumption`. The invariants only say that what was drawn has its type and that a result
is what the function returned; the theorems are about the functions. A loop of the code is a
recursive function on the number of rounds (`LoopRule`); that there is one, and no other, is
proved once (`LoopThere`, `LoopsAgree`).

* A word x is accepted with the result v exactly if its product with n lies in an interval
  that is as long as the largest multiple of n in 2^W (`WordsOf`); so the number of such x is
  that of the multiples of n in it, the same for all v (`MultiplesBetween`).
* The signed product differs from the unsigned one by multiples of 2^W for each operand with
  its sign bit (`SignedProduct`), which the two masks add back (`FormulaIsHigh`). The split
  shift is a sum of halves without a carry lost (`Halves2`, `ShiftBelow`, `ShiftIs`).
* `AverageInv` is inductive: the error of an update is the error before, less a part of it, plus
  what two truncations leave, each less than one (`SampleKeepsClose`, in integers).
* b after k bits of the suffix is v + 1 without its last bits (`ValueBack`, `CodeDecodes`); the
  cast to int keeps it unless it is IntMax + 1 (`CastIs`), where nothing is claimed of the result.
* One division step is linear over exclusive or (`DivideLinear`), hence so are many; a byte is
  the sum of its low and its high nibble, and a table entry the division of its index
  (`NibblesAreByte`, `ChecksumsSame`).
* The binary search keeps the bounds of the first key that is not smaller, and n rounds bring
  them together (`Bounded`, `LowerBoundFinds`); in the block index it is in the first block whose
  last key is not smaller (`BlockFinds`). A search tree is one in which the search for the
  key of each node ends at it (`WellGrown`); an insertion leaves it so (`InsertGrows`).
* The runs of a count are its binary digits; adding one carries through the trailing ones
  (`OneMore`), and each carry is a merge of two runs of one length (`TwoMerged`, `RowFollows`).
* A text is the number its digits are of once a sequence is named that starts at 0 and goes
  up by them (`NumberFound`): the rounds of the conversion backwards for balanced ternary
  (`TernaryComesBack`), the quotients of num 2^k by den for a fraction, whose remainders are
  those of the loop (`RemaindersGo`, `FractionRestored`). No two bits of the packed array have
  one place (`FieldsDiffer`, `PackedComesBack`).
* Patterns are ordered as their values are (`MagnitudeGrows`), so a pattern is nearest when it is
  nearer than the one before and the one after. With the hidden bit as part of the significand
  the patterns of one exponent lie on a line (`MagnitudeLine`), the end of which is the start of
  the next: a significand rounded to the unit of its line is therefore the nearest pattern, also
  when it carries into the exponent, from subnormal to normal or to infinity (`RoundsOnLine`,
  `NumberRounds`). Each converter, with its own branches for carry, overflow and underflow, is
  shown to return that number (`RoundedIs`, `RefIs`, `QuizIs`, `LabRefIs`, `QuarterIs`); a half
  becomes a single that loses nothing when rounded (`HalfToSingle`, `ThereAndBack`).

### Only model-checked

Liveness under fairness (`TickHandled`, `EveryNodeMoved`, `Returns`, the fair part of
`SwitchSpec`) and that unsafe mode faults (`UnsafeFaults`) or loses an element
(`BottomUpPermutes`) are for TLC alone: the first are out of the prover's reach, the
others need one behaviour to exhibit. Every safety invariant of a passing run is proved.
No module declares a RECURSIVE operator.

## 5. Plan

Done, in this order: the list, the scheduler, its refinement and proofs;
`ListBuild`; `HeapSort`; the interpreters; the search trees; the lists with poison; the
numeric labs; the range decoder and its proofs; the decoder's walk; the dispatch
drivers; the proof about pprev; the proofs of the scheduler's refinement, of the lists, the
sorts, the drivers and the decoder's walk; those of the search trees and of the numeric labs.

## 6. Not modelled, and why

Wall-clock measurement, perf scripts, CSV writing, plotting and report
generation are pure I/O. Cache behaviour, code generation for undefined
behaviour (the bit-field, aliasing, shift and null-pointer demos), structure layout and
timing side channels are properties of the hardware or the compiler. The failure of
`setitimer`, `sigaction` and `sigprocmask` only exits.

Of `amei.original.c`, sample values: the inverse transform (floating-point cosines), the
filters `D` and `F` and the PNG checksums. `amei.instrumented.c` is the same program
with counters and printing. `compare_idct.c` and `verify_dct_coef.c` measure
floating-point error. `simulate_context_model.c` runs `RangeDecoder`'s counters on
fixed inputs. The bloom filter never queries what it inserted: it counts bits, a statistic
of its hashes. `lab.py` and the hash lab print tables of single expressions.
`ieee754_decode.c` prints the fields of eight constants, `fp_assoc.c` sums of hardware floats.

Met while modelling, and not stated as properties because nothing in the repository
claims otherwise or because they are about what is printed:

* `binary_fraction.py` prints a fraction cut off by `--bits` in the form it uses
  for one that terminates.
* `fp16_lab.c` prints "roundtrip cases: 65536/65536" after comparing its converter with its
  reference, not with the pattern it started from; both give one NaN for all payloads.
  `NearestEven` asks for the pattern back for all but NaNs.
* The "independent" references of `d_fp16` and `e_float_quarter` share their steps with the
  functions they check; the model compares both with the nearest value.
* `float_quarter_lab.c`'s "eighth" is a quarter taken twice, a sixteenth.
* `amei.instrumented.c` labels band 0 "low" although the index is 1 for low bands.
* `decode_unsigned_safe_test.c` guards its decoder with `b > INT_MAX + 1` (line 59) and then computes
  `(int) b - 1` (line 63), which overflows at b = INT_MAX + 1; so does `v + 1` in its encoder (line 67) at
  INT_MAX. Built as in the Makefile, the sanitizer reports both, and goes on with the wrapped results:
  INT_MAX from the decoder, and from the encoder the code "1", which stands for 0. The
  program encodes 0, 1 and 15 only.
* `amei.original.c` looks only for a left neighbour (or only for an upper one) before it reads the index
  -1 of that side (lines 100 to 104). A tile of mode 17 to 19 in the first row would read an int before the
  start of the plane's array; one of mode 15 or 16 in the first column the last
  sample of a row above, two rows up. The embedded stream has 352 tiles, nine with these modes, none of them
  in the first row or column.
