# A verification project for morello

morello synthesizes programs ("Impls") for tensor computations ("Specs") by an
exhaustive top-down search with memoization.  This directory holds TLA+ modules
that model the parts of it whose correctness depends on order, sharing and
bookkeeping, TLC configurations that check them on small instances, and TLAPS
proofs of the central safety properties for every instance.

Paths below are relative to the repository's root (`src/` in `PROJECT.json`).

## 1. The system and its components

| Component | Source | State | Operations |
|---|---|---|---|
| Top-down search | `morello/src/search.rs` | per thread: a stack of `BlockSearch`es (working set of tasks, request maps, outbox, counters); shared: the database | `top_down_many`, `BlockSearch::synthesize` and its visits and resolutions, `SpecTask::{start,next_request_batch,resolve_request}`, `ImplReducer` |
| Database: shards | `morello/src/db.rs` | per shard: cache of superblocks, outstanding gets, two bounded channels, a background thread; files | `get`, `put`, `prefetch`, eviction, drop, reopening |
| Database: tables and blocks | `db.rs`, `ndarray.rs` | blocks of run-length encoded results | coordinates to superblock, block and cell; box filling |
| Costs and memory limits | `cost.rs`, `memorylimits.rs`, `imp/*.rs` | none (pure) | peaks, limits of sub-Specs, cost arithmetic |
| Scheduling actions | `scheduling.rs`, `action_seq.rs`, `imp/*.rs` | none (pure) | `actions()`, `apply()`, the Impl each action gives |
| Precomputation driver | `precompute/src/main.rs` | progress file, database directory | stages over diagonals, limits to go on with, progress |
| Specs and canonicalization | `spec.rs`, `tensorspec.rs`, `datadeps.rs` | none (pure) | shapes, bindings of inputs to outputs, canonicalize, coordinates |
| Layouts, tilings, views, alignment, expressions | `layout.rs`, `tiling.rs`, `views.rs`, `alignment.rs`, `expr.rs` | none (pure) | physical shapes, contiguity, buffer indices |
| Grid maps | `grid/*.rs` | none (pure) | surjections and their inverses |
| Targets and kernels | `target/*.rs`, `common.rs` | tables | levels, layouts offered, what a kernel applies to |
| Code generation | `codegen/*.rs`, `pprint.rs` | name environments | emit C |
| Verification by execution | `verification.rs` | none | compile, run, compare |
| Front ends, utilities | `frontend`, `dbstats`, `utils.rs`, `scheduling_sugar.rs` | none | argument parsing, output |

How they interact.  A front end, or the precomputation driver, calls
`top_down_many(db, goals, ...)`.  The search groups the canonical goals by
database page, starts one `BlockSearch` per thread for each group, and each
search expands a Spec's actions (scheduling), asks for the costs of the
sub-Specs (its working set, the database, or a nested `BlockSearch` on another
page), reduces the complete Impls by cost and action index, and puts every
result that was not in the database already.  A put fills a box of memory
limits, block by block.  The database's shards keep superblocks in a cache in
front of files that one background thread per shard reads and writes.  The only
state the search's threads share is the database; the only state a shard and
its background thread share are two bounded channels and the files.  The
precomputation driver calls the search from many threads, stage by stage, and
reads from its results which memory limits are left.  The actions are pure, but
they compose: an Impl is a path of them, along which layouts, contiguity,
limits and bindings are carried from Spec to Spec.

The hard behaviours, with the lines where they bite, are the "hazards" of
`PROJECT.json`: duplicate work of threads whose puts overlap; results announced
late because tasks on the call stack are borrowed; hand-kept counters that end
the search; answers for requesters that have completed in the meantime; nested
searches between mutually dependent pages; evictions racing loads of the same
superblock; two bounded channels between two threads; drop; crashes; limits that
a precomputation skips because a box is said to cover them; claims of a Spec
about its operands (canonical, contiguous, bound to each other, filled) that any
of a dozen actions could break, to be noticed several levels below.

What makes each component correct:

* search: no panic; every request is answered exactly once; it ends; each goal
  gets an Impl of least main cost; the database only ever holds such results,
  each with the entries of its sub-Specs.
* shards: a shard behaves like an atomic store of pages, whatever is cached,
  evicted, in a channel or half-written; calls and drop end.
* tables: a put writes exactly the cells of its box, a get reads what was put.
* costs and limits: every limit in the box a put fills has the same main cost.
* precomputation: a completed stage has every limit of its Specs; what the file
  says is done is on disk; what was asked for is there when a process ends.
* scheduling, Specs, layouts: every Spec that a search meets is canonical,
  smaller than its parent, and true of the memory its operands are in; every
  iteration's operands belong together; each loop covers its tiles once.

## 2. Modules

### The search

`SynthTask.tla` models one `SpecTask` as operators on a record.  A Spec's
actions are data (`ActionsOf`): whether `apply()` succeeds and which sub-Specs
the Impl needs.  `Start` expands all actions, `HasNextBatch`/`BatchActions` are
`next_request_batch` (the k-th batch asks for the k-th sub-Spec of each partial
Impl), `Resolve` is `resolve_request` (fill the slot; Sat when all are filled;
Unsat when the sub-Spec has no Impl; complete the task when no partial Impl is
under construction), `Insert` is the reducer.  The module's costs are natural
numbers that stand for the code's `Cost`, a totally ordered triple of main cost, peaks and
depth: the search only compares and combines costs.  `Main` is the first of the three.
`Opt` is the reference: for each Spec the set of results of least main cost,
tied down by `OptAssumption`, which says that it solves the recurrence "an Impl whose main cost
is least, of those that the actions yield with any results of `Opt` for the sub-Specs".  It is a set
because only the main cost of a Spec is determined.  Which of several Impls of that main
cost a search finds, and with which peaks, depends on the Impls that it meets for the sub-Specs, and
so on the order of puts (`cost.rs:78`).  `top_k` is 1, the only value `search.rs` implements.

`SynthSearch.tla` models `top_down_many` and the threads.  A thread is a stack
of blocks; a block's fields are those of `BlockSearch`:

| model | code |
|---|---|
| `ws`, `running` | `working_set`, `working_set_running` |
| `internal` | `working_block_requests` |
| `external` | `subblock_requests` (one map per page; here one map, of which a page's is the restriction) |
| `visited` | `visited_in_stage` |
| `outbox` | `subspec_results_outbox` |
| `frames` | the `visit_next_request_batch` calls on the call stack, each with the requests it has left |
| `deliv` | the handles `inner_resolve_request` still has to resolve |
| `todo` | the goals, running tasks or results that the loop in progress has left |
| `cells`, `res` | the put in progress: the cells it has still to write, and the result |

The actions follow the code's control flow: `VisitGoal`, then
`DrainOutbox`/`ResolveRequest` until the outbox is empty, `SynthesizeSubblock`
(a push on the stack) and `ReturnSubblock` per requested page, `BeginStage`/
`StageVisit`, and at the end `PutTask`/`WriteBlock` per result.  Within
`visit_next_request_batch`, `VisitSubspec` is the recursive call and one of
`RequestExternal`, `AwaitInternal`, `AnswerInternal` deals with its outcome.
Actions of one thread that touch only its own stack could be merged; they are
kept apart so that the database reads (`GetTask`) and block writes
(`WriteBlock`) of the threads interleave as the code's do.  A get is atomic and
a write covers one database block, as the shard's mutex makes them.  Each
thread visits a Spec's actions from its own starting point (`Turn`,
`initial_skip`).

The order in which sets are drained (the outbox, the tasks of a stage, the
requests of a page, the results) is nondeterministic: in the code it is the
order of hash maps, or of a list whose order no caller relies on.

`SynthContract.tla` is what the search promises: the database only gains results of
least main cost, each goal is answered once, with such a result and after the
database has recorded one, and all are answered in the end.

`MCSynthSearch.tla` has the instance: twelve Specs on two pages that depend on
each other, with failing actions, ties, an unsatisfiable Spec reached through a
partial Impl, an action with the same sub-Spec twice, and three pairs of Specs
that are one logical Spec under two memory limits, one pair in one database block and the
others in two.  A cost has a main cost and two peaks, and `Fill` is the box of limits
between the peaks and the Spec's own limits.  The puts of both Specs of a pair meet: the search of `m2`
finds one of three results of the same main cost, two of them with peaks within
`m1`'s limits, and its put over both cells may come before or after `m1`'s own, with another
action or the same.

### The shard

`ShardStore.tla` models one shard.  The client's side is the call that holds
the shard's mutex (`call`, with the place it is at): drain the responses that
are ready, send a Get unless one is outstanding, wait for the superblock,
use it.  The background thread's side is `hand`, the command it is working on;
a write truncates the file first (`CreateFile`) and completes it later
(`FinishFile`), so that a crash can leave a torn file.  Pushing a received page
may evict another one, whose write must then be sent (`SendEvicted`), possibly
blocking on the full channel.  `DropPut`, `DropExit`, `CloseReceive`, `Close`
are `FilesDatabase::drop` and `Shard::drop`; `Reopen` is the next process.  A
page is abstracted to the number of puts it reflects, which is what it takes to
tell a lost or a stale page.  The cache's policy (W-TinyLFU) is a library's:
any cached superblock but the one just pushed may make room.

`AtomicStore.tla` is what clients rely on: gets and puts of pages that take
effect at one instant.  Only a crash may take back the latest of them, and a crash leaves
a process that has done nothing yet (`fresh`): no step of one that goes on, an
eviction or a load, may lose a put.

`MCShardStore.tla` adds the symmetry of keys, which the run without liveness uses.

The search and the shard compose by contract: SynthSearch's `db` is an atomic
store, which ShardStore is shown to implement as long as the process lives.

### The tables

`NDArray.tla` has the arrays of `ndarray.rs` as operators on a shape and a flat
buffer: offsets, the contiguous tiles of a region, `fill_region`, the fill that
runs on through entries of `filled` that hold no action (`FillEnd`), and
`fill_broadcast_1d` for one and for several results.  The buffer is the function
that the code's run-length encoding stands for.

`DbTable.tla` is one table: points (a Spec's coordinates followed by its scaled
limits), blocks created by the first put that reaches them and truncated at the
table's edge, and puts.  `BeginPut` computes the box and cuts it into pieces, one
per block; `WriteBlock` is one round of put's loop, under the block's lock, in the
order of the product.  Two threads' rounds interleave.  `BlockSizeOf` stands for
`block_size_dim`, with sizes small enough that boxes cross blocks.  The four
arrays of a block are two here: `filled`, and one for the three that are filled
alike.

`CellStore.tla` is what the search relies on: a cell per point, and puts that each
fill a box with one result, part by part, and nothing outside.  SynthSearch's
`Fill` is that box.

### Memory limits and costs

`MemoryPlan.tla` plans logical Specs one after the other: `Plan` takes any Impls
on offer over those already planned (kernels, serial and parallel loops, blocks of
two stages, moves of so many sub-Specs at a level) and computes the optimum under
every limit, as the search would: `LowerLimits` and `Fits` are what `apply()` does
with limits when it takes an allocation off them, `Peaks` is `peak_memory_from_child_peaks`, `MainCost` each node's
`compute_main_cost`, `Cheaper` the order of `Cost`, `Least` the reducer.  The
states are thus all the small programs, and the properties are about every limit
and every box that a put would fill.  Limits and peaks are binary-scaled as in
`MemVec`, and sizes have a width (`SizeBits`); main costs have another (`MainMax`).

`LowerLimits` leaves out that the sub-Specs of a move and of `ToAccum` are canonicalized
(`scheduling.rs:653`, `671`, `718`, `725`), which zeroes the limits of the levels that are
slower than all operands' (`spec.rs:124`).  No Impl of such a Spec allocates at those levels, so its
peaks there are 0 either way; `ScheduleWalk` has the zeroing, with the Specs' operands.

### Specs, layouts and scheduling

Six modules of operators, one per group of files, and one of states:

* `Layouts.tla` (`layout.rs`): a layout is a sequence of physical dimensions,
  whole, packed, or interleaved.  Physical shapes, buffer indices, what is
  contiguous after a tile (`LowerContig`) or a move (`IncreaseContig`), canonical layouts.
* `CpuTarget.tla` (`target/cpu.rs`, `x86.rs`, `common.rs`): levels, vector sizes,
  the layouts a move may choose and those that are enumerated, and for every
  kernel the operands it applies to (`applies_to_parameters`).
* `TensorSpecs.tla` (`tensorspec.rs`, `alignment.rs`, `tiling.rs`): operands and
  what tiling, squeezing, transposing and moving make of them.
* `Specs.tla` (`spec.rs`): the primitive Specs, `input_tilings_for_tile_out`, the
  canonical form, and the actions generated for each.
* `Scheduling.tla` (`scheduling.rs`, `imp/loops.rs`, `imp/moves.rs`, and the order
  of loops in `codegen/cpu.rs`): when `apply()` gives an error and otherwise which
  Impl, with the Specs of its children.
* `SpecKeys.tla` (the `SpecKey` and surmaps of `spec.rs`, `tensorspec.rs`,
  `layout.rs`, `memorylimits.rs`): a Spec's table and its point, and the Spec of a
  point.

`ScheduleWalk.tla` is a path from a Spec to a kernel.  A step applies an action,
goes to one child and, of a loop, into one iteration; the state has, next to the
Spec, where in memory each operand really is (`views`: the buffer, the origin in
it, which of its dimensions the operand runs over, the place in the root's
problem, whether values are there), as the views and code generation compute it.
So what a Spec claims (its contig, its bindings, its limits) is held against a
memory that is modelled separately from the claims.  `MCSchedule.tla` has the
roots: a matrix product, a copy of a packed matrix, a cast to an interleaved
layout, a product in lower precision, a convolution of one output pixel, and a zeroing
in parallel.  Numbers of iterations are small; the memory limits
are set so that registers, vectors and caches are each used somewhere.

### The precomputation

`Precompute.tla` is the driver: `Start` reads the progress file, each stage's tasks
run in parallel, `Hit`, `Miss`, `PutSub` and `Answer` are one search (an entry of
the database, or an answer put over its box, with any sub-Spec of it put on the
way), `NextLimits` is `next_limits`, `TruncateProgress` and `WriteProgress` are the
two steps in which the file is rewritten, `Evict` and `Exit` are how the database
reaches the disk, and `Crash` leaves what has reached it.  Which of several equally good
answers a search gives is left open.  `MCPrecompute.tla` has two bounds, of two
stages and of three, two levels of memory, an answer with a tie, and two jobs that share a bound.

How it composes: `Box` is the box of `DbTable`, `Answers` what `MemoryPlan` says of
a search (none above the limits, the same main cost in a box), and a hit is atomic
and covers what is below it, as `HitsCoverBelow` says of tables.

## 3. Runs

| run | what it shows |
|---|---|
| `synth_one_thread` | one thread, three goals on both pages in two groups: types and shape, no panic, the count of running tasks, no lost request, nothing owed at the end, and the refinement of `SynthContract` with its liveness |
| `synth_two_threads` | two threads, one goal whose sub-Specs share work, with ties and puts over each other's boxes: every entry of least main cost, none emptied or given another main cost, each with its dependencies, the result of least main cost, and the search ends |
| `synth_mixed_results` | (violation) several threads and goals on two pages: a goal is given another goal's result |
| `shard_calls` | three superblocks through a cache of one, with crashes: loads are tracked once, current when they arrive, and no `expect` or assertion fails; the shard implements `AtomicStore`; every call and the drop end |
| `shard_flush` | (violation) after `flush()` a page may be in the cache only |
| `table_results` | two threads' puts over boxes that cross blocks, one or two results per entry: ranges stay within blocks, whoever hits a cell of a put finds all cells below it, no default is ever read as a result, and the table implements `CellStore` |
| `plan_two_levels` | every plan of three logical Specs over two memory levels, sizes of four bits: one main cost in the box of a put, no peak above its limits and the sub-Specs' cells in the boxes of their own puts (`BoxOfSubSpecs`), and more memory never worsens a Spec |
| `plan_overflow` | (violation) a parallel loop over a saturated cost wraps and looks cheap |
| `schedule_walk` | every path from six small problems to kernels: Specs stay canonical and get smaller, layouts apply, contiguity is as claimed, operands of an iteration agree, values flow from inputs to the output, buffers fit, loops run once per tile, keys give Specs back |
| `schedule_conv` | (violation) the tile of a convolution's image does not follow the output's rows |
| `precompute` | two processes, possibly killed: a completed stage covers all limits, the file promises no more than is on disk, every stage that was asked for is on disk when a process ends (`AskedIsStored`), processes end |
| `precompute_stages` | (violation) a process that was asked to run at most one stage runs two |

Bounds.  `synth_*`: the twelve Specs above; two threads are enough for every pair
of racing puts and gets, since threads only meet at the database.  `shard_*`:
three superblocks with a cache of one give evictions of a page that is
asked for again while its write is queued, evictions during another load, and
full channels, on which the client blocks, or the background thread; their capacity is the
code's, 2.  `MaxPuts` bounds the puts of a page (one tells a current page from a stale one,
which has none).  `MaxUncollected` bounds the prefetches whose pages nobody has
received when the database is dropped: `drop` sends its writes without
receiving, so with more of them than the response channel holds both threads
would wait forever (with four keys, `Cap = 1` and `MaxUncollected = 2`, and without the
assumption that excludes it, TLC finds that state); with more than the cache has room for, an
eviction would send to a thread that was told to exit.  The search collects what it prefetches, and `CHANNEL_SIZE`
is 2, so the bound is what callers in the repository keep; it is listed as a
hazard.

`table_results`: blocks of two cells per dimension and tables of three or five
limits, so that a box begins and ends within a block, covers whole ones and meets
the truncated block at the edge; two Specs share a block, so that a fill that
runs on reaches another Spec's entries.  Two puts (`MaxPuts`) are a pair of
interleaved ones, or of which the second covers entries that the first filled
or ran through; the results are none, one or two actions.  After them the system
stops: deadlock is not checked.

`plan_*`: three logical Specs with two Impls each are a parent that chooses between
two Impls whose sub-Specs choose between two; memories of one to eight bytes and
allocations of one and three bytes give every case of rounding.  `MainMax` stands
for `u32::MAX`; at 7, costs saturate.  No action is left when all Specs are
planned, so deadlock is not checked.

`schedule_*`: tensors of at most 16 elements.  Tilings of two, of one, and of a whole
dimension are all there are at two elements, and every action of every kind of Spec
occurs.  `TilingDepth` is 0, no bound on tile sizes.  Hardly any operand
is larger than a cache line of 32 bytes, and no property holds what is called aligned
against addresses (see the remarks on the findings).  A path ends with a kernel, or where no kernel fits: deadlock is
not checked.

`precompute`: three Specs under six limits; one Spec's answer uses
both levels, one has a tie, and one has a second Impl that needs no memory.  A stage
with two tasks, of which one puts the other's Spec on its way, gives the races.
Two processes (`MaxRuns`) are a run and its continuation, or a run of another job.
The searches are of one cell at a time, where the code hands `top_down_many` a list
of goals of one thread (the pairing of several goals is `SynthSearch`'s
`ResultsOptimal`).  The database's directory is always given.  After `MaxRuns`
processes, or with a file cut off, the system stops: deadlock is not checked.
After a crash that lost pages (`lost`) `StageCovered`, `ProgressHonest` and `AskedIsStored`
are not claimed: they do not hold, and nothing in the code repairs it.  Nor does
`ProgressHonest` speak of a progress file that was cut off, with which every later process panics.
So none of them covers the hazards of a kill (`main.rs:286`, `main.rs:438`), which are listed without a
property.  `--stages` is 2 or absent in `precompute`, and 1 or 2 in `precompute_stages`.

Fairness.  `SynthSearch!FairSpec`: the driver and every thread keep running.
Nothing else is assumed: threads wait for no one but, for the length of a call,
a shard's mutex.  `ShardStore!FairSpec`: a call that has begun goes on, and so
does the background thread; nothing has to begin.  `Precompute!FairSpec`: the
process goes on; the searches it waits for end, which is `SynthSearch`'s
`Terminates`.

`synth_one_thread` and `synth_two_threads` end in a state where `top_down_many`
has returned; `Terminating` lets it stutter, so deadlock is checked there, as in the shard's runs.

The mutants listed in `PROJECT.json` are one plausible slip each in the
definition that follows them ("Faulty" in the modules): they show that each
property can fail.

Divergences found while modelling are under "findings" in `PROJECT.json`:
several threads with goals on several pages (`search.rs:185`), `flush()`
(`db.rs:408`), a loop's overhead (`imp/loops.rs:99`), the bindings of a
convolution's image (`spec.rs:348`), and `--stages`, which `main.rs:59` calls the maximum number of
stages to run and of which one more is run (`main.rs:289`).

Three remarks on what was read and not made a finding.  The comment at
`layout.rs:25-27` says that an interleaved dimension has its odd-indexed elements
first, where the buffer expression puts the even ones first; the model follows the
expression.  And the map of a Conv to its point takes the logarithm of output
sizes (`spec.rs:1377`) and so has none for outputs whose sizes are not powers of two; the roots'
are.  And `aligned_approx` (`alignment.rs:8`) "Checks if each tile of a tiling's
earliest value is a multiple of the target's alignment size", but its strides are of
the parent's whole physical dimensions, and the tile's shape plays no part: of an
aligned 2 by 8 matrix of `f32`, in rows of 32 bytes, a tile of one element at byte 4 is
called aligned (`alignment.rs:39-45`; `AlignedApprox` says the same).  `VectorAssign`
is emitted through aligned pointers when its operands are called aligned
(`codegen/cpu.rs:679`).  The test of `alignment.rs` tiles rows of 16 bytes.

## 4. Proofs

### The search

`SynthSearchProofs.tla` and `SynthAnswerProofs.tla` prove,
for every set of Specs, actions, costs, pages, goals and any number of threads:

* `DatabaseSound`: `Spec => []DbSound`, every entry of the database is a result
  of least main cost for its Spec;
* `MainCostsFinal`: `Spec => MainCostsAreFinal`, a filled cell is never emptied and
  its main cost never changes, though its action may;
* `TypeCorrect`: `Spec => []TypeOK`;
* `AnswersOptimal`: `Paired => (Spec => []ResultsOptimal)`, when `top_down_many`
  has returned, each goal's index holds a result of least main cost for that goal.  `Paired` says that
  there is one thread or that all goals are on one page; it is the proviso under
  which `zip` pairs results with their own indices, and `synth_mixed_results` shows
  that it is needed.

`DbSound` alone is not inductive: a put writes what a task holds, the task
holds what its reducer has seen, and that depends on the costs delivered to its
partial Impls, by three routes, possibly through the stack of nested searches.
The invariant `IInv` therefore says of every block on every stack:

* each task is sound (`TaskSound`): its reducer holds the best of the leaves
  and of the partial Impls that are Sat, each Sat one is satisfiable and each
  Unsat one is not, each filled slot holds the cost of one of its sub-Spec's results of least
  main cost, the count of Impls under construction is right, and a complete task
  holds a result of least main cost;
* each request is filed under the sub-Spec it asks for, and names an action
  and a slot that exist;
* each answer on its way carries the cost of such a result of that sub-Spec;
* only complete tasks are in the outbox, stages and puts go over tasks that are
  in the working set, and a put in progress writes a result of least main cost.

Why the result of a task that ends is of least main cost (`AllFinished`, `FinishPartSound`): when
nothing is under construction, the reducer has seen one Impl of each satisfiable
action, with some costs of its sub-Specs, and holds the best of those by `Cost`.  Another choice
of costs would have given an action's Impl other peaks, but the same main cost
(`MainAssumption`), so none of `Candidates(s)` has a lower one: the best by `Cost` among the
Impls seen is of least main cost among all.  `MainCostsFinal` follows from `DbSound` before
and after a step, since all results of `Opt` have one main cost (`OneMain`), and
from the fact that no step shrinks the database.

`AInv` adds to `IInv` what the driver relies on: a busy thread's outermost block
has the goals of the group being searched, a thread that has returned has
returned results of least main cost for them, and so have the indices of the groups already
searched (`AnsweredInv`).  Only four actions touch what it adds; all
others keep the outermost block's goals (`GoalsKept`).

`SynthAnswerProofs.tla` proves first the bookkeeping that ends a search and that a test
can hardly reach, because it goes wrong only when tasks complete while they are borrowed
further up the call stack:

* `CountRight` (`RunningCount`): the hand-kept count of running tasks is right;
* `RequestsKept` (`NoLostRequest`): what a batch asked for is on its way until it is
  answered;
* `QueuesDrained` (`DrainedAtEnd`): a block that puts its results owes no answer;
* `SearchNeverPanics` (`NoPanic`).

The invariant (`FlowInvariant`) follows a request from the frame that asks it, to the
queue it is filed in, to the handle that is resolved: while its slot is empty it is in
exactly one of these places, and a slot that no batch has asked for is empty and in
none.  A second resolution of a slot is impossible because the first takes the
request from its only place.  To this come what each phase of a block has emptied, that a
suspended parent waits for the page its child works on, and that the frames of a call
stack are for different Specs: the task of each is borrowed, so that a visit of one of
them would panic.  The last follows from `AcyclicAssumption`, that sub-Specs can be
numbered downwards; that of the actions themselves is `ScheduleWalk`'s `Descends`, which
`AlwaysDescends` proves.

Then it proves `DependenciesKept` (`DependenciesRecorded`): each sub-Spec of
an entry's Impl has an entry or is among the cells that a put has still to write.  The invariant
is about the cells that are recorded or about to be, which are closed under boxes and
under the sub-Specs of every Impl of least main cost that such a cell holds, and about answers:
whatever a task was answered is such a cell or a complete task of its block, which will be put.
A put that replaces a cell's action by another one of the same main cost brings that
action's sub-Specs with it.  It rests on `FillClosedAssumption`: the sub-Specs of a cell's Impl are
those of the Spec that was put, or in the boxes of their puts.  That is `MemoryPlan`'s
`BoxOfSubSpecs`, which is proved (`BoxesNest`).

`KeepsContract`, of the same module, is the refinement: when `Paired`, the search implements
the safety part of `SynthContract`.  The database changes only in `WriteBlock`, which
adds results of least main cost (`DatabaseSound`); a goal is answered when the group of it has ended, and then
the threads that have returned have put it.

The assumptions the proofs use are those on the constants: `Opt` solves the
recurrence (`OptAssumption`), costs of Impls are natural numbers
(`ActionsAssumption`), a lower cost is no higher main cost and an Impl's main cost depends on
its sub-Specs' main costs only (`MainAssumption`), goals are Specs (`GoalsAssumption`), a result is of
least main cost in every cell that its put fills (`FillAssumption`), and the two just named;
TLC evaluates them for the instance.

None of them excludes ties.  `FillAssumption` is what `MemoryPlan` examines: under every limits of the
box the Impl applies with sub-Specs that are in the boxes of their own puts (`BoxOfSubSpecs`), and
the least main cost there is the same (`BoxHasOneMainCost`, proved where no loop's main
cost wraps), so the Impl put is one of least main cost there too, if not the one that a
search under those limits would choose.  `MainAssumption` is `Cost`'s order (`cost.rs:72-94`) and
`MainCost`, which takes the children's main costs.  What the theorems do not say is which of
several Impls of equal main cost an entry holds: the code leaves it to the order of puts.
`Precompute` leaves that choice open, too.

### The shard

`ShardStoreProofs.tla` proves, for every set of superblocks, size of the cache and
capacity of the channels, with or without crashes:

* `Refinement`: `Spec => ImplementsAtomicStore`;
* `LoadsCurrent`, `Tracked`, `NeverPanics`, `TypeCorrect`: `LoadsAreCurrent`,
  `LoadsTracked`, `NoPanic` and `TypeOK` are invariants.

The argument is about the order of the command channel.  A superblock is asked for
only when it is neither in the cache nor about to be sent off, and only once, so
whatever was put to it before is ahead of the request in the channel, and nothing
is put to it until the answer has come.  `IInv` says so: each outstanding load is in
exactly one of the channel, the thread's hand and the other channel (`LoadsOnce`);
puts of a superblock are ahead of the Get of it (`Queued`); what was loaded is what is on
disk (`LoadsFresh`); what is being evicted is not being loaded (`EvictedApart`); in
each phase of the process what must have ended has (`Phases`); and nothing on its way, or on
disk, is later than the superblock (`Earlier`), which is what a crash falls back on.
Then each step either keeps every superblock, or is a get, a put, or a crash
(`Changes`), and that is the abstract store's next-state relation.  Two lemmas on channels,
what appending and taking the head do to the last put in one (`AppendPut`, `TailOther`),
carry the weight.  The assumption used is the one on constants; of it, `MaxUncollected <=
CacheSize` is needed for the drop: with more prefetches on their way than the cache has
room for, an eviction would send to a thread that has been told to exit.

### The precomputation

`PrecomputeProofs.tla` proves, for every set of Specs, jobs, bounds and levels:

* `StagesCovered`: `Spec => []StageCovered`;
* `FileHonest`: `Spec => []ProgressHonest`;
* `NothingSkipped`: `Spec => []AskedIsStored`, when a process has ended of itself, the stages
  that it was asked for are on disk, those included that it left out because of the progress file;
* `TypeCorrect`: `Spec => []TypeOK`.

The invariant is that, of each Spec of a task of the running stage, each limit has an
entry or is below one that is still to be searched, and that every entry comes
with its box: whoever finds an entry under some limits, put by whichever search, finds all
cells between its peaks and those limits, so that only what is below a peak in
some level is left, and that is what `NextLimits` lists.

### The tables

`DbTableProofs.tla` proves, for tables of any number of dimensions, any sizes of
blocks, peaks and results, and any number of threads whose puts interleave:

* `TableIsCellStore`: `Spec => ImplementsCells`, a put fills exactly its box;
* `HitsAreClosedDownwards` (`HitsCoverBelow`), which the search and the
  precomputation rely on when they take a hit for the whole box below it;
* `EntriesAreResults` (`NoGarbage`) and `WritesStayInBlocks` (`PiecesFit`);
* `FillRegionIs` and `FillBlockIs`: filling a region of an array or of a block writes that region
  and no other place that can be read.

The first half is about arrays of any shape.  Strides and offsets are recursive
functions, about which one would argue by induction over the dimensions; tlapm has
none over operators, so a fact about all dimensions is proved of the least (or the
last) one that would be an exception (`LeastNat`, `UpTo`, `DownTo`).  A prefix of
coordinates has a stretch of the buffer for the points behind it (`Behind`), and two
prefixes have stretches apart (`Apart`); hence offsets are unique, and the
contiguous tiles that `fill_region_ext` writes cover the region exactly
(`TilesCover`).  With one result per entry a fill runs on over entries of `filled`
that are at most 1: these have no action, so `get` never reads what is written there
(`FillThroughIs`, `FillBlockIs`).

The second half is about puts.  The blocks that `iter_blocks_in_single_dim_range` cuts a
range into are those from its first to its last, with the right ends (`RangesAre`); so
the pieces of a box lie within their blocks, truncated ones included (`PieceFits`), are
one per block (`OnePiece`), and make up the box (`PieceOfCell`, `CellsAre`).  The
invariant `TableInv` says of a put in progress that a cell of its box that has nothing
yet is in a block that is left.  A cell below another is in the same block or in
one that comes first in lexicographic order (`BelowIsBefore`), hence written first; and the
box of a result at a cell of a put is part of the put's (`BoxInBox`).

The assumption used is `DbTableAssumption`: sizes of blocks are positive, the Specs of a
table have equally many coordinates, and peaks are within the target's levels.

### Memory limits and costs

`MemoryPlanProofs.tla` proves, for plans of any number of Specs and Impls, moves of any number
of sub-Specs, any memories, allocations and costs, and any widths:

* `BoxesNest`: `Spec => []BoxOfSubSpecs`, peaks keep to the limits, and in the box of a put
  the action applies and its sub-Specs are in the boxes of their own puts;
* `MemoryHelps` and `BoxesHaveOneMainCost`: `Spec /\ []OverheadFits` implies
  `[]MoreMemoryNeverWorsens` and `[]BoxHasOneMainCost`;
* `SerialPlans`: both of these from `Spec` alone where no loop has an overhead, as on a
  target without parallel loops.

`OverheadFits` says that the `+ overhead` of `Loop::compute_main_cost`
(`imp/loops.rs:99`) has not wrapped, on which a build with overflow checks panics; without it
more memory can worsen a solution, as `plan_overflow` shows.  `BoxesNest` does not need it.

Four facts carry the argument.  Rounding up and rounding down are adjoint to `Bytes`, which is
strictly monotone (`BytesGrow`, `RoundUp`, `RoundDown`, `RestIs`).  So an Impl whose
sub-Specs keep to their limits keeps to its own, and under whatever limits hold its peaks it
fits, with room for its sub-Specs (`PeaksSound`): that is `BoxesNest`.  The main cost of an
Impl grows with its sub-Specs' (`MainCostGrows`), so what applies with less memory applies
with more, no dearer (`AppliesGrows`); and the Impl chosen under some limits has the same
main cost under those of their box (`SameMainInBox`).  The reducer's order, costs and then
indices, has a least element in every set of Impls (`LeastIs`, from the totality and
transitivity of `Cheaper`), so what is chosen is no dearer than either.  The inductive
invariant (`PlanInvariant`, `CostInvariant`) says both properties of every Spec planned, where
the runs' properties speak of the newest one: its sub-Specs are older.

The assumption used is `MemoryPlanAssumption`: memories are within the width of sizes,
allocations, costs and steps are natural numbers, constants within the width of main costs, and
`None` is no solution.

### Scheduling

`ScheduleWalkProofs.tla` is about every path that a schedule can take through the actions,
from any set of roots that `WalkAssumption` admits: operands of any shape, rank, layout,
dtype and level that apply to each other, any limits that are powers of two or 0.  That is
its only assumption, but for those that four of the theorems state: `OneValueConvs`, that each
`Conv` among the roots makes a single output value, and `BinaryRoots`, that the sizes of the
roots are powers of two.

* `BuffersAlwaysFit` (`BuffersFit`): what is allocated on the way, with what may still be,
  fits into the root's limits;
* `DataAlwaysFlows` (`DataFlows`): what a Spec reads was written on its path, and what it
  writes gets to the root's output;
* `AlwaysDescends` (`Descends`): each sub-Spec is below its Spec, as the search needs;
* `OperandsAlwaysAgree` (`OperandsAgree`): operands that share a dimension are at the same
  place of it.  It assumes `OneValueConvs`; of other `Conv`s, `schedule_conv` shows that it is
  false;
* `LayoutsAlwaysApply` (`LayoutsApply`): no unwrap of `apply` meets a layout that does
  not divide its shape, nor would the layouts a move may choose next;
* `AlwaysCanonical` (`Canonical`): `canonicalize` leaves every Spec that is met alone, and
  `is_canonical` agrees;
* `LoopsAlwaysOnce` (`LoopsOncePerTile`): one for-loop is emitted per axis, together they take
  as many iterations as the cost counts, and no tile hangs over an edge.  It assumes both, without
  which it is false: a tile of 2 hangs over the edge of a size 3, and a tile of a `Conv`'s output
  takes an image that overlaps the next one's;
* `KeysAlwaysInvertible` (`KeysInvertible`): of the Spec that is met, the database's key and
  point give back that Spec, so no two Specs share an entry.  It assumes the same, as does
  the code: `binary_scale_shapes` panics on other sizes, and the image of a tile of a `Conv`'s output
  seldom is of a size that is a power of two;
* `AlwaysTyped` (`TypeOK`): operands are `TensorSpec`s with layouts that apply and vector
  sizes that there are, and what a view is of lies within its buffer, wherever the loops
  around it are.  It assumes both too: a tile of 2 of a size 3 ends beyond it.

None of the properties is inductive.  The invariant of the first three (`SafeAlways`) is

    Safe == root \in Roots /\ SizedSpec(spec) /\ Flows(spec, views)
            /\ used \in [1..4 -> Nat] /\ BuffersFit

`SizedSpec` is what every action relies on in silence: as many operands as the `typ` takes,
of positive sizes, whose shapes are those of one problem, and limits that are numbers.
Without it neither the position of the output nor a volume means anything after a step;
that every action keeps it is most of the proof, an action at a time (`TileOutStep`,
`SplitStep`, ...).  `Descends` then compares volumes: a tile is no larger in any dimension and
smaller in one (products over a function's values, `LayoutProofs`), or a limit has been lowered.
`OperandsAgree` has an invariant of its own relative to `Safe`: `Placed` says for each kind
of Spec which coordinates of which operands are the same (for a product, those that were squeezed
away too), and the zipping of tiles along axes keeps it.

`Laid` (`LaidAlways`) is relative to `Safe` too: each operand's layout is one that
`Layout::new` accepts, applies to the shape, has no redundant packing and its ones in order, and
what it says is contiguous is of its dimensions; those of a bitwise `Move` are row-major; and a
level no operand could use has no memory left.  That a layout applies speaks of the
product of the packings inside of each of its dimensions, and of a least division: `Spans`
says it per logical dimension instead, in terms of what the fixed parts take together,
which is what dropping a packing (`DropApplies`), putting ones in order (`ReorderedApplies`), joining
neighbouring packings, dropping dimensions (`dim_drop`) and exchanging them (`swap_dims`)
leave alone.  `UpdateForTilingIs` sums up one canonicalization: whatever the layout, the
result applies to the tile and is canonical; `UpdateSame`, that a canonical one is left
alone.  The layouts a move may choose have the rank and the packings for it
(`DestinationsApply`).  Where induction over the dimensions would be used, the least
counterexample is refuted.  For that `Without` and `NewLayout` are written without folds:
`Without` by the n-th position kept, `NewLayout` as a recursive function whose step is `Joined`.

`Binary`, that all operands' sizes are powers of two, is inductive with `Safe` and `Placed`, for the
sizes that tiles may have are powers of two.  Then a tile divides its operand along each dimension
and tiles that share an axis have as many steps there (`EvenTiles`), in which case the
product over the emitted loops is the product over the tiles (`SameProduct`) and full steps are steps.
`Keyable` is what the database's numbers tell beyond that: an operand's vector size
is one of the target's, the limits are powers of two, and only what can accumulate does.
`PlaceBack` takes a point apart again: where the basics, the operands' numbers, `serial` and the limits
begin in it, that bit lengths are undone (`SizeBack`, `LimitBack`), and that `Parameters` makes the
operands' shapes out of the problem's.

That views stay in their buffers is relative to all of these: `Contained` says of each view that
its operand's dimensions run along dimensions of the buffer, each along another, and that
origin and size there are no more than the buffer has.  A tile of a loop keeps it because tiles
that touch (`Touching`) and divide their operand end within it at every index that an
iteration has (`IndexBelow`, `StepFits`); a move because its buffer is new, or is the view that it moves;
squeezing and transposing because they drop or exchange dimensions and leave the buffer alone.

### What is only model-checked

Liveness, which is out of the prover's reach (`Terminates` of the search and of the
driver, `CallsReturn`, `DropEnds`, and the liveness in `SynthContract`).  Of scheduling's
invariants one:

* `ContigSound`: it compares sums over the physical dimensions of two layouts, where a
  dimension has any number of packings, after any number of tilings.

## 5. Not modelled, and why

* Statistics, logging, hashing of Specs, the choice of hash maps, `analyze()`.
* `ImplReducer`'s Many variant: no caller in the library asks for more than one Impl.
* Compose: `canonicalize` is `todo!()` for it, and so are `Peel` and what needs it;
  pipelines, which only it builds; `Bufferize`, which applies to it alone.
* A kernel's `main_cost` and `memory_allocated`, and `move_cost`: tables of numbers.
  (A kernel's `memory_allocated` never counts in a peak: `imp/mod.rs:115-168` takes
  the children's peaks, and a kernel has none.)
* Tiles that hang over an edge: none occurs where sizes are powers of two (`LoopsAlwaysOnce` proves it), and
  `boundary_size` is read by code generation only.  Loops in parallel that are to be unrolled,
  and Highway's over several axes, are `todo!()` in code generation.
* The text of C programs, names, headers, the compiler, verification by running, command
  lines: text, input and output, without state that outlives a call.
* The algebra of index expressions (`expr.rs`): the values of the expressions are modelled.
* Run-length encoding, a library's: a buffer is the function it encodes.
* Recovery after a crash that loses pages: there is none to model.  A parent's page may be on
  disk without its sub-Spec's, and `construct_impl` then panics.

What would come next: `ContigSound`, by an induction over physical dimensions that `LayoutProofs` has no
lemmas for yet.
