# arcae in TLA+

A verification development of arcae, the Arrow bindings to casacore tables.
Paths are relative to the repository's parent: `src/cpp/arcae/` is the C++
library, `src/src/arcae/lib/` the Python bindings. `PROJECT.json` maps every
definition that models code to the lines it models.

## Inventory

casacore tables are not thread safe. arcae gives each *instance* of a table a
pool of one thread, its isolation thread, and runs everything that touches the
table there.

| part | state | operations | hard behaviour | correct if |
|---|---|---|---|---|
| `IsolatedTableProxy`: life cycle | `is_closed_`, the `TableProxy` and pool of each instance, `dependencies_` (the table it was spawned from), queues of the pools | `Make`, `Spawn`, `RunAsync`/`RunSync`, `Close`, destructor, `ReleasePools` | tasks hold a raw `this`; `Close` and the last release on any thread, isolation threads included; pools shared by spawned tables | no task outlives its proxy, no table is closed under a task, tasks queued before a close are served, closing never hangs, pools are reclaimed |
| `IsolatedTableProxy`: `Dispatch` | `InstanceStats` (outstanding cost, counts), thread-local `current_task` | `Dispatch`, `TaskScope` | lock free: loads are stale when the cost is reserved | the least loaded instance is chosen, no cost is lost or leaked |
| `Selection`, `ResultShapeData` | none | `MakeRead`, `NegateMissingSelectedRows`, `MakeWrite` | missing rows, cells of different shapes and ranks, negative indices | shape and selection agree with the column, or an error |
| `DataPartition` | none | `Make`, `MakeRowUnitStart` | gaps, order, duplicates, padding; splitting at storage units | chunks cover the result exactly once |
| `ReadImpl`, `ReadTableImpl` | result buffer, chunks, futures | partition task, fan-out, fan-in | groups write one buffer at once; the buffer may be the caller's memory | the result is what one thread would read; no write after the return |
| `WriteImpl` | as for reads | write task | shapes set before data is written; partial failure | a write changes the selected elements only |
| `NewTableProxy` | the `IsolatedTableProxy` | columns, rows, keywords, queries | columns of one table read in separate tasks; writes need one instance | each call takes effect at one moment |
| table factory, descriptors | tables on disk | `OpenTable`, `DefaultMS`, `CreateTable`, `Taql` | failure after a table was created, linked or opened on some instances | links resolve, tables are as described, others are left alone |
| cache sizes (`table_utils`) | cache size per storage manager | `ParseCacheSizeSpec`, `ApplyCacheSizes` | precedence; zero | the precedence documented |
| `Configuration`, `ServiceLocator` | process-wide settings | get, set | read by isolation threads while set, without a lock | a read fails, or is made with one of the settings |
| `merge_sort.cc`, `merge_np_partitions` | none | k-way merge | ties, NaN | a sorted permutation |
| `arrow_tables.pyx` | `Table` holds the proxy; result arrays lend memory | indices to selections, conversions | order of dimensions, slices; memory not owned by C++ | a selection is what the index means; lifetimes outlast calls |

The parts interact by calls and futures: a client (a Python thread) calls
`NewTableProxy`, which calls `ReadImpl`/`WriteImpl`, which submit functors with
`RunAsync`; continuations run on isolation threads, submit further functors,
and may drop the last reference to the proxy there.

## Modules

| module | models | kind |
|---|---|---|
| `IsolatedTableProxy`, `IsolatedTableProxyProofs` | life cycle: clients, isolation threads, pools, destructors | state machine, proofs |
| `Dispatch`, `DispatchProofs` | placement of tasks, one atomic access at a time | state machine, proofs |
| `ResultShape` | `Selection` lookup, shapes of reads, list offsets | operators |
| `RowUnits` | `MakeRowUnitStart`: tiles and blocks | operators |
| `DataPartition` | chunks, row splitting, groups, reading a chunk; on `RowUnits` | operators |
| `PythonIndex` | `build_selection` and `SelectionBuilder` | operators |
| `AtomicRead` | what a read promises | abstract specification |
| `ReadColumn`, `ReadColumnProofs`, `ReadRacesProofs` | `ReadImpl`, composed of the two operator modules | state machine, refines `AtomicRead`; proofs |
| `WriteColumn` | `MakeWrite` and `WriteImpl`, on the same operator modules and `PythonIndex` | state machine |
| `TableCalls` | the calls of `NewTableProxy` and their functors | operators |
| `AtomicTable` | what a table promises the threads that use it | abstract specification |
| `TableOps`, `TableOpsProofs` | `NewTableProxy`, `ReadTableImpl`, `Taql`, settings: threads, tasks, callbacks | state machine, refines `AtomicTable`; proofs |
| `TableFactory`, `TableFactoryProofs` | opening and creating tables; composed with `CacheSizes` | state machine, proofs |
| `CacheSizes`, `CacheSizesProofs` | `ApplyCacheSizes` | state machine, proofs |
| `PartitionMerge`, `PartitionMergeProofs` | the k-way merge | state machine, proofs |
| `MC...` | inputs for TLC | |

### IsolatedTableProxy

A one-thread pool is a FIFO queue and its thread, so instance *i* names its pool,
its queue and its thread. A task stays at the head of the queue while it runs.
Each thread has a program counter `pc`, the proxy `arg` it works on, its loop
index `next`, and the destructors it is in (`unwind`: dropping a spawned proxy
may run the destructor of its parent). `table[p][i]` is the state of the casacore
table of proxy `p` on instance `i`. `held` are the clients' references; the
others (callbacks that captured the proxy, `dependencies_`) are computed by
`Referenced`. One action per step between which other threads may run:

- `StartMake`/`StartSpawn`, `MakeSubmit`, `OpenSucceeds`/`OpenFails`,
  `MakeReturn`: `Make()` and `Spawn()`, one open task per instance, in turn;
- `Call`, `CallSubmit`: `CheckClosed()` and, later, the submission;
  `StartFunctor`, `RejectTask`, `EndFunctor`: `InvokeOnInstance()`;
- `StartCallback`, `CallbackCheck`, `CallbackSubmit`, `CallbackReturn`,
  `TeardownCallback`: the continuation of `ReadImpl`, which captures the proxy;
- `StartClose`, `CloseInline`, `CloseSubmit`, `CloseTask`, `CloseReturn`;
- `ClientDrop`, `ReleasePools`, `DropDependencies`, `DropPools`, `JoinPools`,
  `CpuDelete`: the end of the last reference, on any thread.

Simplifications. Every client gets a reference when a proxy is made, and a client
blocks for the whole of its call, as every method of `NewTableProxy` does; so
the caller's reference protects the raw `this` of its tasks. A call refused
because the table is closed changes nothing and is left out. `close()` may throw,
leaving the table `failed`: whether it is then null is casacore's business, so
tasks may run on it or be rejected. The functor of `Spawn()` may fail or succeed
on a closed table. The CPU pool deletes pools in one step. A callback attached
after its future finished (it then runs on the client) and `Close()` called
explicitly by a functor are left out. `afterClose` is a history variable.

### Dispatch

`LoadNext` is one iteration of the loop, one relaxed load; `Reserve` the two
additions; `EnterTask`/`LeaveTask` the constructor and destructor of
`TaskScope`; `EndContinuation` the end of the continuation, which may dispatch
too. `drift[t]` records what other threads reserved or released while `t` was
choosing: the amount by which its loads may be stale. `least` starts as the
largest int64 in the code, which no load reaches.

### ResultShape, RowUnits, DataPartition

Pure functions, translated one to one, over sequences: FORTRAN order, rows last,
indices from 0. A column is the shape of each cell and whether it is defined. The
numbers are elements instead of bytes. A storage is what casacore tells of the
storage manager: the hypercube of each row and the row's position in it, or the
number of rows in a Dysco block; `UnitStart` is what the code makes of it. The
rows of a `TiledShapeStMan`'s hypercubes interleave, so starts need not ascend;
`AlignBoundary` bisects as `std::ranges::upper_bound` does, and `ReadsAtomically`
holds wherever it ends up. `UnitsReadOnce` is stated with the units themselves
(`UnitOf`), for storage whose units are runs of rows (`UnitsConsecutive`) that a
hypercube holds in their order (`UnitsInOrder`).

### PythonIndex

`build_selection()` turns the index of a Python call, in C order, into a
selection, in FORTRAN order: slices are refused or enumerated, the dimensions
reversed. `Meaning` and `Entry` say what the index means in Python; `WriteColumn`
states what is written where in their terms and not in those of the selection.

### ReadColumn, AtomicRead

`PartitionTask` is the first task, which either reads the chunks itself or leaves
them to `Spread`, the callback, which makes one group for each instance.
`ReadChunk(g)` is one iteration of `ReadChunks()` in the task of group `g`;
groups interleave. Any task may fail at any point (`FailGroup`, partly written
chunks included). An element of the column is its own coordinates, so that
the buffer shows where every element of the result came from. `Expected`
computes the result from the request alone: row by row, element by element,
without chunks, sorting or strides of chunks. `ReadsAtomically` says that
`ReadColumn` implements `AtomicRead` with it. `MakeArray()` wraps the buffer in
Arrow lists: whether it succeeds is left open (an invalid configuration, a
dimension of size 0), and the offsets of the lists are `GetOffsets`.

### WriteColumn

A write is one task, so its steps only interleave with failure:
`BuildSelection` (`build_selection`, in Python), `CheckRequest` (all checks made
before the loop over the rows), `CheckRow` (one row, which may give an undefined
cell its shape), `PartitionData`, `WriteChunk`, `Return`, and `Fail` at any point, some rows of a chunk written or not. Elements of the column
are `Old`, `Unset` (of a cell shaped by this write) or the k-th element of the
data, `Datum(k)`; a String that was moved out of the buffer is `Moved`. Data is
described by the shapes of its rows, how its values convert (`same`, `cast` or
`string`) and how many rows of a larger array a slice cut off (`cut`). `Wanted`
computes from the request alone what goes where. A complex number is one element,
and data has at least one row.

### TableCalls, AtomicTable, TableOps

`TableCalls` has the calls and, for each, what its functor does to a table of two
columns: one whose cells are there as soon as the row is, one whose cells must be
put. `AtomicTable` says what threads may rely on: a call takes effect at one
moment between the call and its return. `ToArrow()` promises less: it lists
the columns at one moment, reads each at a later one, and leaves out those it
can't read.

`TableOps` has a queue and a thread for each instance; tasks are placed on any
instance (that is `Dispatch`'s concern) and stay in the order of their queue.
`Submit` and `Run...` are the task of a call; `SpawnNext` and `RunStatement` one
iteration of `Spawn()`; `RunList`, `SubmitColumn`, `Deliver` and `Assemble` are
`ReadTableImpl()`; `RunRead` reads a column within the partitioning task, while
`RunPartition`, `SubmitPiece`, `RunPiece` and `FanIn` spread it over the
instances, in as many pieces as `ReadColumn` may split it. The configuration isn't
locked: between `BeginSet` and `EndSet` a read may find any strategy. A crash
because of that race is undefined behaviour beyond the model. The table is one
value shared by the instances: the tables of the instances are handles
of one file. UPDATE and DELETE are made only on tables with as many instances as
`TaqlWriters` says, so that `table` shows what holds without finding 3.

### TableFactory

One request after the other: `Check` is what is found out from the arguments;
then the functor runs for each instance in turn, one action for each call of
casacore that touches the disk (`OpenOld`, `CreatePlain`, `CreateMain`,
`CreateDefaults`, `OpenMS`, `CreateSubtable`, `Link`), and ends with the steps of
`CacheSizes` (`Apply`). `Throw` is casacore throwing at any of them, which leaves
the disk as it is. `Instantiated` is the loop of `Make()`. A description maps
entries to whose they are, the type's or the user's; `Required` and
`DefaultSubtables` stand for casacore's with one member each. A table made over
another keeps the files of old subtables or not: casacore's business.

### CacheSizes

`Validate`, then three passes of `SetColumn`; the order of columns within a pass,
which is that of their names, is any order. casacore caps the storage manager of
the column: that is `cap[managerOf[column]]`.

### PartitionMerge

`Fill` is one iteration of the loop that fills the queue, `Merge` one of the loop
that empties it. `std::priority_queue` does not say which of several equal rows
is at the top, so any may be. Values are integers or NaN; rows are sequences of a
value for each array.

## Runs

| run | instance | checks |
|---|---|---|
| `lifecycle` | 2 clients, 2 instances, 1 proxy | all safety properties of the life cycle; calls and closes return, pools are reclaimed |
| `spawn` | 1 client, 2 instances, a proxy and one spawned from it | the same where destructors nest and pools are shared |
| `cross_close` | 1 client, 2 instances, 2 spawned proxies | finding 1 |
| `dispatch` | 2 clients, 2 instances, 3 tasks of cost 1 or 2 | placement, reservations and their release |
| `read` | 3 instances, about 1000 reads | refinement, no overlapping and no late writes, balance of groups, alignment to units, list offsets |
| `write` | about 4200 writes | what is written where, also by failed writes; reading it back; sufficiency of the checks |
| `sliced_write` | slices of arrow arrays | finding 2 |
| `table` | 2 threads; 3 calls on 1 instance, 2 calls on 2 | refinement of `AtomicTable`, lengths of columns, calls return |
| `taql_write` | UPDATE on 2 instances | finding 3 |
| `create` | 3 requests; 3 columns, 2 storage managers, all assignments and sizes | links, descriptions, other tables, precedence |
| `cache_zero` | sizes of 0 for columns and storage managers | finding 4 |
| `merge` | up to 2 partitions of up to 2 rows of 2 arrays, values 0, 1 and NaN | a sorted permutation |

Bounds. Two clients are enough for a call to race a close, a drop or another
close; two instances for fan-out, for closing from an isolation thread with
another pool to wait for, and for failing partway; three proxies for siblings.
The state is finite without a bound on steps: a proxy is made once. `MaxTasks`
bounds dispatched tasks; three cover two clients racing while a task dispatches
from its own thread or its continuation. Reads enumerate selections with gaps,
reordering, repeats, negative and out of range indices in each dimension, cells
of different shapes and ranks, undefined cells, and result arrays smaller,
larger and equal; `MinSplitBytes = 2` makes such small reads split, and three
instances have groups that are neither first nor last. Writes enumerate the same,
with data of one shape or several, defined and undefined cells, and data that
doesn't fit, indexed by lists and by slices of every kind. Storage is in blocks, in
tiles along one or two row axes, in hypercubes whose rows interleave, and in one whose
rows are the other way round. Sizes of at most 3 are enough for a contiguous range, a
gap, a reversal and a repeat in one dimension. Two partitions are enough for every
pair of rows to meet in the queue; `MergeSorts` covers all other sizes.

In `table` every call is made, with arguments for which it succeeds and fails, by two
threads; three calls are enough for a write between two steps of a conversion and
another call after it, and with two instances, where nothing but TaQL could change
the table, two calls. One thread converts to Arrow: two conversions don't affect each
other. Tables have at most two rows to begin with, so that a read is spread over two
instances. In `create` three requests make a MeasurementSet, a subtable of it and
either again; every subtable type is asked for by a representative (one of the
default subtables, one in lower case, the one whose name on disk differs, unknown
ones); all cache sizes come with one plain table of two instances, which the code
treats as it does the others.

Deadlock is not checked: clients may stop for good, and the other machines end.

Fairness is weak fairness of what has begun: client steps after a call started,
steps of the isolation threads, of destructors, and of the CPU pool. Threads are
scheduled by the operating system and functors return. No client has to start
or drop anything. In `TableOps` likewise: a client goes on with a call it has made,
callbacks run, and instances work off their queues; no client has to make a call.

## Findings

1. `cross_close` (`CloseReturns`): two proxies spawned from one table share its
   pools. If their last references are dropped at the same time on the isolation
   threads of two instances, each destructor's `Close()` waits for a close task
   queued behind the other (`isolated_table_proxy.cc:183`).
2. `sliced_write` (`WritesSelected`): a slice of a primitive Arrow array is written
   from the start of the array it was cut from (`write_impl.cc:207` drops the
   offset). The Python bindings only build whole arrays.
3. `taql_write` (`WritesNeedOneInstance`): `Taql()` runs its statement once on each
   instance (`table_factory.cc:261`) and is not refused for several, as all other
   writes are. With two instances an UPDATE takes effect twice.
4. `cache_zero` (`Precedence`): 0 is documented to leave a column or a storage
   manager unbounded, but leaves it with the cap of an earlier pass.

Met on the way, and allowed for in the properties:

- `Make()` and `Spawn()` that fail on a later instance destroy the open tables of the
  earlier ones on the calling thread (`isolated_table_proxy.h:188`), which
  `NoOpenTableDestroyed` exempts;
- a gap in the selection of a dimension other than the rows makes chunks of the same
  rows, which several instances may read (`data_partition.cc:215`); `UnitsReadOnce` is
  about one range in those dimensions;
- a `TiledShapeStMan` holds rows in the order in which their cells got their shapes. If
  that wasn't the order of the rows, the offset of a row in its band isn't the number of
  rows before it (`data_partition.cc:683`), and instances may share a band, though the
  boundaries are to leave no unit to two chunks (`data_partition.h:225`). What is read
  is right all the same; `UnitsReadOnce` excludes it by `UnitsInOrder`;
- `DefaultMS()` without a name puts a subtable under the default name, but opens the
  empty name to link it (`table_factory.cc:148`), so it always fails;
- cache sizes are validated last: a request may fail because of them though its table
  was created and linked (`table_factory.cc:212`);
- `CreateTable()` on several instances creates the table once for each
  (`table_factory.cc:237`);
- an empty list as an index selects the whole dimension (`arrow_tables.pyx:141`),
  though an empty slice is refused.

## Proofs

TLC checks small instances; the theorems are for every value of the constants. They
rest on the named assumptions of the modules and on no others, except where a theorem
states a hypothesis of its own.

| component | proved for every value of the constants | from |
|---|---|---|
| life cycle | `TypeOK`, `NoUseAfterFree`, `NoDroppedTask`, `TableOpenWhileRunning`, `EarlyTasksServed`, `ClosedMeansClosed`, `NoOpenTableDestroyed` | `InstancesAssumption`, `ThreadsAssumption`, `ProxiesAssumption` |
| dispatch | `TypeOK`, `ChoosesLeastLoaded`, `LoadIsOutstandingWork`, `NoNegativeLoad` | `DispatchAssumption` |
| table in use | `TakesEffectAtOnce`, `WritesNeedOneInstance`, `NoColumnTooShort` | `TableAssumption`; `TaqlWriters` is at most {1} |
| factory | `LinksResolve`, `AsDescribed`, `NothingElseTouched` | `RequestsAssumption` |
| cache sizes | `Precedence` | `SizesAssumption`; no size of 0 for columns and storage managers |
| merge | `OutputSorted`, `MergesEachRowOnce` | `MergeAssumption` |
| reads | `NoWriteAfterReturn` | none |
| | `Balanced`, `TypeOK` | `ReadAssumption`, `ReadsAssumption` |

### Life cycle

`IsolatedTableProxyProofs` proves the safety properties of the life cycle for any
clients, instances and proxies, spawned from each other in any way. None is inductive:
whether a proxy may be destroyed depends on who holds it, which depends on what every
thread is doing. `LifecycleInv` has three layers, each kept given those before it.

- Control (`ControlInv`): a task is queued once (`TasksDistinct`), the thread it serves
  waits for it (`TasksAwaited`), and an isolation thread is in the middle of the task at
  the head of its queue (`ServesHead`). From this a task's caller is known.
- Ownership (`OwnershipInv`): what a waiting caller, a callback, a spawned proxy or a
  destructor refers to is alive, and only one thread is in the destructor of a proxy.
  `NoUseAfterFree` follows: the caller of a task holds the proxy until the task is done.
- Tables (`TableInv`): the pools of a proxy are held until its tables are closed, so
  that `NoDroppedTask` holds; closing goes through the instances in turn, and tasks
  queued before a close are ahead of it in the queue. `TableOpenWhileRunning`,
  `EarlyTasksServed` and `ClosedMeansClosed` follow, and `NoOpenTableDestroyed` from
  the step that destroys tables.

TLC checked each conjunct with two clients and one proxy, and with two proxies on one
instance and on two.

### Dispatch

`ChoosesLeastLoaded` only speaks of the end of the loop. `PlacementInv` adds the type
invariant, `ControlInv` (a choosing thread's counter is in range, and a thread that is
dispatching has a task to dispatch) and `LoopInv`: of the instances read so far, the
load of the chosen one exceeds none by more than the drift, and `least` is what its load
was, up to the drift. Each step of another thread changes one load by exactly what it
adds to the drift. The theorem `Placement` holds for infinitely many clients too.

`LoadsAreExact` and `LoadsAreNatural` are about sums, over the threads that have
reserved but not submitted and over queues. The laws of sums (adding, removing,
changing nothing; `Append`, `Head` and `Tail`) are proved in the same module without
induction theorems: a sum is the number of its units, one for each element and number
up to it, and a finite set for which a sum differed from that would have a least
subset for which it does. `WorkInv` adds to `LoadIsOutstandingWork` that finitely
many threads have reserved without submitting, at any time, and that an isolation thread has no
current task except between `TaskScope()` and `~TaskScope()`, also while the task is
dispatching; without that `EnterTask` would overwrite a cost.

### Tables in use

`TableOpsProofs` proves `TakeEffectAtOnce`, the refinement `Spec => TakesEffectAtOnce`
of `AtomicTable`, and `WritesRefused`, that the table of several instances doesn't
change. Both are for any number of clients, instances, rows and calls, and both have
the hypothesis that TaQL writes only to tables of one instance: otherwise they are
false (finding 3, run `taql_write`). `TableInv` says that tasks are on the queues once
(`Distinct`) and that the client of each is waiting for it (`TaskInv`, `CallInv`);
`Spread` is why a column read in pieces is the column at one moment: the pieces that
have been read agree with the table as it is now, because it is as it was when the
column was partitioned. That the pieces cover the rows is the lemma `Pieces`, about
`(p * n) \div NPieces(n)`. The refinement goes step by step: the task that answers a
call, or ends its read of a column, is the moment it takes effect; `FanIn` is that
moment for a column in pieces; all else is a stutter or the call and return of
`AtomicTable`. `TableAssumption` has casacore's tables to begin with: all columns have
the same number of rows, and names of their own (`WellFormed`). TLC checked the
conjuncts on the instance of `table`.

`FirstColumnShortest`, that is `NoColumnTooShort`, has the same hypothesis. On one instance it rests on the order of the queue, on several on the table
not changing. `OrderInv` says that writes and statements leave all columns equally long
(`Rectangular`); that the tasks of a client are queued in the order of their columns
(`InOrder`); and of the columns a conversion has read, that later ones are still to
come, have no fewer rows, and that none has more rows than the table now (`SeenInv`),
unless the client has seen rows removed. `AnswerInv` says that the answer is made of
those columns: leaving out the ones that could not be read keeps their order
(`FieldsOfTable`).

### Factory

`FactoryInv` is what `LinksResolve`, `AsDescribed` and `NothingElseTouched` need
between the calls of casacore: what is on disk (`DiskInv`; nothing has an empty name,
so that a link to the name given is a link to the table made), how far the functor has
got (`FunctorInv`) and which paths the request may touch (`TouchesOwn`). A step that
throws leaves the disk as it is, so every step must keep all three.

### Cache sizes

`PrecedenceHolds` is `Precedence` for any columns, storage managers and sizes but 0 for
columns and storage managers, without which it is false (finding 4). `CacheInv` says
what the cap of every storage manager may be at each point of each pass: that of the
pass before it if none of its columns has been set yet, and what this pass gives once
one has.

### Merging

`MergeSorts` is `OutputSorted` for any sorted partitions of equally long arrays.
`MergeInv` adds that no row in the queue sorts before a row merged, which is kept
because the successor of a row does not sort before it and "does not sort after" is
transitive. That is `GreaterNegativelyTransitive`, the lemma that fails if NaNs compare
equal to everything; it needs the first array in which rows differ, which `LeastNumber`
provides. `MergesAll` is `MergesEachRowOnce`: `OnceInv` says that of each partition
that was put on the queue, the rows ahead of the one on it have been merged and no
others.

### Reads

`NoneWritesAfterReturn` is `NoWriteAfterReturn` for any column, request and
partition, from `ReturnInv`: when the call has an outcome, no group is busy. It doesn't
depend on what the chunks are, and so on none of the operators that compute them.

`GroupsAreBalanced` (`Balanced`) and `ReadTypeCorrect` (`TypeOK`) do. They hold for any
column that `IsColumn` describes and any request of integer indices, in range or not.
The operators that make and group chunks are folds; the induction theorems of the
library can't be used (below), but a set of numbers with 0 and the successors of its
members has all numbers (`NumbersOfSet`: it would have a least counterexample), so that
a fold goes through its elements in order (`FoldSteps`). From that follow:

- what `Sum`, `Product`, `FlattenSeq` and `CartesianProduct` return, and that what `Make`
  returns is a sequence of chunks, each with a number of elements (`PartitionType`),
  through the shape of the result of every kind of request (`MakeReadType`,
  `NegateType`): a result whose rows have a number of dimensions has each row of that
  many, and an array passed to the read has as many rows as are selected;
- what the loop of `GroupChunks` keeps (`GroupingInv`): enough chunks are left for the
  groups that aren't closed, the open group starts at its quota at the earliest, unless
  each of the chunks left is a group, and it is below the next quota. Rounding is why a
  group may have one element more than its share (`Quota`).

`SpreadInv` carries the partition from one task to the next. `GroupsInv` and `BufferInv`
are the rest of `TypeOK`.

`ReadRacesProofs`, with the lemmas on sequences, sums and products at the end of
`ReadColumnProofs`, proves `ChunksDoNotRace`, that is `NoWriteRaces`, for the same columns
and requests. The inductive invariant says little more than the property (`RacesInv`:
the chunks that are spread are apart); what has to be proved is that `Make` returns
chunks that are apart, whatever it is given (`PartitionApart`). The argument goes from
sequences to places to offsets:

- `FlattenSeq` and `CartesianProduct` give each chunk a choice of spans, one of each
  dimension, that no other chunk has (`FlattenPlaces`, `CartesianChoices`), and chunks
  together have as many elements as the dimensions have indices, multiplied
  (`SizeOfProduct`).
- The span pair of a dimension is read into each place of it once, as sorting permutes
  (`SpanPairPermutes`). Cutting it at gaps and splitting the rows among the instances
  keeps that (`CutCovers`, `SplitCovers`: each index is in one of the spans). So two
  chunks that hold a place in common are the same (`ProductApart`).
- A result is laid out row by row, each row by the strides of its own shape
  (`IsLayout`). The offset of a place determines it, and lies within the result
  (`AtDistinct`, `AtInside`). What `Targets` computes for a chunk, from the offset of its
  first place and its own strides or those of the result, is the offset of the place
  (`TargetPlaced`); for a contiguous chunk the two kinds of strides agree
  (`ContiguousStrides`), because only whole dimensions precede the rows.
- All this needs each dimension selected to be as long as the cells of the result.
  `Clip` sees to that where the read makes the result (`ClipSuits`), and
  `ValidateCellShape` and `RebuildSelection`, which pads cells that are smaller with
  negative indices, where the caller passes an array (`ValidSuits`, `RebuildSuits`,
  `NegateSuits`). If all rows of
  the array are negative the lengths may differ, but then nothing is written
  (`NegativeApart`).
- `MakeFixed` makes one product of all the rows (`FixedApart`), `MakeVarying` one for
  each row, in the order in which they are read (`VaryingApart`; that the elements add
  up to the result in any order is `SumInOrder`).

`NoWriteRaces` compares with the number of elements of the chunks; that this is the
number of elements of the result is part of the proof (`FixedElements`, `RowsElements`).

The module also proves `OffsetsLeadToElements`, that is `ListsLeadToElements`: the offsets
that `GetOffsets` returns lead from each row and index to the element. A dimension has a
list for each list of the next outer one and each index there (`ListsNested`), and the
lists of a row follow those of the rows before it (`FlattenedRows`, `SumsOfRows`), so the
offset of a list is a multiple of its dimension's size plus what the rows before have
(`OffsetsOfRow`). Going inwards from the row, the list of a dimension is the `c`-th of its
row, where the offset of the index is that of the dimensions still to go plus `c` times
their product (`NextList`); after the innermost nothing is left to go, and `c` is the
offset that the reads use (`ListsLead`). The invariant is that only a request that
was partitioned is read (`OffsetsInv`): a result without one may have no shape.

Last in the module is `UnitsAreReadOnce`, that is `UnitsReadOnce`: for hypercubes of any
shape with any number of row axes, any blocks, any selection and any number of
instances. The invariant is that the chunks that are spread are those of the partition
(`UnitsInv`). The argument:

- stepping to the next position of a band adds one to its offset, the last row axis
  counting modulo the tile (`BandNext`), so the offset is how many rows of the unit come
  before, and `RowUnitStart` the first of them (`TiledStarts`; for blocks `BlockStarts`).
  All that is needed of starts from there on is that the start of a row is the row or
  that of the row before, and one for the rows of a unit (`HaveStarts`);
- so starts ascend with the rows, the bisection finds the next unit, and wherever
  `AlignBoundary` moves a boundary, no unit has rows on both sides (`UnitsDiffer`), among
  rows that are selected in any order, as sorting precedes the split;
- so the rows of two pieces have no unit in common (`UnitsApart`), however spans of rows
  were cut at gaps before (`SplitApart`), except that rows that are missing are in no
  unit;
- chunks of a section differ in their rows, hence in their units (`ProductUnits`).

TLC showed the property to need `UnitsInOrder`, which the proof could not do without.

### Only model checked

All liveness, which is beyond the prover. What reads and writes put where
(`ReadsAtomically` and the properties of `WriteColumn`). That every element read is put
at the place it was selected for, and not only at one of its own, needs the same lemmas
and an equation of the two nested folds, over chunks in the code and over the cells of
the result in the promise.

## Plan

1. Done: `IsolatedTableProxy`, `Dispatch`, `ResultShape`, `RowUnits`, `DataPartition`,
   `ReadColumn`, `PythonIndex`, `WriteColumn`, `TableCalls`, `AtomicTable`, `TableOps`,
   `TableFactory`, `CacheSizes`, `PartitionMerge`; proofs of all safety properties of
   the life cycle, of dispatch, of the factory, of cache sizes, of the merge and of
   tables in use, of the refinement of `AtomicTable`, and of the groups, chunks, storage
   units and lists of a read.
2. Theorems: that a read of a column implements `AtomicRead` (`ReadsAtomically`), from
   the places and offsets of `ReadRacesProofs`, and that writes check as much as reads do.

## Not modelled

- Type traits and the contents of descriptions (tables without state), the Python
  conversions, `_normalise_cache_size` and applications (no state of their own).
- `Configuration::Get` and `Delete`, and the context manager of `config.py`, whose
  restoring of settings is listed as a hazard.
- The clock of the instance statistics, and snapshots of them, which no decision of
  the code uses.
- Integer widths: offsets overflow beyond 2^31 elements of one row, or of one result
  made of lists.
- Undefined behaviour that depends on the memory of an empty Arrow array
  (`result_shape.cc:359`).
- `Close()` during calls of `TableOps`: that is `IsolatedTableProxy`'s.
- casacore and Arrow themselves (external: only what the code relies on). casacore
  creates a table as a whole or not at all, and a TaQL statement runs as one step of
  an instance.
