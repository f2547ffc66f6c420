# Verification of nanots_bench

TLA+ models, TLC runs and TLAPS proofs for the benchmark harness in `src/`: its
start latch, its workloads, its three backends, its driver and the script that
runs it. Paths below are relative to `src/src/` unless
they say otherwise.

## 1. The system

| Part | Where | State it keeps | Operations | Correct when |
|---|---|---|---|---|
| Start latch (`CountdownLatch`, `MswLatch`, `WrcLatch`) | `workloads/*.cpp` | counter, mutex, condition variable | `arrive_and_wait` | nobody passes before the last arrives; everybody passes |
| `concurrent_readers` | `workloads/concurrent_readers.cpp` | `_next_write_ts`, `_prefill_frames`; per sub-experiment: latch, `stop_flag`, `writer_ex`, counters, histograms | `prefill`, `run_sub` (writer, k readers), the sweep in `run` | threads start together and all stop; timestamps increase; unsynced data bounded; counts match frames; readers find data; failures are reported |
| `write_read_contention` | `workloads/write_read_contention.cpp` | the same per K; streams per K and per reader | prefill and pre-warm, K writers, K readers | as above; a stream has one writer; a reader's iterator is opened *before* the latch |
| `multi_stream_write` | `workloads/multi_stream_write.cpp` | the same per K | pre-warm, K writers | as above; the merged percentiles mean something |
| `sustained_write`, `random_seek` | `workloads/` | locals of one thread | write/sync loop; prefill and seek | sync window; seeks find frames |
| Backend interface | `../include/bench/backend.h` | none | `setup`, `write`, `sync_boundary`, `iterate`, `teardown`; `find`, `valid`, `current`, `next` | one writer and many readers at a time; what is synced survives |
| SQLite backend | `backends/sqlite_backend.cpp` | connection, open transaction, stream id cache, two mutexes, write statement | the above | flag, cache and transaction agree, also after a failure |
| RocksDB backend | `backends/rocksdb_backend.cpp` | DB, column family handles, mutex | the above | one handle per stream; keys sort as timestamps |
| nanots backend | `backends/nanots_backend.cpp` | writer, write contexts, block size and count | the above | pool large enough; no block recycled under a reader |
| `LatencyHistogram` | `../include/bench/timing.h` | samples | `record`, `compute` | percentiles ordered, index in range |
| Driver | `main.cpp` | backend, workload, result | setup, run, teardown, result, exit status | a failure shows in result and exit status |
| Registries, result JSON, environment | `registry.cpp`, `result.cpp`, `timing.cpp`, `runner.cpp` | name maps | lookup, formatting | - |
| Scripts | `../scripts/` | result files | run matrix, plots | a run is classified by its own result |

How they interact: `main` calls `setup`, then one workload's `run`, then
`teardown`. The workload's main thread creates threads that share its locals by
reference, communicate through one atomic stop flag and the latch, and call the
backend concurrently; the main thread joins them, rethrows what a thread's
`catch` has kept, and collects the counters. Nothing else synchronises them.

The hard parts are the interleavings at start and stop, failures of a single
call in one of several threads, state carried over from one sub-experiment to
the next (timestamps, unsynced bytes, the stream itself), the boundaries of the
sync window and of the range readers seek in, and, in the backends,
check-then-act on caches, transactions that fail half-way and pools that run
full. `PROJECT.json` lists each under `hazards`, at its line.

## 2. Modules

| Module | Models |
|---|---|
| `StartGate` | what a latch promises: threads arrive, and pass once all have arrived (abstract) |
| `CountdownLatch` | `arrive_and_wait`, one action per lock, decrement, notify, wait, wake-up, relock, predicate, unlock |
| `CountdownLatchProofs` | theorems about the latch |
| `ConcurrentReaders` | the workload: main thread, writer, readers, the backend as they see it |
| `ConcurrentReadersProofs` | theorems about the workload |
| `SubExperiment` | what `multi_stream_write` and `write_read_contention` have in common: n threads, a latch, K writers on streams of their own, a slot per thread for its exception |
| `MultiStreamWrite` | extends it with the pre-warm before each K |
| `WriteReadContention` | extends it with the filled streams, one pre-warm for all K, and K readers |
| `SubExperimentProofs` | what every action of the two preserves, for any number of threads; the percentiles of `LatencyHistogram` |
| `MultiStreamWriteProofs`, `WriteReadContentionProofs` | theorems about these two |
| `FrameStore` | what a backend promises: append, and after a crash everything up to the last boundary (abstract) |
| `SqliteBackend` | connection, transaction flag, id cache, two mutexes, statements that fail, several processes on one file |
| `SqliteBackendProofs` | theorems about `SqliteBackend` |
| `RocksBackend` | column families, the map of their handles, synced and unsynced frames, iterators over snapshots, the key encoding |
| `RocksBackendProofs` | theorems about `RocksBackend` |
| `LatencyHistogram` | sorting, percentiles, the merged summary of several writers (pure) |
| `BlockSizing` | block size, number of blocks and frames per block of a nanots file, in integers of limited width (pure) |
| `NanotsBackend` | the file of blocks, write contexts, the steps of a write over a block's end, recycling, the iterator |
| `BenchMain` | `main()` of one process with that backend: `sustained_write` and `random_seek` whole, the calls of two workloads with threads |
| `RunAll` | `run_all.sh`: processes one after the other, what it prints and counts for each |
| `RunAllProofs` | theorems about `RunAll` and so about the parts it extends: script, process, nanots backend, block sizes |
| `MC...` | small instances of the module behind `MC` for TLC |

Dependencies: the workloads use the latch as `StartGate` allows; that the code's
mutex and condition variable give this is what `CountdownLatch` shows. They
see a backend as streams that frames are appended to, in calls that take effect
in one step or throw; the backend modules look inside those calls, and
`FrameStore` is what both sides have in common. `RunAll` extends `BenchMain`, this
`NanotsBackend`, and this `BlockSizing`: script, process, backend and file in one
state space. `SubExperiment` extends `LatencyHistogram`.

**StartGate / CountdownLatch.** `CountdownLatch` has the thread's place in the
function, the holder of `_mu` and `_count`. `Wait` and the failing branch of
`Recheck` release the mutex and block in one step, as `wait` does; a wake-up,
real or spurious, only puts the thread in the queue for the mutex. The mapping
`Stage` forgets mutex and counter and yields `StartGate`.

**ConcurrentReaders.** `main` is the main thread's place (`prefill`,
`prefillSync`, `launch`, `spawn`, `window`, `join`, then `returned`, `threw` or
`terminated`), `pc` that of every thread. `Arrive` decrements the latch, `Pass`
needs zero. A backend call is one step. The backend is
the sequence of timestamps stored, and the number of them covered by the last
`sync_boundary`. An iterator sees at least the frames there were when it was
opened (`Visible`): RocksDB iterators read a snapshot, SQLite and nanots the live
data, and the model allows every choice between the two. `Faults` says which calls
may throw; a throwing call changes nothing else in the backend. `std::terminate`
kills every thread (`Terminate`). What is abstracted: payloads, flags,
latencies, the string tables, the random generator (any target in the range).

Per-sub-experiment work is bounded by `MaxWrites` and `MaxReads`, the turns of
the writer's and of a reader's loop. A thread that has used its turns waits for
the stop flag, which the real thread would find raised after further turns of
the same kind. The proofs hold for every value of the two.

**SubExperiment, MultiStreamWrite, WriteReadContention.** Threads are numbers: 1
to K write, K+1 to 2K read, 0 is the main thread. `Launch` makes the locals of a
turn of the sweep anew, `Keep` is the `catch (...)` of a thread: its exception goes
into its slot and `stop` is raised, whether it has passed the latch or not.
`Rethrow` takes the first slot that is full. Streams are named by the pair of K and
index, as the code's stream names are; `stored` keeps the timestamps of each. A
reader's stream is written by nobody while it reads, so `find` and the scan are
one step there. `blown` is a history variable that remembers which threads' calls
threw. `MaxTurns` bounds the loop of a thread, as above. When a sub-experiment ends
well, `Collect` draws a histogram for each thread, with as many samples as it has
counted operations and each sample from `Latencies`, and records what
`LatencyHistogram` makes of them: nothing else depends on latencies, so they need
not be drawn earlier.

**FrameStore / SqliteBackend.** The tables exist three times: as the connection
sees them (`view`), as of the last commit (`disk`), and as flushed to durable
storage (`flushed`); with `synchronous=full` a commit flushes, with `normal` only a
checkpoint does. A dying process leaves `disk`, a dying machine `flushed`. A table of
frames is, for each stream, the frames that were inserted for it, each with the
stream id it has got: frames of two streams are never compared, so the order in
which they were inserted relative to each other is not kept.
`auto` is SQLite's own autocommit mode, `inTxn` the backend's `_in_txn`: they may
disagree after a rollback that the backend has not been told of. `writeMu` and
`cacheMu` are the two mutexes, `cache` the map from stream names to ids. A call of
`write` or `sync_boundary` first waits for `_write_mu` (`write`, `sync`), which `Lock`
takes; it then goes through lookup, `INSERT OR IGNORE`, `SELECT`, insertion in one action each, so that
other threads' statements come in between wherever a mutex allows it. A statement
that fails may leave the transaction alone or roll it back (`Fail`), which aborts
the statements of readers. `acked` and `promised` are history variables: the
timestamps whose `write` has returned, and the frames there were when
`sync_boundary` or `teardown` last returned. `promised` is what refines
`FrameStore`'s `kept`. The machine may also die after `teardown`. SQLite itself is external, modelled from what the backend
relies on: serialised statements, autocommit, rollback on failure.

**RocksBackend.** `families` is what the database has, `handles` what the map
`_cf_handles` has, `created` how many handle objects are alive. `LookUp`,
`Create` and `Remember` are the two critical sections of `get_or_create_cf` and the
unlocked call between them. `synced` counts the durable frames of each family:
`SyncWAL` covers all, a memtable flush one family; the machine may die with the
store open or closed. Two history variables say what a crash must leave: `covered`,
the frames there were when `sync_boundary` last returned, and `promised`, the same
with `teardown`. The interface asks for the latter, which `FrameStore!Close` states;
the code does not keep it, since it closes the database without syncing the log
(`rocks_closed`). What it does keep is `FrameStore!BoundarySpec`, in which closing
promises nothing (`CloseUnflushed`), with `covered` for `kept` (`BoundariesAreKept`). An
iterator is a record: how many frames its snapshot has, the key it is at, what
`_frame` holds, and, as history, the timestamp it should be at. Keys are digits of
base `Byte`, compared from the left; with two values per digit three timestamps
are enough to carry from one digit into the next.

**BlockSizing / NanotsBackend.** The sources of the nanots library are not in the
repository. What the model says of it is what the backend's comments and
`../INVESTIGATION.md:58-75` describe: a full block is flushed, then marked finalized,
then a free block is taken, or the oldest finalized one of some stream is used
again; the layout of a block (header, frame header, alignment, index entry) is that
of the same pages. `call` has each stream's writer inside of a write (`write`,
`finalize`), so that the writes of other streams, readers, failures and a power loss
come in between; a thread writes one stream. A block's number is its identity;
the iterator is a cursor into a block, which is how recycling can pull the frame
away from under it. The widths of the code's integers are the constants `Word32`
and `Word64`, so that small numbers wrap round as large ones do.

**BenchMain / RunAll.** `phase` is where the main thread of the one running process
stands, or the script between two processes. A command line has the options that
make a difference here. `Faults` says what may go wrong: `setup`, a write inside of
the library, `find`, the process killed at any step, the machine, the output
file (not opened, or cut). `files` are the output files, each with the round it is
from: figures, an error, or a `part`. A file of figures that is cut is a `part`; an error
file cut before its "error" is one too, and one that is cut behind it is an `error`, since
`grep` sees no more of it. A process that is killed while it writes its result may leave
the file as it was, cut or whole. `verdicts` and `ran` are history: what the script printed,
and how the workload fared; `killed` is a process that died after `run()` had ended well. `Clean` is `rm -rf` and `mkdir` of the data directory. While
the script judges one process or is about to clean up, `Command` may be the next cell's
already; `LastCommand` is the command line that the database is of.
A round is one invocation of the script; the output directory stays from one to
the next.

## 3. Runs

| Run | Instance | Shows |
|---|---|---|
| `latch` | 3 threads, 2 spurious wake-ups | `NoLostWakeUp`, refinement of `StartGate`, `EveryoneReturns` |
| `readers` | sweep <<1, 2>>, 5 prefilled frames, scans of 2, sync every 2 frames, 3 writes and 1 seek per thread, every call may throw | `TimestampsIncrease`, `BoundedLoss`, `SyncedBetweenSweeps`, `OpsAccountForFrames`, `ReadersNeverRunDry`, `StartTogether`, `NoSilentFailure`, `NoThreadOutlivesItsLocals`, and `RunEnds` under fairness |
| `multi` | sweep <<1, 2>>, 4 turns, latencies 1 and 5, writes may throw | `StreamsInOrder` (= `TimestampsIncrease`, `WarmBeforeStart`), `ResultsMatchThreads` (= `OpsAccountForFrames`, `LongestCallReported`, `MedianIsATail`), `RunEnds` |
| `contention` | sweep <<1, 2>>, 8 frames to read in scans of 3, 2 turns, every call may throw | `ScansAreComplete`, `StartTogether`, `FirstFailureReported`, `NoThreadOutlivesItsLocals` |
| `sqlite` | 2 writers, a reader on the first one's stream, 2 frames each, 2 processes on one file that may die at any step, `synchronous=full` | `FramesKeepTheirStream`, `WritesAreWrapped`, refinement of `FrameStore` |
| `sqlite_failures` | the same threads, 1 process, `synchronous=normal`, every statement may fail | `FailuresAreThrown`, `CallsEnd` under fairness |
| `rocks` | the same threads, 3 frames each, one stream pre-warmed, creation, put and sync may fail, power loss before and after teardown, keys of 3 binary digits | `HandlesAccounted`, `IteratorsInOrder`, `BoundariesAreKept` (refinement of `FrameStore!BoundarySpec`) |
| `driver` | five matrices of one or two cells, each gone through twice, blocks of one or two frames, files of 3 to 8 blocks or so, all faults | `FramesInOrder`, `AutoSizedPoolSuffices`, `LossWithinWindow`, `IteratorsUndisturbed`, `SuccessIsComplete`, `FailuresAreReported` (= `NoFailurePasses`, `FilesAreTrue`, `FailuresAreCounted`), and `ScriptEnds` under fairness |
| `readers_stop` | sweep <<2>>, the writer's preparation and a reader's `find` may throw | `StopsCleanly` fails |
| `wrc_unopened` | one pair, `iterate` may throw | `RunEnds` fails |
| `rocks_closed` | all pre-warmed, nothing fails, power loss | `NothingPromisedIsLost` fails |
| `driver_verdicts` | one cell twice, a write and the output may fail | `VerdictsAreTrue` (= `PassedIsFresh`, `PassedIsWhole`, `SkippedIsUnimplemented`) fails |

The `TypeOK` of every other module, which includes that of `SubExperiment`, is checked too.

Why the bounds are enough. Three threads give the latch a last arriver and two
waiters, the smallest case in which waking one instead of all matters. Two
sub-experiments show everything that is carried over from one to the next; the
second has more threads of each kind than the first, so that threads can differ and
so that what the first has left behind would be seen. In `readers`, prefill is an odd
number of frames with a threshold of two frames, so that it ends inside a sync
window, and three writes let the writer's window close on, before and
after a threshold. One seek per reader suffices there because a reader's next seek
starts from the state of its first; in `contention` two turns take a reader over
the place where its position wraps round (8 frames, scans of 3). In
`multi` four turns give a histogram with enough samples for its percentiles to
differ, and two writers give a merged one that mixes two. In `sqlite`, the
writer and the reader of one stream race for its id while another writer takes
the next one, and a second process meets the rows of the first; a second frame per
writer separates what a boundary has covered from what it has not. Failures and
processes are split over two runs since their product is large and the two have
nothing in common: a process that fails keeps its state, one that dies
keeps only the file. In `rocks`, a writer and a reader race for a column family
that is not pre-warmed, as the second writer's is not; each family and
the log are synced at different times. In `driver` there are a matrix whose first
backend is not registered; `random_seek` with a pool too small for its prefill
and with one that is not; two streams in a pool of three blocks with recycling, so
that each takes blocks of the other and finds none to take; a reader beside a
writer without recycling; and a durability that is zero when cut to 32 bits. Two
rounds are the least in which a file of an earlier one can be taken for this
one's.

Deadlock is checked in all runs but `readers`, `readers_stop`,
`contention` and `wrc_unopened`: there a thread may throw before it has reached the
latch, and the program really hangs, as `readers_stop` and `wrc_unopened` find.
`RunEnds` of `ConcurrentReaders` therefore excepts a writer whose preparation has
thrown (`NeverStarts`), and nothing else; `StopsCleanly` is without the
exception. `FramesKeepTheirStream`, `WritesAreWrapped` and `ImplementsFrameStore` of
`SqliteBackend` are checked without failing statements in `sqlite`; what holds of ids and
transactions when statements fail is in `FailuresAreThrown`.

**Fairness.** `FairSpec` gives weak fairness to the main thread and to each
thread: the operating system schedules every runnable thread, and
`sleep_for` returns. Nothing is assumed about which of a thread's enabled
actions is taken; in particular a call is never forced to succeed or to fail.
In the latch, weak fairness per thread is enough for the mutex because spurious
wake-ups are bounded, so nobody can be kept from it for ever; spurious wake-ups
themselves are never owed. In `SqliteBackend` only calls under way are owed
progress, nobody has to make one. `_stream_cache_mu` cannot be denied for ever
since each stream is looked up in vain a bounded number of times. A `std::mutex` need
not go to who has waited longest, so nothing of the kind is assumed of `_write_mu`, and
`CallsEnd` says of a caller that waits for it that it gets it or that other writers
take it again and again: what no failure may do is leave it locked. In `RunAll` the script, `main()` and the
threads are owed progress while the machine is up; faults and readers are not.

**What the violations say.** They are disagreements between the code and its
own comments, recorded under `findings` with the line quoted.

- `readers_stop`: the writer of `concurrent_readers` allocates its frame before the latch and
  inside its try block (`concurrent_readers.cpp:246`): when that throws, readers and main
  thread wait for ever. A reader has no try block at all (`concurrent_readers.cpp:281`), so that
  its exception ends the process. `StopsCleanly` asks that `run()` returns or throws,
  and fails in both ways.
- `wrc_unopened`: a reader of `write_read_contention` whose iterator cannot be opened never
  reaches the latch, and everybody else waits there for it.
- `rocks_closed`: `../include/bench/backend.h:70` says "Flush all data and close."
  RocksDB's `teardown` syncs no log, and a power loss after it takes frames.
- `driver_verdicts`: an output file that cannot be opened or is cut does not show
  in the exit status (`result.cpp:138-143`), and the script does not remove the file of an
  earlier time as it does the data directory. It says OK of figures of another run
  (`PassedIsFresh`) or of a file that is no JSON (`PassedIsWhole`). "SKIPPED (backend not
  implemented)" is printed when a run has succeeded without writing its file and an older
  one has an error in it (`SkippedIsUnimplemented`), and never of a backend that is not
  implemented: that one's exit status is 1. The three are one property because they are one
  question, what the script's words say of the cell; each of them fails by itself.
  `FailuresAreReported` is what does hold: no failure is printed as OK or SKIPPED or missing in
  the exit status.

**What the summary of latencies means.** `Merge` computes percentiles of
percentiles (`multi_stream_write.cpp:186-196`). What holds is that its maximum is the
longest call of all (`LongestCallReported`), and that its median is never less than
the smallest 95th percentile of a writer (`MedianIsATail`): the p50 reported
for several writers is not the median of their calls, since three of the four
values kept per writer are from the tail.

**Seen while modelling, without a run of its own:**

- A rollback that comes with a failing statement takes rows of streams whose ids stay in
  the cache (`sqlite_backend.cpp:297`), against what the comment at line 271 says of the
  cache; the next stream gets such an id again. The models have it (`Steady` is the
  hypothesis it makes necessary), and `FailuresAreThrown` says that some call has thrown by then.
- When COMMIT succeeds and BEGIN fails, one call throws, and the other writers' frames go into the
  file in autocommit mode, each with a commit of its own (`sqlite_backend.cpp:236`, against 31).
- The result of inserting a stream's row is not looked at (`sqlite_backend.cpp:280`); on a
  file that has the row already, a failure there that rolls back takes acknowledged frames
  with it and no call throws. On an empty file the SELECT behind it finds nothing and throws, which
  is why `FailuresAreThrown` holds in `sqlite_failures`, with one process.
- SQLite's `teardown` ignores the result of COMMIT (`sqlite_backend.cpp:192`).
- The loser of a race for a new column family throws (`rocksdb_backend.cpp:222`) before
  it can look for the winner's handle, as the comment at line 228 has it; the workloads pre-warm
  their streams, so they do not meet it.
- `run_all.sh:94` passes `--nanots-auto-reclaim` to `concurrent_readers`,
  against what `nanots_backend.cpp:152-156` and `backend.h:46-47` say the flag is for, and
  the writer then takes the block from under an iterator. `IteratorsUndisturbed` is for
  command lines without the flag.
- The factor of 4 (`main.cpp:147`) covers headers and index entries of frames of
  14 bytes or more (`nanots_backend.cpp:132`, against 17-18). With frames of 8 bytes and a million of
  them at 64 KB of durability 493 blocks are allocated and 733 needed.
- `multi_stream_write` and `write_read_contention` allocate before the latch as
  `concurrent_readers` does (`multi_stream_write.cpp:153`); that such an allocation throws is
  not among the faults of their models.
- The window of loss is the threshold plus nearly one frame, because the frame is
  written before the test (`concurrent_readers.cpp:264`); `BoundedLoss` is the
  bound that holds.
- The sub-experiments of `concurrent_readers` share the prefilled stream, so a
  later one has more frames to start with (`concurrent_readers.cpp:121`).
- `multi_stream_write` and `write_read_contention` never call `sync_boundary`
  (`write_read_contention.cpp:204`): `FrameStore` promises them nothing before
  `teardown`.
- With `synchronous=normal`, the default, a power loss takes commits that no
  checkpoint has followed (`sqlite_backend.cpp:156`); `ImplementsFrameStore` is
  checked for `full`.
- After a rollback, as after a BEGIN that has failed, every later `sync_boundary` throws
  at COMMIT (`sqlite_backend.cpp:234`).
- RocksDB is opened with the default column family only
  (`rocksdb_backend.cpp:156`), so a database kept from an earlier run cannot be
  opened; directories are meant to be empty (`../include/bench/backend.h:67`), which
  `run_all.sh` sees to and `main.cpp:175` does not.
- In `write_read_contention`, which gets `--nanots-auto-reclaim` too, the prefilled
  streams have the oldest blocks, which go first.
- The comment on block sizing speaks of `2 x durability_bytes x 128`
  (`nanots_backend.cpp:23`), the code of `num_frames x frame_size x 4` (`main.cpp:147`).
- `random_seek` writes 100000 frames into a pool that is sized for `num_frames`.
- A cut JSON file ends `run_sweep.sh` instead of being counted (`run_sweep.sh:93`, under `set -e`).
- A durability of 4 GiB is a block size of 0 (`nanots_backend.cpp:120`): the number of
  blocks is computed by a division by zero, which traps. The script counts that as a failure.
- Below 64 KB of durability the window of nanots is 64 KB, and each stream has
  a block in flight, where the comment speaks of one (`nanots_backend.cpp:6`).
- A nanots file that exists keeps its block size, and `config_summary` reports the new one
  (`nanots_backend.cpp:149`).
- `nanots_backend.cpp:27` calls `nanots_writer` single-writer; K threads of
  `multi_stream_write` write through one.
- An exception of `teardown` leaves the exit status 0 (`main.cpp:205`).
- The summary of `run_all.sh:187` lists the files of earlier rounds too, and the whole file
  that a process has left which was killed afterwards and counted as FAILED.
- `compute()` sorts the samples before `raw()` is taken (`sustained_write.cpp:83-86`):
  raw latencies are not in the order of the calls.
- `../README.md:132` says that each seek opens a fresh iterator; `random_seek.cpp:87` opens one.

## 4. Proofs

All for every value of the constants, from the named assumptions of the modules
(`SweepAssumption`, `SizesAssumption`, `FaultsAssumption`, `ThreadsAssumption`,
`CountsAssumption`, `ReadAssumption`, `SqliteAssumption`, `RocksAssumption`,
`SizingAssumption`, `BenchAssumption`, `RoundsAssumption`). They say that sets are finite, numbers natural,
matrices lists of command lines; only one is about sizes: a block has room for the header of
16 bytes, as the code's least block of 64 KB has (`16 <= MinBlockSize`). Where a theorem needs more,
it says so in its ASSUME, and the reason is given here.

*Latch.* `CountdownLatchProofs` proves one inductive invariant, `LatchInv`: the
counter equals the number of threads that have not yet decremented (which is why
it reaches zero exactly when all have), the mutex is held by exactly the threads
that are between its acquisition and release, nobody leaves while the counter is
above zero, and a waiter at zero has a notifier to come. `TypeCorrect` and
`NoWakeUpLost` follow from it; `LatchIsAStartGate` uses it to map every step of
the latch to a step of `StartGate` or a stutter.

*`concurrent_readers`.* `ConcurrentReadersProofs` proves six invariants in layers.

- `ThreadInv` = `TypeOK` + `LocationInv` + `LatchInv`. `StartTogether` is not
  inductive: it needs that the latch's counter is never below the number of
  threads still to arrive (`LatchInv`; it can be above, when the writer's
  preparation threw), and that the threads' places agree with the main thread's.
  `EveryoneStartsTogether` and `NoThreadIsLeftBehind` follow.
- `TimestampInv`: every stored timestamp is below the writer's pending one, and
  that below the shared counter; in prefill the i-th frame has the i-th
  timestamp. Gives `TimestampsAlwaysIncrease`.
- `LossInv`: `bytes_since_sync` is exactly the weight of the frames outside the
  last boundary; it is below the threshold except between a write and the sync that
  follows, and zero when a writer has not begun or has ended well. Gives
  `LossIsBounded` and `SweepsStartSynced`.
- `FailureInv`: a failure is either with the main thread or in `writer_ex`, which
  is only set by a writer that has ended. Gives `FailuresAreReported`.
- `PrefillInv` and `ReadInv`: the prefilled frames stay in front, an iterator has been opened on at
  least these, and a scan has its frames before it. The first frame not older than a target, which
  exists by the well-foundedness of the numbers, is no later than the last target's. Gives
  `ReadersAlwaysHaveData`.
- `OpsInv`: the counts of the results and of the sub-experiment under way account for the frames.
  `Total` folds over the results; `SumExists` and `SumOfFirst` show that the recursive function behind
  the fold exists and what it is for an initial segment, by a least counterexample in place of induction. Gives
  `CountsAlwaysMatchFrames`.

*The workloads over `SubExperiment`.* `SubExperimentProofs` says of any step that one of
the two workloads can take (`CommonStep`, for any number n of threads and any set of streams)
what it preserves; `MultiStreamWriteProofs` (n = K) and `WriteReadContentionProofs` (n = 2K)
show that they take no others (`NextIsCommonStep`). The parts of the invariant:

- `CrewInv(n)`: `PlaceInv` (the threads' places agree with the main thread's), `LatchInv` (as
  above) and `FailureInv` (the threads that have failed are those in their slots, and have
  ended). A sub-experiment that begins or ends changes n; those lemmas conclude it for every n.
  That a nonempty set of slots has a first one rests on the well-foundedness of the numbers.
  Gives `EveryoneStartsTogether`, `NoThreadIsLeftBehind` and `FailuresAreReported`.
- `TypeInv`: the latch's counter is never below the number of threads still to arrive, hence a
  natural number, and a report has the form of one whatever histograms it is made from, none
  included. Gives `TypeCorrect`.
- `StreamInv(streams)`: the streams of later sub-experiments hold at most their pre-warm frame,
  since no two values of K share a name, those of the current and of earlier ones at least that,
  and a writer's timestamp is ahead of its stream. Gives `StreamsStayInOrder`.
  `WriteReadContention`, which pre-warms once for the whole sweep, needs `WarmInv` for it: no
  later sub-experiment finds a stream of its own empty. (The runs check `StreamsInOrder` and
  `ResultsMatchThreads` in `multi` only; the theorems hold of both workloads.)
- `CountInv` and `ReportInv`: a writer has counted the frames of its stream but one, there is a
  report for every sub-experiment that is over, and its count stays true since nobody writes to
  those streams again. `ResultsMatchThreads` is not inductive without them. What a report
  says beyond the count is the pure part below. Gives `ReportsMatchThreads`.
- `ReadInv`, of `WriteReadContention` alone: the streams to read hold frames 1 to `ReadPrefill`,
  and each reader's position leaves a whole scan of them, which the test in `Advance` keeps
  (`EveryScanIsComplete`).

*RocksDB backend.* `RocksBackendProofs` proves `RocksInv`. `HandlesAccounted` is not
inductive: it needs that only one thread ever holds the new handle of a stream, whose
family is then in the database and not in the map (`HandleInv`). That a crash, before or after
`teardown`, leaves what a `sync_boundary` has covered needs `DurableInv`: what is covered is
durable (`BoundariesAreAlwaysKept`). Nothing of the kind holds of `teardown`, as
`rocks_closed` shows. `IteratorsAreInOrder` needs `OrderInv` (the n-th frame of a stream has
timestamp n, and an iterator that should be at a frame is at its key) and two facts about
keys of any length and base: decoding returns what was encoded, and comparing keys from the left
compares the timestamps. They are argued digit by digit from the left, by a least counterexample,
with a recursive function for the powers of the base (`Weight`).

*SQLite backend.* `SqliteBackendProofs` proves `BackendInv`, whichever statements fail and
processes die: `PlaceInv` (each mutex is held by exactly the client whose place says so, and a
reader is never where only a writer can be), `ValueInv` (a stream has at most the frames its
writer has begun) and `TableInv` (the durable tables are prefixes of those on disk, these of
those the connection sees, and outside of a transaction nothing is uncommitted). Four invariants rest on it,
each with the hypothesis it cannot do without:

- `IdInv`: ids in the cache, in the hands of a writer that is about to insert, and of all frames
  are those of the table. Two clients that have both missed the cache find the same row, since rows
  are never renumbered. Needs that no statement fails that may roll back
  (`Steady`): otherwise a cached id can be that of a row that has been taken back. Gives
  `FramesStayWithTheirStream`.
- `WrapInv`: a transaction is open unless a writer that holds `_write_mu` is about to begin one. Needs
  that nothing fails: after a BEGIN that has failed other threads go on outside of a
  transaction. Gives `EveryWriteIsWrapped`.
- `KeptInv`: what is promised is on disk. With `synchronous=full` that is durable, so that every step, the
  death of process or machine included, before and after `teardown`, is one of `FrameStore` (`BackendIsAFrameStore`). With
  `normal` a power loss takes commits.
- `SeenInv`: until a call throws, the rows that exist have been looked up through the cache, and what
  has been acknowledged is in the table unless a client whose row a rollback has taken (`Doomed`) is
  about to find nothing and throw. Needs that the file was empty (`MaxProcesses = 1`): on one that
  has the rows already, the ignored result of INSERT OR IGNORE loses frames silently. With it
  goes `Intact`: until then the ids are as in `IdInv`, and the transaction is open as in `WrapInv`. Gives
  `NoFrameIsLostSilently`, for all failures.

*Script, program and nanots backend.* `RunAllProofs` is about `RunAll` with all that it
extends, for any matrices, rounds, streams, sizes and faults. Its invariants build on each other:

- `ScriptInv`: what each phase of the process and of the script allows of the other variables
  (`FormInv`, `CallsInv`, `OutcomeInv`), which output files can be of this round (`FilesInv`),
  which verdicts follow (`VerdictInv`), and that each counter is the number of verdicts of its kind
  (`TallyInv`). That the summary adds up is the additivity of the cardinality of disjoint
  sets. Gives `FailuresAreAlwaysReported`, which says
  where failures show; what OK and SKIPPED say of other cells is not always true
  (`driver_verdicts`).
- `FileInv`: a block is in one place (`OwnInv`), a finalized one is full and flushed, and the frames of a
  stream go on from block to block behind those recycled (`FillInv`, `FlushInv`). A call that has
  stopped half-way, and recycling by another stream's call, are the cases that need it. `Content` concatenates
  blocks with a recursive function of the community modules; `FlattenedRun` shows that
  blocks of consecutive numbers give consecutive numbers, by a least counterexample in place
  of induction. Hence `ContentInv`, and with `LifeInv` (what has
  been laid out is of the command line at hand) `FramesAreAlwaysInOrder` and `LossIsBounded`: what is not finalized is
  less than a block, and no block is larger than the window.
- `WorkInv`: what `sync_boundary` has covered and the loops have still to do. Gives
  `SuccessIsAlwaysComplete`, if no command line of the two workloads with one thread asks for recycling
  (`OneThreadKeeps`, as `run_all.sh` has it): else the frames of a successful run may
  be gone.
- `CursorInv`: without recycling, the iterator's block keeps its frame at its place, and the block
  and place that the search has found are those of the frame sought. Gives `IteratorsAreUndisturbed`.
- `PoolInv`: only one stream takes blocks, it has not yet written all, and the file is laid out for it. Gives
  `AutoSizedPoolAlwaysSuffices`, if bytes and blocks do not overflow their types and a block's
  frames, times the safety factor, make up for the block (`PoolsHaveRoom`). `LargeFramesHaveRoom` shows that
  the factor of 4 is enough for the latter with frames of 52 bytes or more of which a block takes one.
- `TypeIsAlwaysCorrect` combines them.

Two of these proofs have changed the model: `LossWithinWindow` compared the loss with the
next cell's window when the machine died between a judgement and the next clean-up, and
`FramesInOrder` spoke of the next cell's `reclaim` there. Both now refer to the command line that
the database is of (`LastCommand`).

*Pure parts.* In `RunAllProofs`: the larger of two numbers and a division rounded up
give `BlockIsTheWindow` and `FileHoldsExpectedBytes`. Both assume that what is cut
to 32 or 64 bits fits; `driver` has the case where it does not. In `SubExperimentProofs`, for
samples of any number and size:

- A sample's `Rank` is the place where sorting puts it; no two samples share one, so that every
  place has exactly one, and the samples at increasing places increase. (`Sorted` is defined by
  ranks, as what `std::sort` promises, since the definition of the library's `SortSeq` cannot be
  reasoned about; the two agree.)
- The index of a percentile is within the samples and grows with the rank
  (`PercentilesIncrease`), and what is found there has as many samples below and as many not above
  it as `IsPercentile` asks (`ComputedPercentiles`).
- Flattening a sequence of fours keeps their elements and places (`FlattenFours`), so that the
  maximum of a summary of summaries is the longest call (`MergeFacts`). Half of its
  samples are not above its median, but only a quarter are medians themselves: so some writer's
  95th percentile is not above it either (`MergedMedian`).
- Sums over threads are folds; `CountsOfFrames` and `SameFrames` compare them without unfolding
  to numbers, `TotalIsNumber` shows by a least counterexample that they are some.

Only model-checked: the liveness properties (`EveryoneReturns`, `RunEnds`, `CallsEnd`,
`ScriptEnds`), which are out of the prover's reach. Every invariant, action property and refinement
that a passing run checks is stated by a theorem, with the hypotheses given above
(`OneThreadKeeps`, `Steady`, ...) where it has one.

## 5. Not modelled

Vendored SQLite and RocksDB beyond what the backends rely on; the nanots library (a
submodule without sources here) beyond what comments say of it, in particular how
it opens a file that exists, its recovery, and whether closing a write context
finalizes its block; argument parsing, the registries' maps, JSON and tables,
environment queries, clock readings and the mean, `run_sweep.sh` and the plots. Payload bytes and flags. Of the
RocksDB backend, options; of nanots, `prev()` and metadata, which no workload uses.
`RunAll` has nanots as its only real backend: which backend runs makes no difference to the
script, and the other two have runs of their own. Its threads are their backend
calls; how they start and stop is in the workloads' modules. Memory order: all accesses to the shared
atomics are single loads, stores and read-modify-writes of one variable each, and
everything else is read after `join`, so interleaving their steps loses nothing.

## 6. Plan

Done: the latch, all five workloads, `FrameStore`, the three backends, latencies,
the driver and its script; proofs of all their safety properties. What is left needs
more than this repository has: the nanots library's own sources, for recovery and for what closing
a write context does.
