-------------------------- MODULE ConcurrentReaders --------------------------
(***************************************************************************)
(* The concurrent_readers workload: the main thread prefills "stream_0",    *)
(* then runs one sub-experiment per reader count k: it builds a start       *)
(* latch for k+1 threads, starts a writer and k readers, sleeps for the     *)
(* window, raises stop_flag, joins everybody and collects the counts.       *)
(*                                                                          *)
(* The backend is what the workload sees of it: an append-only list of      *)
(* timestamps, a mark up to which sync_boundary was called, iterators that  *)
(* see at least what was there when they were opened, and calls that may    *)
(* throw.  arrive_and_wait is two steps, arrive and pass, as StartGate      *)
(* allows; CountdownLatch shows that the latch's own code gives just that.  *)
(***************************************************************************)
EXTENDS Integers, Sequences, SequencesExt

CONSTANTS
    ReaderCounts,     \* READER_COUNTS, the sweep
    PrefillFrames,    \* PREFILL_FRAMES
    ScanFrames,       \* scan_frames
    FrameSize,        \* cfg.frame_size
    DurabilityBytes,  \* cfg.durability_bytes
    TsStart, TsStep,  \* 1'000'000 and 1'000
    Faults,           \* which calls may throw in this instance
    MaxWrites,        \* bound: turns of the writer's loop per sub-experiment
    MaxReads          \* bound: turns of a reader's loop per sub-experiment

FaultKinds == {"write", "sync", "prepare", "iterate", "find", "spawn"}

ASSUME SweepAssumption ==
    /\ ReaderCounts \in Seq(Nat \ {0})
    /\ ReaderCounts # <<>>

\* max_ts is an unsigned expression: with no more frames than a scan reads it
\* would wrap around.
ASSUME SizesAssumption ==
    /\ PrefillFrames \in Nat /\ ScanFrames \in Nat /\ PrefillFrames > ScanFrames
    /\ FrameSize \in Nat \ {0} /\ DurabilityBytes \in Nat \ {0}
    /\ TsStart \in Nat /\ TsStep \in Nat \ {0}
    /\ MaxWrites \in Nat /\ MaxReads \in Nat

ASSUME FaultsAssumption == Faults \subseteq FaultKinds

Writer == 0
Readers == UNION {1 .. ReaderCounts[i] : i \in DOMAIN ReaderCounts}
Threads == {Writer} \cup Readers

VARIABLES
    main,        \* where the main thread stands
    sweep,       \* index of the current sub-experiment in ReaderCounts
    spawned,     \* threads started so far in it; the next one is number spawned
    latch,       \* the start latch's counter
    stop,        \* stop_flag
    writerEx,    \* writer_ex holds an exception
    nextTs,      \* _next_write_ts
    pc,          \* where each thread stands
    ts,          \* the writer's ts
    unsynced,    \* bytes_since_sync, of prefill and then of the writer
    writerOps,   \* writer_op_count
    opened,      \* per reader: frames there were when its iterator was opened
    cursor,      \* per reader: the position of its iterator
    scanned,     \* per reader: n, the frames scanned since the last find
    readerOps,   \* reader_op_counts
    results,     \* sub_results
    stored,      \* the backend: timestamps in "stream_0", in the order written
    synced,      \* the backend: frames covered by the last sync_boundary
    failed       \* history: some call threw

progress == <<sweep, spawned, results>>
shared   == <<latch, stop, writerEx>>
writing  == <<nextTs, ts, writerOps>>
reading  == <<opened, cursor, scanned, readerOps>>
backend  == <<stored, synced, unsynced>>
vars     == <<main, progress, shared, writing, reading, backend, pc, failed>>

K == ReaderCounts[sweep]
Crew == 0 .. K

\* Nobody has read anything: the readers' locals and reader_op_counts.
NotReading == [r \in Readers |-> 0]

Init ==
    /\ main = "prefill"
    /\ sweep = 1
    /\ spawned = 0
    /\ latch = 0
    /\ stop = FALSE
    /\ writerEx = FALSE
    /\ nextTs = TsStart
    /\ pc = [t \in Threads |-> "off"]
    /\ ts = TsStart
    /\ unsynced = 0
    /\ writerOps = 0
    /\ opened = NotReading
    /\ cursor = NotReading
    /\ scanned = NotReading
    /\ readerOps = NotReading
    /\ results = <<>>
    /\ stored = <<>>
    /\ synced = 0
    /\ failed = FALSE

------------------------------------------------------------------------------
(* The backend as the workload calls it *)

\* write(): the frame is appended, and the caller counts its bytes.
Write(stamp) ==
    /\ stored' = Append(stored, stamp)
    /\ unsynced' = unsynced + FrameSize
    /\ UNCHANGED synced

\* sync_boundary(): everything written so far is covered.
SyncBoundary ==
    /\ synced' = Len(stored)
    /\ unsynced' = 0
    /\ UNCHANGED stored

\* A plausible slip: the threshold has to be exceeded.
SyncOverdue == unsynced' > DurabilityBytes
SyncDue == unsynced' >= DurabilityBytes

\* find() on an iterator that sees the first n frames: the position of the
\* first frame not older than target, if there is one.
Found(target, n) ==
    {i \in 1 .. n : /\ stored[i] >= target
                    /\ \A j \in 1 .. i - 1 : stored[j] < target}

\* How many frames an iterator may see now: one that was opened on a snapshot
\* (RocksDB) sees those of that moment, one that reads the live table (SQLite,
\* nanots) all of them.
Visible(r) == opened[r] .. Len(stored)

\* The call throws.
Throws(kind) == kind \in Faults /\ failed' = TRUE

------------------------------------------------------------------------------
(* The main thread: prefill *)

PrefillDone == Len(stored) = PrefillFrames

PrefillWrite ==
    /\ main = "prefill"
    /\ ~PrefillDone
    /\ Write(TsStart + Len(stored) * TsStep)
    /\ main' = IF SyncDue THEN "prefillSync" ELSE main
    /\ UNCHANGED <<progress, shared, writing, pc, reading, failed>>

\* After the last frame the rest is synced as well, if there is a rest.
PrefillSync ==
    /\ \/ main = "prefillSync"
       \/ main = "prefill" /\ PrefillDone /\ unsynced > 0
    /\ SyncBoundary
    /\ main' = "prefill"
    /\ UNCHANGED <<progress, shared, writing, pc, reading, failed>>

\* A plausible slip: the counter keeps its initial value.
PrefillForgetsCounter ==
    /\ main = "prefill" /\ PrefillDone /\ unsynced = 0
    /\ main' = "launch"
    /\ UNCHANGED <<progress, shared, writing, backend, pc, reading, failed>>

\* The writer's timestamps continue where prefill stopped.
PrefillEnd ==
    /\ main = "prefill" /\ PrefillDone /\ unsynced = 0
    /\ nextTs' = TsStart + PrefillFrames * TsStep
    /\ main' = "launch"
    /\ UNCHANGED <<progress, shared, ts, writerOps, backend, pc, reading, failed>>

\* No thread is running yet: run() simply throws.
PrefillThrows ==
    /\ \/ main = "prefill" /\ ~PrefillDone /\ Throws("write")
       \/ /\ \/ main = "prefillSync"
             \/ main = "prefill" /\ PrefillDone /\ unsynced > 0
          /\ Throws("sync")
    /\ main' = "threw"
    /\ UNCHANGED <<progress, shared, writing, backend, pc, reading>>

------------------------------------------------------------------------------
(* The main thread: run_sub *)

\* The locals of run_sub, for total_threads = k + 1.
LatchForReaders == K
LatchSize == K + 1

Launch ==
    /\ main = "launch"
    /\ main' = "spawn"
    /\ spawned' = 0
    /\ latch' = LatchSize
    /\ stop' = FALSE
    /\ writerEx' = FALSE
    /\ writerOps' = 0
    /\ readerOps' = NotReading
    /\ opened' = NotReading
    /\ pc' = [t \in Threads |-> "off"]
    /\ UNCHANGED <<sweep, results, nextTs, ts, cursor, scanned, backend, failed>>

\* The writer is started first, then the readers; each runs from then on.
Spawn ==
    /\ main = "spawn"
    /\ pc' = [pc EXCEPT ![spawned] = IF spawned = Writer THEN "prepare" ELSE "start"]
    /\ spawned' = spawned + 1
    /\ main' = IF spawned = K THEN "window" ELSE main
    /\ UNCHANGED <<sweep, results, shared, writing, backend, reading, failed>>

\* std::terminate: the process is gone, with every thread.
Terminate ==
    /\ main' = "terminated"
    /\ pc' = [t \in Threads |-> "killed"]

\* A std::thread cannot be created.  The exception leaves run_sub, whose
\* unwinding destroys the joinable threads started before it.
SpawnThrows ==
    /\ main = "spawn"
    /\ Throws("spawn")
    /\ IF spawned = 0 THEN main' = "threw" /\ UNCHANGED pc ELSE Terminate
    /\ UNCHANGED <<progress, shared, writing, backend, reading>>

\* A plausible slip: the window ends and nobody is told.
EndWindowQuietly ==
    /\ main = "window"
    /\ main' = "join"
    /\ UNCHANGED <<progress, shared, writing, backend, pc, reading, failed>>

\* sleep_for returns.  The window is wall-clock time: it may end at any moment,
\* before the last thread has arrived at the latch as well.
EndWindow ==
    /\ main = "window"
    /\ stop' = TRUE
    /\ main' = "join"
    /\ UNCHANGED <<progress, latch, writerEx, writing, backend, pc, reading, failed>>

\* Plausible slips: only some of the threads are joined.
OnlyWriterJoined == pc[Writer] = "done"
OnlyReadersJoined == \A r \in Crew \ {Writer} : pc[r] = "done"
AllJoined == \A t \in Crew : pc[t] = "done"

Rethrow ==
    /\ main = "join"
    /\ AllJoined
    /\ writerEx
    /\ main' = "threw"
    /\ UNCHANGED <<progress, shared, writing, backend, pc, reading, failed>>

SubResult == [k |-> K, writer_ops |-> writerOps,
              reader_ops |-> [r \in 1 .. K |-> readerOps[r]]]

NextSweep ==
    /\ results' = Append(results, SubResult)
    /\ IF sweep < Len(ReaderCounts)
         THEN main' = "launch" /\ sweep' = sweep + 1
         ELSE main' = "returned" /\ UNCHANGED sweep
    /\ UNCHANGED <<spawned, shared, writing, backend, pc, reading, failed>>

\* A plausible slip: whatever has become of the writer.
CollectAnyway == main = "join" /\ AllJoined /\ NextSweep

\* The counters are read once everybody is joined, and the sweep goes on.
Collect == main = "join" /\ AllJoined /\ ~writerEx /\ NextSweep

------------------------------------------------------------------------------
(* All threads: the start latch *)

Goto(t, loc) == pc' = [pc EXCEPT ![t] = loc]

Arrive(t) ==
    /\ pc[t] = "start"
    /\ latch' = latch - 1
    /\ Goto(t, "waiting")
    /\ UNCHANGED <<main, progress, stop, writerEx, writing, backend, reading, failed>>

Pass(t) ==
    /\ pc[t] = "waiting"
    /\ latch = 0
    /\ Goto(t, IF t = Writer THEN "loop" ELSE "open")
    /\ UNCHANGED <<main, progress, shared, writing, backend, reading, failed>>

------------------------------------------------------------------------------
(* The writer thread *)

\* The payload is allocated inside the try block, before the latch, and
\* bytes_since_sync starts from zero.
WriterPrepare ==
    /\ pc[Writer] = "prepare"
    /\ unsynced' = 0
    /\ Goto(Writer, "start")
    /\ UNCHANGED <<main, progress, shared, writing, stored, synced, reading, failed>>

WriterStamp ==
    /\ pc[Writer] = "loop"
    /\ ~stop
    /\ writerOps < MaxWrites
    /\ ts' = nextTs
    /\ nextTs' = nextTs + TsStep
    /\ Goto(Writer, "stamped")
    /\ UNCHANGED <<main, progress, shared, writerOps, backend, reading, failed>>

WriterWrite ==
    /\ pc[Writer] = "stamped"
    /\ Write(ts)
    /\ writerOps' = writerOps + 1
    /\ Goto(Writer, IF SyncDue THEN "sync" ELSE "loop")
    /\ UNCHANGED <<main, progress, shared, nextTs, ts, reading, failed>>

WriterSync ==
    /\ pc[Writer] \in {"sync", "lastSync"}
    /\ SyncBoundary
    /\ Goto(Writer, IF pc[Writer] = "sync" THEN "loop" ELSE "done")
    /\ UNCHANGED <<main, progress, shared, writing, reading, failed>>

\* A plausible slip: the loop ends and the rest is left to the next boundary.
WriterStopUnsynced ==
    /\ pc[Writer] = "loop"
    /\ stop
    /\ Goto(Writer, "done")
    /\ UNCHANGED <<main, progress, shared, writing, backend, reading, failed>>

WriterStop ==
    /\ pc[Writer] = "loop"
    /\ stop
    /\ Goto(Writer, IF unsynced > 0 THEN "lastSync" ELSE "done")
    /\ UNCHANGED <<main, progress, shared, writing, backend, reading, failed>>

\* catch (...): the exception is kept for the main thread, and everybody else
\* is told to stop.
WriterThrows ==
    /\ \/ pc[Writer] = "prepare" /\ Throws("prepare")
       \/ pc[Writer] = "stamped" /\ Throws("write")
       \/ pc[Writer] \in {"sync", "lastSync"} /\ Throws("sync")
    /\ writerEx' = TRUE
    /\ stop' = TRUE
    /\ Goto(Writer, "done")
    /\ UNCHANGED <<main, progress, latch, writing, backend, reading>>

------------------------------------------------------------------------------
(* The reader threads *)

ReaderOpen(r) ==
    /\ pc[r] = "open"
    /\ opened' = [opened EXCEPT ![r] = Len(stored)]
    /\ Goto(r, "loop")
    /\ UNCHANGED <<main, progress, shared, writing, cursor, scanned, readerOps, backend, failed>>

\* A plausible slip: only the last frame is kept clear.
MaxTargetLastFrame == TsStart + (PrefillFrames - 1) * TsStep
MaxTarget == TsStart + (PrefillFrames - ScanFrames - 1) * TsStep

Targets == TsStart .. MaxTarget

LandOn(r, i) ==
    /\ cursor' = [cursor EXCEPT ![r] = i]
    /\ Goto(r, "scan")
    /\ UNCHANGED readerOps

\* An unsuccessful find counts as an operation like a whole scan.
FindNothing(r) ==
    /\ readerOps' = [readerOps EXCEPT ![r] = @ + 1]
    /\ UNCHANGED <<cursor, pc>>

ReaderFind(r) ==
    /\ pc[r] = "loop"
    /\ ~stop
    /\ readerOps[r] < MaxReads
    /\ \E target \in Targets, n \in Visible(r) :
         \/ \E i \in Found(target, n) : LandOn(r, i)
         \/ Found(target, n) = {} /\ FindNothing(r)
    /\ UNCHANGED <<main, progress, shared, writing, opened, scanned, backend, failed>>

\* current() and next(), while the iterator is valid.
ReaderNext(r) ==
    /\ pc[r] = "scan"
    /\ scanned[r] < ScanFrames
    /\ \E n \in Visible(r) : cursor[r] <= n
    /\ cursor' = [cursor EXCEPT ![r] = @ + 1]
    /\ scanned' = [scanned EXCEPT ![r] = @ + 1]
    /\ UNCHANGED <<main, progress, shared, writing, opened, readerOps, backend, pc, failed>>

\* The next find starts from scratch, so the position is forgotten here.
ReaderCount(r) ==
    /\ pc[r] = "scan"
    /\ \/ scanned[r] = ScanFrames
       \/ \E n \in Visible(r) : cursor[r] > n
    /\ readerOps' = [readerOps EXCEPT ![r] = @ + 1]
    /\ cursor' = [cursor EXCEPT ![r] = 0]
    /\ scanned' = [scanned EXCEPT ![r] = 0]
    /\ Goto(r, "loop")
    /\ UNCHANGED <<main, progress, shared, writing, opened, backend, failed>>

ReaderStop(r) ==
    /\ pc[r] = "loop"
    /\ stop
    /\ Goto(r, "done")
    /\ UNCHANGED <<main, progress, shared, writing, backend, reading, failed>>

\* The body of a reader thread has no try block: what iterate(), find() or
\* next() throws leaves the thread function.
ReaderThrows(r) ==
    /\ \/ pc[r] = "open" /\ Throws("iterate")
       \/ pc[r] = "loop" /\ ~stop /\ readerOps[r] < MaxReads /\ Throws("find")
       \/ pc[r] = "scan" /\ scanned[r] < ScanFrames /\ Throws("find")
    /\ Terminate
    /\ UNCHANGED <<progress, shared, writing, backend, reading>>

------------------------------------------------------------------------------

MainStep == \/ PrefillWrite \/ PrefillSync \/ PrefillEnd \/ PrefillThrows
            \/ Launch \/ Spawn \/ SpawnThrows \/ EndWindow \/ Rethrow \/ Collect

WriterStep == \/ WriterPrepare \/ Arrive(Writer) \/ Pass(Writer)
              \/ WriterStamp \/ WriterWrite \/ WriterSync \/ WriterStop
              \/ WriterThrows

ReaderStep(r) == \/ Arrive(r) \/ Pass(r) \/ ReaderOpen(r) \/ ReaderFind(r)
                 \/ ReaderNext(r) \/ ReaderCount(r) \/ ReaderStop(r)
                 \/ ReaderThrows(r)

Ended == main \in {"returned", "threw", "terminated"}

\* The run is over.
Over == Ended /\ UNCHANGED vars

Next == \/ MainStep \/ WriterStep
        \/ \E r \in Readers : ReaderStep(r)
        \/ Over

\* Every thread that can run is run by the operating system, and sleep_for
\* returns.
Fairness == /\ WF_vars(MainStep)
            /\ WF_vars(WriterStep)
            /\ \A r \in Readers : WF_vars(ReaderStep(r))

Spec == Init /\ [][Next]_vars

FairSpec == Spec /\ Fairness

------------------------------------------------------------------------------
(* Properties *)

MainLocations == {"prefill", "prefillSync", "launch", "spawn", "window", "join",
                  "returned", "threw", "terminated"}

ThreadLocations == {"off", "prepare", "start", "waiting", "open", "loop", "scan",
                    "stamped", "sync", "lastSync", "done", "killed"}

TypeOK ==
    /\ main \in MainLocations
    /\ sweep \in DOMAIN ReaderCounts
    /\ spawned \in Nat
    /\ latch \in Nat
    /\ stop \in BOOLEAN
    /\ writerEx \in BOOLEAN
    /\ nextTs \in Nat
    /\ pc \in [Threads -> ThreadLocations]
    /\ ts \in Nat
    /\ unsynced \in Nat
    /\ writerOps \in Nat
    /\ opened \in [Readers -> Nat]
    /\ cursor \in [Readers -> Nat]
    /\ scanned \in [Readers -> 0 .. ScanFrames]
    /\ readerOps \in [Readers -> Nat]
    /\ results \in Seq([k : Nat, writer_ops : Nat, reader_ops : Seq(Nat)])
    /\ stored \in Seq(Nat)
    /\ synced \in 0 .. Len(stored)
    /\ failed \in BOOLEAN

Measuring(t) == pc[t] \in {"open", "loop", "scan", "stamped", "sync", "lastSync"}

\* "Start all K readers + 1 writer simultaneously via a shared barrier"
\* (concurrent_readers.cpp:12): while anybody is in its measuring loop, all
\* k+1 threads have been started and have reached the latch.
StartTogether ==
    (\E t \in Threads : Measuring(t)) =>
        \A t \in Crew : pc[t] \notin {"off", "prepare", "start"}

\* Frames reach the backend in strictly increasing timestamp order, over
\* prefill and all sub-experiments, with the counter handed from one to the
\* next: an engine that refuses an older frame never gets one.
TimestampsIncrease ==
    \A i, j \in 1 .. Len(stored) : i < j => stored[i] < stored[j]

\* The window of frames a crash may take: at no moment is more than the
\* durability threshold, short of one byte, and one frame outside the last
\* sync_boundary, whichever loop wrote it and however the loops were left.
BoundedLoss ==
    (Len(stored) - synced) * FrameSize <= DurabilityBytes - 1 + FrameSize

\* Between the sub-experiments, and when run() returns, nothing is left
\* unsynced: what one sub-experiment wrote is not charged to the next.
SyncedBetweenSweeps == main \in {"launch", "returned"} => synced = Len(stored)

\* A run that reports success had no failed call, and one that throws had one,
\* whichever thread it happened on.
NoSilentFailure == (main = "returned" => ~failed) /\ (main = "threw" => failed)

\* The latch, the counters and the histograms are locals of run_sub captured
\* by reference: no thread is alive once run_sub has been left.
NoThreadOutlivesItsLocals ==
    main \in {"launch", "returned", "threw"} =>
        \A t \in Threads : pc[t] \in {"off", "done"}

\* The writer counts reported so far add up to the frames that are there: no
\* frame is reported twice, none is written behind a collected result.
OpsAccountForFrames ==
    main \in {"launch", "returned"} =>
        FoldLeft(LAMBDA n, sr : n + sr.writer_ops, PrefillFrames, results) = Len(stored)

\* "readers always have data to scan" (concurrent_readers.cpp:120): whatever
\* target a reader draws, the frame it lands on and the whole scan after it are
\* among those its iterator is sure to see, and a scan in progress never runs dry.
ReadersNeverRunDry ==
    \A r \in Readers :
        /\ pc[r] = "loop" =>
             \A target \in Targets :
                \E i \in Found(target, opened[r]) :
                    i + ScanFrames - 1 <= opened[r]
        /\ pc[r] = "scan" =>
             cursor[r] + (ScanFrames - scanned[r]) - 1 <= opened[r]

\* The writer's exception has kept it from the latch: nobody will pass.
NeverStarts == writerEx /\ latch > 0

\* "Run for a wall-clock window", "Stop all threads" (concurrent_readers.cpp:13-14):
\* the run comes to an end, whatever call of whichever thread throws, except for a
\* writer that fails before it has reached the latch (concurrent_readers.cpp:246).
RunEnds == <>(Ended \/ NeverStarts)

\* "Run for a wall-clock window", "Stop all threads cleanly."
\* (concurrent_readers.cpp:13-14): without that exception, and no thread takes the
\* process down.
StopsCleanly == <>(main \in {"returned", "threw"})

==============================================================================
