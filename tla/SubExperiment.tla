---------------------------- MODULE SubExperiment ----------------------------
(***************************************************************************)
(* One sub-experiment as multi_stream_write and write_read_contention run   *)
(* it: n threads, of which the first K each write to a stream of their own, *)
(* start at a latch, run until the main thread raises stop, and leave an    *)
(* exception, if they meet one, in a slot of their own.  The two workloads  *)
(* extend this module with what comes before and after, and with readers.   *)
(*                                                                          *)
(* Threads are numbered from 1 (the code: from 0); 0 is the main thread.    *)
(* As in ConcurrentReaders a backend call is one step, and the latch is     *)
(* used as StartGate allows.                                                *)
(***************************************************************************)
EXTENDS Integers, Sequences, FiniteSetsExt, LatencyHistogram

CONSTANTS
    Counts,      \* the values of K, in the order of the sweep
    MaxK,        \* the largest of them
    Faults,      \* which calls may throw in this instance
    MaxTurns,    \* bound: turns of a thread's loop per sub-experiment
    Latencies    \* bound: what a call may take

FaultKinds == {"write", "prepare", "iterate", "find", "spawn"}

\* The stream names hold K: sub-experiments stay apart because the values of K
\* differ.
ASSUME CountsAssumption ==
    /\ MaxK \in Nat \ {0} /\ MaxTurns \in Nat /\ Latencies \subseteq Nat
    /\ Counts \in Seq(1 .. MaxK) /\ Counts # <<>>
    /\ \A i, j \in DOMAIN Counts : Counts[i] = Counts[j] => i = j
    /\ Faults \subseteq FaultKinds

Main == 0
Threads == 1 .. 2 * MaxK

VARIABLES
    main,      \* where the main thread stands
    sweep,     \* index of the current sub-experiment in Counts
    spawned,   \* threads started so far in it
    latch,     \* the start latch's counter
    stop,      \* the stop flag
    slots,     \* thread_ex: per slot the thread whose exception it holds, or none
    pc,        \* where each thread stands
    at,        \* a writer's ts; a reader's seek_ts
    ops,       \* op_counts
    stored,    \* the backend: per stream the timestamps written
    results,   \* subs, with the writers' histograms as history
    blown,     \* history: the threads one of whose calls threw
    thrown     \* the thread whose exception run() throws

None == -1

locals == <<spawned, latch, stop, slots, ops>>
vars == <<main, sweep, locals, pc, at, stored, results, blown, thrown>>

K == Counts[sweep]
Writers == 1 .. K

\* A plausible slip: one name for all values of K.
StreamOfWriter(k, i) == <<1, i>>
WriteStream(k, i) == <<k, i>>

WriteStreams == {WriteStream(Counts[c], i) : c \in DOMAIN Counts, i \in 1 .. MaxK}

\* No sub-experiment has begun; the streams are empty.
Idle(first, streams) ==
    /\ main = first
    /\ sweep = 1
    /\ spawned = 0
    /\ latch = 0
    /\ stop = FALSE
    /\ slots = [t \in Threads |-> None]
    /\ pc = [t \in Threads |-> "off"]
    /\ at = [t \in Threads |-> 0]
    /\ ops = [t \in Threads |-> 0]
    /\ stored = [s \in streams |-> <<>>]
    /\ results = <<>>
    /\ blown = {}
    /\ thrown = None

Write(s, stamp) == stored' = [stored EXCEPT ![s] = Append(@, stamp)]

\* The caller's call throws.
Throws(who, kind) == kind \in Faults /\ blown' = blown \cup {who}

------------------------------------------------------------------------------
(* The main thread *)

\* A call of the main thread throws while no thread is running.
MainThrows(kind) ==
    /\ Throws(Main, kind)
    /\ main' = "threw"
    /\ thrown' = Main
    /\ UNCHANGED <<sweep, locals, pc, at, stored, results>>

\* The writers' streams of the turns cs that have no frame yet.
Cold(cs) == {d \in cs \X (1 .. MaxK) :
                /\ d[2] <= Counts[d[1]]
                /\ stored[WriteStream(Counts[d[1]], d[2])] = <<>>}

\* The first frame of each writer's stream is written before the threads start,
\* turn after turn, stream after stream.
Prewarm(cs) ==
    \E d \in Cold(cs) :
        /\ \A e \in Cold(cs) : d[1] < e[1] \/ (d[1] = e[1] /\ d[2] <= e[2])
        /\ Write(WriteStream(Counts[d[1]], d[2]), 1)

\* Plausible slips: the latch is built for one thread too few, or for the main
\* thread as well.
LatchOneShort(n) == n - 1
LatchWithMain(n) == n + 1
LatchSize(n) == n

\* The locals of a turn of the sweep, for n threads.
Launch(n) ==
    /\ main = "launch"
    /\ main' = "spawn"
    /\ spawned' = 0
    /\ latch' = LatchSize(n)
    /\ stop' = FALSE
    /\ slots' = [t \in Threads |-> None]
    /\ ops' = [t \in Threads |-> 0]
    /\ pc' = [t \in Threads |-> "off"]
    /\ UNCHANGED <<sweep, at, stored, results, blown, thrown>>

Spawn(n) ==
    /\ main = "spawn"
    /\ spawned' = spawned + 1
    /\ pc' = [pc EXCEPT ![spawned'] = "prepare"]
    /\ main' = IF spawned' = n THEN "window" ELSE main
    /\ UNCHANGED <<sweep, latch, stop, slots, ops, at, stored, results, blown, thrown>>

\* The unwinding destroys the joinable threads started so far: std::terminate.
SpawnThrows ==
    /\ main = "spawn"
    /\ Throws(Main, "spawn")
    /\ \/ /\ spawned = 0
          /\ main' = "threw" /\ thrown' = Main
          /\ UNCHANGED pc
       \/ /\ spawned > 0
          /\ main' = "terminated"
          /\ pc' = [t \in Threads |-> "killed"]
          /\ UNCHANGED thrown
    /\ UNCHANGED <<sweep, locals, at, stored, results>>

\* sleep_for returns, at whatever moment.
EndWindow ==
    /\ main = "window"
    /\ main' = "join"
    /\ stop' = TRUE
    /\ UNCHANGED <<sweep, spawned, latch, slots, ops, pc, at, stored, results, blown, thrown>>

\* A plausible slip: the last thread is not joined.
AllButLastJoined(n) == \A t \in 1 .. n - 1 : pc[t] = "done"
AllJoined(n) == \A t \in 1 .. n : pc[t] = "done"

Held(n) == {t \in 1 .. n : slots[t] # None}

\* The first slot that holds an exception decides.
Rethrow(n) ==
    /\ main = "join" /\ AllJoined(n)
    /\ Held(n) # {}
    /\ thrown' = slots[Min(Held(n))]
    /\ main' = "threw"
    /\ UNCHANGED <<sweep, locals, pc, at, stored, results, blown>>

OpsOf(threads) == MapThenSumSet(LAMBDA t : ops[t], threads)

\* What the threads' histograms may hold: a latency for every call counted. They
\* are drawn here, where they are first looked at. (Bound: in decreasing order, so
\* that they have to be sorted; nothing else depends on the order.)
HistogramsOf(t) ==
    {h \in [1 .. ops[t] -> Latencies] : \A i \in 1 .. ops[t] - 1 : h[i] >= h[i + 1]}

Histograms(n) ==
    {h \in [1 .. n -> UNION {HistogramsOf(t) : t \in 1 .. n}] :
        \A t \in 1 .. n : h[t] \in HistogramsOf(t)}

\* The counts and the histograms of the two roles are combined, and the sweep goes
\* on at next.
Collect(n, next) ==
    /\ main = "join" /\ AllJoined(n)
    /\ Held(n) = {}
    /\ \E hists \in Histograms(n) :
         LET written == SubSeq(hists, 1, K)
             read    == SubSeq(hists, K + 1, n)
         IN  results' = Append(results, [k             |-> K,
                                         writer_ops    |-> OpsOf(Writers),
                                         reader_ops    |-> OpsOf((1 .. n) \ Writers),
                                         write_latency |-> Merge(written),
                                         read_latency  |-> Merge(read),
                                         write_hists   |-> written])
    /\ IF sweep < Len(Counts)
         THEN main' = next /\ sweep' = sweep + 1
         ELSE main' = "returned" /\ UNCHANGED sweep
    /\ UNCHANGED <<locals, pc, at, stored, blown, thrown>>

------------------------------------------------------------------------------
(* The threads *)

Goto(t, loc) == pc' = [pc EXCEPT ![t] = loc]

\* What a thread sets up before the latch; its timestamps start with first.
Prepare(t, first) ==
    /\ pc[t] = "prepare"
    /\ at' = [at EXCEPT ![t] = first]
    /\ Goto(t, "start")
    /\ UNCHANGED <<main, sweep, locals, stored, results, blown, thrown>>

Arrive(t) ==
    /\ pc[t] = "start"
    /\ latch' = latch - 1
    /\ Goto(t, "waiting")
    /\ UNCHANGED <<main, sweep, spawned, stop, slots, ops, at, stored, results, blown, thrown>>

Pass(t) ==
    /\ pc[t] = "waiting"
    /\ latch = 0
    /\ Goto(t, "loop")
    /\ UNCHANGED <<main, sweep, locals, at, stored, results, blown, thrown>>

\* The flag is read before the call it lets through.
Turn(t) ==
    /\ pc[t] = "loop"
    /\ ~stop
    /\ ops[t] < MaxTurns
    /\ Goto(t, "busy")
    /\ UNCHANGED <<main, sweep, locals, at, stored, results, blown, thrown>>

\* The call has returned and is counted.
Count(t) ==
    /\ pc[t] = "busy"
    /\ ops' = [ops EXCEPT ![t] = @ + 1]
    /\ Goto(t, "loop")
    /\ UNCHANGED <<main, sweep, spawned, latch, stop, slots, results, blown, thrown>>

WriterWrite(t) ==
    /\ Count(t)
    /\ Write(WriteStream(K, t), at[t])
    /\ at' = [at EXCEPT ![t] = @ + 1]

StopLoop(t) ==
    /\ pc[t] = "loop"
    /\ stop
    /\ Goto(t, "done")
    /\ UNCHANGED <<main, sweep, locals, at, stored, results, blown, thrown>>

\* A plausible slip: readers and writers share the slots.
SharedSlot(t) == IF t <= K THEN t ELSE t - K
Slot(t) == t

\* catch (...) of every thread.
Keep(t, kind) ==
    /\ Throws(t, kind)
    /\ slots' = [slots EXCEPT ![Slot(t)] = t]
    /\ stop' = TRUE
    /\ Goto(t, "done")
    /\ UNCHANGED <<main, sweep, spawned, latch, ops, at, stored, results, thrown>>

WriterThrows(t) ==
    \/ pc[t] = "prepare" /\ Keep(t, "prepare")
    \/ pc[t] = "busy" /\ Keep(t, "write")

\* The second frame of a stream has timestamp 2.
WriterStep(t) == \/ Prepare(t, 2) \/ Arrive(t) \/ Pass(t)
                 \/ Turn(t) \/ WriterWrite(t) \/ StopLoop(t) \/ WriterThrows(t)

Ended == main \in {"returned", "threw", "terminated"}

\* The run is over.
Over == Ended /\ UNCHANGED vars

------------------------------------------------------------------------------
(* Properties of both workloads *)

ThreadLocations == {"off", "prepare", "start", "waiting", "loop", "busy", "done", "killed"}

SubTypeOK ==
    /\ sweep \in DOMAIN Counts
    /\ spawned \in 0 .. 2 * MaxK
    /\ latch \in 0 .. 2 * MaxK
    /\ stop \in BOOLEAN
    /\ slots \in [Threads -> Threads \cup {None}]
    /\ pc \in [Threads -> ThreadLocations]
    /\ at \in [Threads -> Nat]
    /\ ops \in [Threads -> Nat]
    /\ stored \in [DOMAIN stored -> Seq(Nat)]
    /\ results \in Seq([k : Nat, writer_ops : Nat, reader_ops : Nat,
                        write_latency : Stats, read_latency : Stats,
                        write_hists : Seq(Seq(Latencies))])
    /\ blown \subseteq Threads \cup {Main}
    /\ thrown \in Threads \cup {Main, None}

\* No thread is in its measuring loop while another one of the n has not
\* reached the latch.
AllStarted(n) ==
    (\E t \in Threads : pc[t] \in {"loop", "busy"}) =>
        \A t \in 1 .. n : pc[t] \notin {"off", "prepare", "start"}

\* "Streams are unique per K so timestamps never collide across sweeps"
\* (write_read_contention.cpp:32-33): in every stream timestamps strictly
\* increase, over the pre-warm frame and all sub-experiments.
TimestampsIncrease ==
    \A s \in DOMAIN stored :
        \A i, j \in 1 .. Len(stored[s]) : i < j => stored[s][i] < stored[s][j]

\* "Pre-warm: create write contexts before threads start so the context-map
\* lookup never races with writes during measurement" (multi_stream_write.cpp:125-126).
WarmBeforeStart ==
    main \in {"spawn", "window", "join"} =>
        \A i \in Writers : stored[WriteStream(K, i)] # <<>>

\* Of a stream a sub-experiment finds its own pre-warm frame, whoever has run
\* before, and writes on from there.
StreamsInOrder == TimestampsIncrease /\ WarmBeforeStart

\* "Propagate first thread exception (if any) back to the caller."
\* (multi_stream_write.cpp:178): a run that returns had no failed call, and one
\* that throws passes on the failure of the first thread, in the order of their
\* numbers, that had one.
FirstFailureReported ==
    /\ main = "returned" => blown = {}
    /\ main = "threw" => blown # {} /\ thrown = Min(blown)

\* Latch, counters and slots are locals of one turn of the sweep, captured by
\* reference: no thread lives on when the turn is over.
NoThreadOutlivesItsLocals ==
    main \in {"prewarm", "launch", "returned", "threw"} =>
        \A t \in Threads : pc[t] \in {"off", "done"}

\* Each reported writer count is the number of frames that its sub-experiment
\* added to the streams of its K, the pre-warm frames left out.
OpsAccountForFrames ==
    \A i \in 1 .. Len(results) :
        results[i].writer_ops =
            MapThenSumSet(LAMBDA t : Len(stored[WriteStream(results[i].k, t)]) - 1,
                          1 .. results[i].k)

\* The latencies reported for the writers increase from p50 to max, and max is the
\* longest that a call of any of them took: merging summaries loses no outlier.
LongestCallReported ==
    \A i \in 1 .. Len(results) :
        LET reported == results[i].write_latency
            measured == ToSet(FlattenSeq(results[i].write_hists))
        IN  /\ Increasing(reported)
            /\ reported.max = Max(measured \cup {0})

\* The p50 reported for several writers is no median of their calls: the summaries
\* that are merged (multi_stream_write.cpp:189-196, write_read_contention.cpp:266-271)
\* hold three tail figures for one median, so that it is never less than the
\* smallest 95th percentile of a writer. The other figures of a writer are what
\* their names say.
MedianIsATail ==
    \A i \in 1 .. Len(results) :
        LET hists == results[i].write_hists
        IN  /\ \E w \in DOMAIN hists : Compute(hists[w]).p95 <= results[i].write_latency.p50
            /\ \A w \in DOMAIN hists :
                  hists[w] # <<>> => /\ IsPercentile(hists[w], 50, Compute(hists[w]).p50)
                                    /\ IsPercentile(hists[w], 99, Compute(hists[w]).p99)

\* What a sub-experiment reports is what its threads did: the frames they wrote, and
\* of their latencies what the definition of the summary makes of them.
ResultsMatchThreads == OpsAccountForFrames /\ LongestCallReported /\ MedianIsATail

\* "Each value of K runs for 10 seconds." (write_read_contention.cpp:6,
\* multi_stream_write.cpp:5): the run comes to an end.
RunEnds == <>Ended

==============================================================================
