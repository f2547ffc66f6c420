------------------------- MODULE WriteReadContention -------------------------
(***************************************************************************)
(* The write_read_contention workload: MaxK reader streams are filled and   *)
(* the writers' streams of all K pre-warmed once; then, for each K, K       *)
(* writers run beside K readers, thread K + i reading stream i.             *)
(*                                                                          *)
(* A reader's stream is written by nobody during the sweep, so a turn of    *)
(* its loop, find and scan, is one step.                                    *)
(***************************************************************************)
EXTENDS SubExperiment

CONSTANTS
    ReadPrefill,   \* READ_PREFILL
    ScanFrames     \* SCAN_FRAMES

ASSUME ReadAssumption ==
    /\ ScanFrames \in Nat \ {0} /\ ReadPrefill \in Nat /\ ScanFrames <= ReadPrefill

\* K is never 0, so these are not among the writers' streams.
ReadStream(i) == <<0, i>>
ReadStreams == {ReadStream(i) : i \in 1 .. MaxK}

Init == Idle("prefill", ReadStreams \cup WriteStreams)

------------------------------------------------------------------------------
(* The main thread before the sweep *)

FilledStreams == MaxK

Filled(i) == Len(stored[ReadStream(i)]) = ReadPrefill

\* Stream after stream, frame after frame; the timestamps start with 1.
PrefillWrite ==
    /\ main = "prefill"
    /\ \E i \in 1 .. FilledStreams :
         /\ ~Filled(i)
         /\ \A j \in 1 .. i - 1 : Filled(j)
         /\ Write(ReadStream(i), Len(stored[ReadStream(i)]) + 1)
    /\ UNCHANGED <<main, sweep, locals, pc, at, results, blown, thrown>>

PrefillEnd ==
    /\ main = "prefill"
    /\ \A i \in 1 .. FilledStreams : Filled(i)
    /\ main' = "prewarm"
    /\ UNCHANGED <<sweep, locals, pc, at, stored, results, blown, thrown>>

AllWarm == Cold(DOMAIN Counts) = {}

PrewarmWrite ==
    /\ main = "prewarm"
    /\ Prewarm(DOMAIN Counts)
    /\ UNCHANGED <<main, sweep, locals, pc, at, results, blown, thrown>>

PrewarmEnd ==
    /\ main = "prewarm"
    /\ AllWarm
    /\ main' = "launch"
    /\ UNCHANGED <<sweep, locals, pc, at, stored, results, blown, thrown>>

FillThrows ==
    /\ \/ main = "prefill" /\ \E i \in 1 .. FilledStreams : ~Filled(i)
       \/ main = "prewarm" /\ ~AllWarm
    /\ MainThrows("write")

------------------------------------------------------------------------------
(* The readers *)

Readers == K + 1 .. 2 * K
OwnStream(t) == ReadStream(t - K)

\* Frames from the first one not older than ts on.
Remaining(t, ts) == {i \in 1 .. Len(stored[OwnStream(t)]) : stored[OwnStream(t)][i] >= ts}

\* A plausible slip: the old position is tested, not the new one.
AdvanceUntested(ts) == IF ts + ScanFrames >= ReadPrefill THEN 1 ELSE ts + ScanFrames
Advance(ts) == IF ts + 2 * ScanFrames >= ReadPrefill THEN 1 ELSE ts + ScanFrames

\* find and scan; an unsuccessful find starts over, and counts all the same.
ReaderScan(t) ==
    /\ Count(t)
    /\ at' = [at EXCEPT ![t] = IF Remaining(t, at[t]) = {} THEN 1 ELSE Advance(@)]
    /\ UNCHANGED stored

\* The iterator is opened before the latch.
ReaderThrows(t) ==
    \/ pc[t] = "prepare" /\ Keep(t, "iterate")
    \/ pc[t] = "busy" /\ Keep(t, "find")

ReaderStep(t) == \/ Prepare(t, 1) \/ Arrive(t) \/ Pass(t)
                 \/ Turn(t) \/ ReaderScan(t) \/ StopLoop(t) \/ ReaderThrows(t)

------------------------------------------------------------------------------

MainStep == \/ PrefillWrite \/ PrefillEnd \/ PrewarmWrite \/ PrewarmEnd \/ FillThrows
            \/ Launch(2 * K) \/ Spawn(2 * K) \/ SpawnThrows \/ EndWindow
            \/ Rethrow(2 * K) \/ Collect(2 * K, "launch")

ThreadStep(t) == \/ t \in Writers /\ WriterStep(t)
                 \/ t \in Readers /\ ReaderStep(t)

Next == MainStep \/ (\E t \in Threads : ThreadStep(t)) \/ Over

\* Every thread that can run is run, and sleep_for returns.
Fairness == WF_vars(MainStep) /\ \A t \in Threads : WF_vars(ThreadStep(t))

Spec == Init /\ [][Next]_vars

FairSpec == Spec /\ Fairness

------------------------------------------------------------------------------
(* Properties *)

TypeOK ==
    /\ main \in {"prefill", "prewarm", "launch", "spawn", "window", "join",
                 "returned", "threw", "terminated"}
    /\ DOMAIN stored = ReadStreams \cup WriteStreams
    /\ SubTypeOK

\* No writer and no reader measures before all 2K threads have reached the latch.
StartTogether == AllStarted(2 * K)

\* Every seek finds a frame, and a whole scan of frames after it: the position
\* wraps round in time, in the streams that were filled for the largest K.
ScansAreComplete ==
    main \in {"spawn", "window", "join"} =>
        \A t \in Readers :
            pc[t] \in {"loop", "busy"} =>
                Cardinality(Remaining(t, at[t])) >= ScanFrames

==============================================================================
