----------------------- MODULE WriteReadContentionProofs -----------------------
(***************************************************************************)
(* Safety of the write_read_contention workload for every sweep, every size *)
(* and every combination of throwing calls.                                 *)
(***************************************************************************)
EXTENDS WriteReadContention, SubExperimentProofs

\* The crew of a sub-experiment is K writers and K readers.
CrewOfPairs == sweep \in DOMAIN Counts /\ CrewInv(2 * K)

ReadLocations == {"start", "waiting", "loop", "busy"}

\* From the end of the prefill on, the streams to read hold frames 1 to ReadPrefill,
\* and a reader stands where a whole scan of them is left.
ReadInv ==
    /\ stored \in [ReadStreams \cup WriteStreams -> Seq(Nat)]
    /\ at \in [Threads -> Nat]
    /\ \A i \in 1 .. MaxK :
         /\ \A j \in 1 .. Len(stored[ReadStream(i)]) : stored[ReadStream(i)][j] = j
         /\ main \in {"prewarm", "launch"} \/ Running =>
              Len(stored[ReadStream(i)]) = ReadPrefill
    /\ Running => \A t \in Readers :
         pc[t] \in ReadLocations => at[t] \in 1 .. ReadPrefill - ScanFrames + 1

\* The streams of all sub-experiments are warmed before the first of them.
WarmInv ==
    main = "launch" \/ Running =>
        \A c \in DOMAIN Counts, i \in 1 .. MaxK : i <= Counts[c] => Stream(c, i) # <<>>

\* With them: counts and types, streams, and what is reported of them.
Streams == ReadStreams \cup WriteStreams

Inv == /\ CrewOfPairs /\ ReadInv /\ WarmInv
       /\ TypeInv /\ StreamInv(Streams) /\ CountInv /\ ReportInv

------------------------------------------------------------------------------
(* Threads, latch and failures *)

\* What it says of the crew of this workload.
LEMMA CrewOfPairsSuffices ==
    CrewOfPairs => StartTogether /\ NoThreadOutlivesItsLocals /\ FirstFailureReported
<1>. SUFFICES ASSUME CrewOfPairs
              PROVE  StartTogether /\ NoThreadOutlivesItsLocals /\ FirstFailureReported
  OBVIOUS
<1>1. PICK n \in 1 .. 2 * MaxK : n = 2 * K
  BY CountFacts DEF CrewOfPairs, K
<1>2. CrewInv(n)
  BY <1>1 DEF CrewOfPairs
<1>3. AllStarted(n) /\ NoThreadOutlivesItsLocals /\ FirstFailureReported
  BY <1>2, CrewInvSuffices
<1>. QED BY <1>1, <1>3 DEF StartTogether

------------------------------------------------------------------------------
(* The streams to read *)

\* Streams to read are not among those written, for 0 is no value of K.
LEMMA StreamFacts ==
    /\ \A i \in 1 .. MaxK : ReadStream(i) \in ReadStreams
    /\ \A i, j \in 1 .. MaxK : ReadStream(i) = ReadStream(j) => i = j
    /\ \A c \in DOMAIN Counts, t \in 1 .. MaxK :
         /\ WriteStream(Counts[c], t) \in WriteStreams
         /\ \A i \in 1 .. MaxK : ReadStream(i) # WriteStream(Counts[c], t)
<1>1. \A c \in DOMAIN Counts : Counts[c] # 0
  BY CountFacts
<1>. QED BY <1>1 DEF ReadStream, ReadStreams, WriteStream, WriteStreams

\* A frame appended to one stream is its last, and leaves the others alone.
LEMMA WriteFacts ==
    ASSUME NEW s \in ReadStreams \cup WriteStreams, NEW stamp \in Nat,
           stored \in [ReadStreams \cup WriteStreams -> Seq(Nat)], Write(s, stamp)
    PROVE  /\ stored' \in [ReadStreams \cup WriteStreams -> Seq(Nat)]
           /\ Len(stored'[s]) = Len(stored[s]) + 1
           /\ \A j \in 1 .. Len(stored[s]) : stored'[s][j] = stored[s][j]
           /\ stored'[s][Len(stored[s]) + 1] = stamp
           /\ \A u \in ReadStreams \cup WriteStreams : u # s => stored'[u] = stored[u]
BY DEF Write

\* Frames to read are only written by the prefill.
LEMMA WritersWriteElsewhere ==
    ASSUME ReadInv, NEW c \in DOMAIN Counts, NEW t \in 1 .. MaxK, NEW stamp \in Nat,
           Write(WriteStream(Counts[c], t), stamp)
    PROVE  /\ stored' \in [ReadStreams \cup WriteStreams -> Seq(Nat)]
           /\ \A i \in 1 .. MaxK : stored'[ReadStream(i)] = stored[ReadStream(i)]
<1>. DEFINE s == WriteStream(Counts[c], t)
<1>1. /\ s \in ReadStreams \cup WriteStreams
      /\ \A i \in 1 .. MaxK : ReadStream(i) \in ReadStreams /\ ReadStream(i) # s
  BY StreamFacts
<1>2. stored \in [ReadStreams \cup WriteStreams -> Seq(Nat)] /\ Write(s, stamp)
  BY DEF ReadInv
<1>. HIDE DEF s
<1>3. /\ stored' \in [ReadStreams \cup WriteStreams -> Seq(Nat)]
      /\ \A u \in ReadStreams \cup WriteStreams : u # s => stored'[u] = stored[u]
  BY <1>1, <1>2, WriteFacts
<1>. QED BY <1>1, <1>3

\* Of the frames 1 to ReadPrefill, those from a position on that leaves a whole scan.
LEMMA WholeScanLeft ==
    ASSUME NEW f \in Seq(Nat), Len(f) = ReadPrefill,
           \A j \in 1 .. Len(f) : f[j] = j,
           NEW ts \in 1 .. ReadPrefill - ScanFrames + 1
    PROVE  Cardinality({j \in 1 .. Len(f) : f[j] >= ts}) >= ScanFrames
<1>. DEFINE left == {j \in 1 .. Len(f) : f[j] >= ts}
<1>1. /\ ReadPrefill \in Nat /\ ScanFrames \in Nat \ {0} /\ ts \in Nat
      /\ 1 <= ts /\ ts <= ReadPrefill - ScanFrames + 1
  BY ReadAssumption
<1>2. left = ts .. ReadPrefill
  BY <1>1
<1>. HIDE DEF left
<1>3. Cardinality(ts .. ReadPrefill) = ReadPrefill - ts + 1
  BY <1>1, FS_Interval
<1>4. Cardinality(left) >= ScanFrames
  BY <1>1, <1>2, <1>3
<1>. QED BY <1>4 DEF left

\* The position wraps round in time.
LEMMA AdvanceLeavesAScan ==
    ASSUME NEW ts \in 1 .. ReadPrefill - ScanFrames + 1
    PROVE  /\ Advance(ts) \in 1 .. ReadPrefill - ScanFrames + 1
           /\ 1 \in 1 .. ReadPrefill - ScanFrames + 1
BY ReadAssumption DEF Advance

\* Nothing is written yet.
LEMMA InitEstablishesReads == Init => ReadInv
<1>. SUFFICES ASSUME Init PROVE ReadInv
  OBVIOUS
<1>1. /\ main = "prefill" /\ at \in [Threads -> Nat]
      /\ stored \in [ReadStreams \cup WriteStreams -> Seq(Nat)]
      /\ \A s \in ReadStreams \cup WriteStreams : stored[s] = <<>>
  BY DEF Init, Idle
<1>. QED BY <1>1, StreamFacts DEF ReadInv, Running

\* Every step preserves it.
LEMMA NextPreservesReads == CrewOfPairs /\ ReadInv /\ [Next]_vars => ReadInv'
<1>. SUFFICES ASSUME CrewOfPairs, ReadInv, [Next]_vars PROVE ReadInv'
  OBVIOUS
<1>0. MaxK \in Nat /\ K \in 1 .. MaxK /\ sweep \in DOMAIN Counts
  BY CountFacts, CountsAssumption DEF CrewOfPairs, K
<1>1. CASE PrefillWrite
  <2>1. PICK i \in 1 .. MaxK : Write(ReadStream(i), Len(stored[ReadStream(i)]) + 1)
    BY <1>1 DEF PrefillWrite, FilledStreams
  <2>2. ReadStream(i) \in ReadStreams \cup WriteStreams
        /\ Len(stored[ReadStream(i)]) \in Nat
    BY StreamFacts DEF ReadInv
  <2>3. /\ stored' \in [ReadStreams \cup WriteStreams -> Seq(Nat)]
        /\ \A k \in 1 .. MaxK : \A j \in 1 .. Len(stored'[ReadStream(k)]) :
             stored'[ReadStream(k)][j] = j
    <3>. DEFINE s == ReadStream(i)
    <3>1. stored \in [ReadStreams \cup WriteStreams -> Seq(Nat)]
      BY DEF ReadInv
    <3>2. \A k \in 1 .. MaxK : /\ ReadStream(k) \in ReadStreams
                               /\ \A j \in 1 .. Len(stored[ReadStream(k)]) :
                                    stored[ReadStream(k)][j] = j
      BY StreamFacts DEF ReadInv
    <3>3. Write(s, Len(stored[s]) + 1) /\ s \in ReadStreams \cup WriteStreams
          /\ Len(stored[s]) \in Nat /\ \A j \in 1 .. Len(stored[s]) : stored[s][j] = j
      BY <2>1, <2>2, <3>2
    <3>. HIDE DEF s
    <3>4. /\ stored' \in [ReadStreams \cup WriteStreams -> Seq(Nat)]
          /\ Len(stored'[s]) = Len(stored[s]) + 1
          /\ \A j \in 1 .. Len(stored[s]) : stored'[s][j] = stored[s][j]
          /\ stored'[s][Len(stored[s]) + 1] = Len(stored[s]) + 1
          /\ \A u \in ReadStreams \cup WriteStreams : u # s => stored'[u] = stored[u]
      BY <3>1, <3>3, WriteFacts
    <3>5. \A j \in 1 .. Len(stored'[s]) : stored'[s][j] = j
      BY <3>3, <3>4
    <3>6. \A k \in 1 .. MaxK : ReadStream(k) # s => stored'[ReadStream(k)] = stored[ReadStream(k)]
      BY <3>2, <3>4
    <3>. QED BY <3>2, <3>4, <3>5, <3>6
  <2>4. main' = "prefill" /\ at' = at
    BY <1>1 DEF PrefillWrite
  <2>. QED BY <2>3, <2>4 DEF ReadInv, Running
<1>2. CASE PrefillEnd
  <2>1. \A i \in 1 .. MaxK : Len(stored[ReadStream(i)]) = ReadPrefill
    BY <1>2 DEF PrefillEnd, Filled, FilledStreams
  <2>. QED BY <1>2, <2>1 DEF PrefillEnd, ReadInv, Running
<1>3. CASE PrewarmWrite
  <2>1. PICK c \in DOMAIN Counts, t \in 1 .. MaxK : Write(WriteStream(Counts[c], t), 1)
    BY <1>3 DEF PrewarmWrite, Prewarm, Cold
  <2>. QED BY <1>3, <2>1, WritersWriteElsewhere DEF PrewarmWrite, ReadInv, Running
<1>4. CASE PrewarmEnd \/ FillThrows \/ SpawnThrows \/ EndWindow \/ Rethrow(2 * K)
  <2>1. /\ UNCHANGED <<stored, at, sweep>>
        /\ main' \in {"prewarm", "launch"} \/ Running' =>
             /\ main \in {"prewarm", "launch"} \/ Running
             /\ Running' => Running /\ pc' = pc
    BY <1>4 DEF PrewarmEnd, FillThrows, MainThrows, SpawnThrows, EndWindow, Rethrow, Running
  <2>. QED BY <2>1 DEF ReadInv, Readers, K
<1>5. CASE Launch(2 * K)
  <2>1. /\ UNCHANGED <<stored, at>> /\ main = "launch"
        /\ pc' = [t \in Threads |-> "off"] /\ sweep' = sweep
    BY <1>5 DEF Launch
  <2>2. \A t \in Readers' : pc'[t] \notin ReadLocations
    <3>1. Readers' \subseteq Threads
      BY <1>0, <2>1 DEF Readers, Threads, K
    <3>. QED BY <2>1, <3>1 DEF ReadLocations
  <2>. QED BY <2>1, <2>2 DEF ReadInv
<1>6. CASE Spawn(2 * K)
  <2>1. /\ UNCHANGED <<stored, at, sweep>> /\ Running /\ Running'
        /\ pc' = [pc EXCEPT ![spawned'] = "prepare"]
    BY <1>6 DEF Spawn, Running
  <2>2. \A t \in Readers : pc'[t] \in ReadLocations => pc[t] \in ReadLocations
    <3>1. Readers \subseteq Threads /\ pc \in [Threads -> ThreadLocations]
      BY <1>0 DEF Readers, Threads, CrewOfPairs, CrewInv, PlaceInv
    <3>. QED BY <2>1, <3>1 DEF ReadLocations
  <2>. QED BY <2>1, <2>2 DEF ReadInv, Readers, K
<1>7. CASE Collect(2 * K, "launch")
  <2>1. UNCHANGED <<stored, at>> /\ Running /\ ~Running'
    BY <1>7 DEF Collect, Running
  <2>. QED BY <2>1 DEF ReadInv
<1>8. ASSUME NEW t \in Threads, ThreadStep(t) PROVE ReadInv'
  <2>0. /\ UNCHANGED <<main, sweep>> /\ Readers \subseteq Threads
        /\ Readers' = Readers /\ (Running' <=> Running)
    <3>1. UNCHANGED <<main, sweep>>
      BY <1>8 DEF ThreadStep, WriterStep, ReaderStep, Prepare, Arrive, Pass, Turn, Count,
                  WriterWrite, ReaderScan, StopLoop, WriterThrows, ReaderThrows, Keep
    <3>. QED BY <1>0, <3>1 DEF Readers, Threads, K, Running
  <2>1. pc \in [Threads -> ThreadLocations]
    BY DEF CrewOfPairs, CrewInv, PlaceInv
  <2>2. CASE \/ Arrive(t) \/ Pass(t) \/ Turn(t) \/ StopLoop(t)
             \/ WriterThrows(t) \/ ReaderThrows(t)
    <3>1. UNCHANGED <<stored, at>>
      BY <2>2 DEF Arrive, Pass, Turn, StopLoop, WriterThrows, ReaderThrows, Keep
    <3>2. PICK loc : Goto(t, loc) /\ (loc \in ReadLocations => pc[t] \in ReadLocations)
      BY <2>2 DEF Arrive, Pass, Turn, StopLoop, WriterThrows, ReaderThrows, Keep, ReadLocations
    <3>3. \A u \in Threads : pc'[u] \in ReadLocations => pc[u] \in ReadLocations
      BY <2>1, <3>2 DEF Goto
    <3>. QED BY <2>0, <3>1, <3>3 DEF ReadInv
  <2>3. CASE t \in Writers /\ Prepare(t, 2)
    <3>1. /\ stored' = stored /\ at' = [at EXCEPT ![t] = 2]
          /\ pc' = [pc EXCEPT ![t] = "start"] /\ t \notin Readers
      BY <1>0, <2>3 DEF Prepare, Goto, Writers, Readers
    <3>2. at' \in [Threads -> Nat] /\ \A u \in Readers : at'[u] = at[u] /\ pc'[u] = pc[u]
      BY <2>0, <2>1, <3>1 DEF ReadInv
    <3>. QED BY <2>0, <3>1, <3>2 DEF ReadInv
  <2>4. CASE t \in Readers /\ Prepare(t, 1)
    <3>1. /\ stored' = stored /\ at' = [at EXCEPT ![t] = 1]
          /\ pc' = [pc EXCEPT ![t] = "start"]
      BY <2>4 DEF Prepare, Goto
    <3>2. /\ at' \in [Threads -> Nat] /\ at'[t] = 1
          /\ \A u \in Readers : u # t => at'[u] = at[u] /\ pc'[u] = pc[u]
      BY <2>0, <2>1, <3>1 DEF ReadInv
    <3>3. 1 \in 1 .. ReadPrefill - ScanFrames + 1
      BY ReadAssumption
    <3>. QED BY <2>0, <3>1, <3>2, <3>3 DEF ReadInv
  <2>5. CASE t \in Writers /\ WriterWrite(t)
    <3>1. /\ Write(WriteStream(Counts[sweep], t), at[t]) /\ at[t] \in Nat
          /\ at' = [at EXCEPT ![t] = @ + 1] /\ t \notin Readers /\ t \in 1 .. MaxK
          /\ pc' = [pc EXCEPT ![t] = "loop"]
      BY <1>0, <2>5 DEF WriterWrite, Count, Goto, Writers, Readers, K, ReadInv
    <3>2. at' \in [Threads -> Nat] /\ \A u \in Readers : at'[u] = at[u] /\ pc'[u] = pc[u]
      BY <2>0, <2>1, <3>1 DEF ReadInv
    <3>3. /\ stored' \in [ReadStreams \cup WriteStreams -> Seq(Nat)]
          /\ \A i \in 1 .. MaxK : stored'[ReadStream(i)] = stored[ReadStream(i)]
      BY <1>0, <3>1, WritersWriteElsewhere
    <3>. QED BY <2>0, <3>2, <3>3 DEF ReadInv
  <2>6. CASE t \in Readers /\ ReaderScan(t)
    <3>1. PICK ts \in {1, Advance(at[t])} : at' = [at EXCEPT ![t] = ts]
      BY <2>6 DEF ReaderScan
    <3>2. /\ stored' = stored /\ pc[t] = "busy" /\ pc' = [pc EXCEPT ![t] = "loop"]
      BY <2>6 DEF ReaderScan, Count, Goto
    <3>3. Running
      BY <2>0, <2>1, <2>6, <3>2
         DEF CrewOfPairs, CrewInv, PlaceInv, MainLocations, Quiet, Filling, Running
    <3>4. at[t] \in 1 .. ReadPrefill - ScanFrames + 1
      BY <2>6, <3>2, <3>3 DEF ReadInv, ReadLocations
    <3>5. ts \in 1 .. ReadPrefill - ScanFrames + 1 /\ ts \in Nat
      BY <3>1, <3>4, AdvanceLeavesAScan
    <3>6. /\ at' \in [Threads -> Nat] /\ at'[t] = ts
          /\ \A u \in Readers : u # t => at'[u] = at[u] /\ pc'[u] = pc[u]
      BY <2>0, <2>1, <3>1, <3>2, <3>5 DEF ReadInv
    <3>. QED BY <2>0, <3>2, <3>5, <3>6 DEF ReadInv
  <2>. QED BY <1>8, <2>2, <2>3, <2>4, <2>5, <2>6 DEF ThreadStep, WriterStep, ReaderStep
<1>9. CASE UNCHANGED vars
  BY <1>9 DEF vars, locals, ReadInv, Running, Readers, K
<1>. QED
  BY <1>1, <1>2, <1>3, <1>4, <1>5, <1>6, <1>7, <1>8, <1>9 DEF Next, MainStep, Over

\* A reader in its loop has a whole scan before it.
LEMMA ReadInvSuffices == CrewOfPairs /\ ReadInv => ScansAreComplete
<1>. SUFFICES ASSUME CrewOfPairs, ReadInv, Running,
                     NEW t \in Readers, pc[t] \in {"loop", "busy"}
              PROVE  Cardinality(Remaining(t, at[t])) >= ScanFrames
  BY DEF ScansAreComplete, Running
<1>1. t - K \in 1 .. MaxK
  <2>1. MaxK \in Nat /\ K \in 1 .. MaxK
    BY CountFacts, CountsAssumption DEF CrewOfPairs, K
  <2>. QED BY <2>1 DEF Readers
<1>2. OwnStream(t) \in ReadStreams
  BY <1>1, StreamFacts DEF OwnStream
<1>3. /\ stored[OwnStream(t)] \in Seq(Nat)
      /\ Len(stored[OwnStream(t)]) = ReadPrefill
      /\ \A j \in 1 .. Len(stored[OwnStream(t)]) : stored[OwnStream(t)][j] = j
  BY <1>1, <1>2 DEF ReadInv, OwnStream
<1>4. at[t] \in 1 .. ReadPrefill - ScanFrames + 1
  BY DEF ReadInv, ReadLocations
<1>. QED BY <1>3, <1>4, WholeScanLeft DEF Remaining

------------------------------------------------------------------------------
(* Types, streams, counts and reports *)

\* Frames come after the older ones of their stream.
LEMMA PrefillIsFill ==
    ASSUME ReadInv, PrefillWrite
    PROVE  Fill(Streams)
<1>1. PICK i \in 1 .. MaxK : Write(ReadStream(i), Len(stored[ReadStream(i)]) + 1)
  BY DEF PrefillWrite, FilledStreams
<1>2. ReadStream(i) \in Streams /\ ReadStream(i) \notin WriteStreams
  <2>1. \A c \in DOMAIN Counts : Counts[c] # 0
    BY CountFacts
  <2>. QED BY <2>1 DEF ReadStream, ReadStreams, WriteStream, WriteStreams, Streams
<1>3. /\ Len(stored[ReadStream(i)]) \in Nat
      /\ \A j \in 1 .. Len(stored[ReadStream(i)]) :
           stored[ReadStream(i)][j] < Len(stored[ReadStream(i)]) + 1
  <2>1. stored[ReadStream(i)] \in Seq(Nat)
    BY <1>2 DEF ReadInv, Streams
  <2>2. \A j \in 1 .. Len(stored[ReadStream(i)]) : stored[ReadStream(i)][j] = j
    BY DEF ReadInv
  <2>. QED BY <2>1, <2>2
<1>4. Len(stored[ReadStream(i)]) + 1 \in Nat
  BY <1>3
<1>5. \E s \in Streams, stamp \in Nat :
        /\ Write(s, stamp)
        /\ \A j \in 1 .. Len(stored[s]) : stored[s][j] < stamp
        /\ s \in WriteStreams => stored[s] = <<>> /\ stamp = 1
  BY <1>1, <1>2, <1>3, <1>4
<1>. QED BY <1>5 DEF PrefillWrite, Fill

\* The pre-warm frame is the first of its stream.
LEMMA PrewarmIsFill ==
    ASSUME PrewarmWrite
    PROVE  Fill(Streams)
<1>1. PICK c \in DOMAIN Counts, i \in 1 .. MaxK :
        stored[WriteStream(Counts[c], i)] = <<>> /\ Write(WriteStream(Counts[c], i), 1)
  BY DEF PrewarmWrite, Prewarm, Cold
<1>2. WriteStream(Counts[c], i) \in Streams /\ 1 \in Nat
      /\ Len(stored[WriteStream(Counts[c], i)]) = 0
  BY <1>1, WriterStreams DEF Streams
<1>3. \E s \in Streams, stamp \in Nat :
        /\ Write(s, stamp)
        /\ \A j \in 1 .. Len(stored[s]) : stored[s][j] < stamp
        /\ s \in WriteStreams => stored[s] = <<>> /\ stamp = 1
  BY <1>1, <1>2
<1>. QED BY <1>3 DEF PrewarmWrite, Fill

\* At the end of the pre-warm no writer's stream is empty.
LEMMA PrewarmEndsWarm ==
    ASSUME PrewarmEnd
    PROVE  \A c \in DOMAIN Counts, i \in 1 .. MaxK : i <= Counts[c] => Stream(c, i) # <<>>
<1>. SUFFICES ASSUME NEW c \in DOMAIN Counts, NEW i \in 1 .. MaxK, i <= Counts[c]
              PROVE  Stream(c, i) # <<>>
  OBVIOUS
<1>1. Cold(DOMAIN Counts) = {}
  BY DEF PrewarmEnd, AllWarm
<1>2. <<c, i>> \notin Cold(DOMAIN Counts)
  BY <1>1
<1>. QED BY <1>2 DEF Cold, Stream

\* A step of this workload is one that both workloads take, with K readers beside the
\* K writers.
LEMMA NextIsCommonStep ==
    ASSUME CrewOfPairs, ReadInv, WarmInv, [Next]_vars,
           NEW n \in 1 .. 2 * MaxK, n = 2 * K
    PROVE  CommonStep(Streams, n, "launch")
<1>0. /\ sweep \in DOMAIN Counts /\ MaxK \in Nat /\ K \in 1 .. MaxK
      /\ \A i \in Writers : i \in 1 .. MaxK /\ i <= Counts[sweep]
  <2>1. sweep \in DOMAIN Counts /\ MaxK \in Nat
    BY CountsAssumption DEF CrewOfPairs
  <2>2. K \in 1 .. MaxK
    BY <2>1, CountFacts DEF K
  <2>. QED BY <2>1, <2>2 DEF Writers, K
<1>1. CASE PrefillWrite \/ PrewarmWrite
  BY <1>1, PrefillIsFill, PrewarmIsFill DEF CommonStep
<1>2. CASE PrefillEnd
  BY <1>2 DEF PrefillEnd, FillEnd, CommonStep
<1>3. CASE PrewarmEnd
  BY <1>0, <1>3, PrewarmEndsWarm DEF PrewarmEnd, FillEnd, CommonStep
<1>4. CASE FillThrows
  BY <1>4 DEF FillThrows, Filling, CommonStep
<1>5. CASE Launch(2 * K) \/ Spawn(2 * K) \/ SpawnThrows \/ EndWindow \/ Rethrow(2 * K)
  BY <1>5 DEF CommonStep
<1>6. CASE Collect(2 * K, "launch")
  <2>1. ASSUME main' = "launch", NEW i \in 1 .. Counts[sweep + 1]
        PROVE  Stream(sweep + 1, i) # <<>>
    <3>1. sweep + 1 \in DOMAIN Counts /\ Running
      BY <1>0, <1>6, <2>1, CountsAssumption DEF Collect, Running
    <3>2. Counts[sweep + 1] \in 1 .. MaxK
      BY <3>1, CountFacts
    <3>3. i \in 1 .. MaxK /\ i <= Counts[sweep + 1]
      BY <1>0, <3>2
    <3>. QED BY <3>1, <3>3 DEF WarmInv
  <2>. QED BY <1>6, <2>1 DEF CommonStep
<1>7. ASSUME NEW t \in Threads, ThreadStep(t) PROVE CommonStep(Streams, n, "launch")
  <2>1. CASE t \in Writers /\ WriterStep(t)
    BY <2>1 DEF CommonStep
  <2>2. CASE t \in Readers /\ ReaderStep(t)
    <3>1. t \in (1 .. n) \ Writers
      BY <1>0, <2>2 DEF Readers, Writers
    <3>2. at[t] \in Nat /\ ScanFrames \in Nat
      BY <1>7, ReadAssumption DEF ReadInv
    <3>3. ReaderScan(t) => /\ Count(t)
                           /\ \E ts \in Nat : at' = [at EXCEPT ![t] = ts]
                           /\ UNCHANGED stored
      <4>1. Advance(at[t]) \in Nat /\ 1 \in Nat
        BY <3>2 DEF Advance
      <4>. QED BY <4>1 DEF ReaderScan
    <3>4. ReaderMove(t)
      BY <2>2, <3>3 DEF ReaderStep, ReaderThrows, ReaderMove
    <3>. QED BY <3>1, <3>4 DEF CommonStep
  <2>. QED BY <1>7, <2>1, <2>2 DEF ThreadStep
<1>8. CASE UNCHANGED vars
  BY <1>8 DEF CommonStep
<1>. QED
  BY <1>1, <1>2, <1>3, <1>4, <1>5, <1>6, <1>7, <1>8 DEF Next, MainStep, Over

\* No frame is taken away from a stream.
LEMMA NextPreservesWarmth ==
    ASSUME CrewOfPairs, ReadInv, WarmInv, StreamInv(Streams), [Next]_vars
    PROVE  WarmInv'
<1>. SUFFICES ASSUME main' = "launch" \/ Running',
                     NEW c \in DOMAIN Counts, NEW i \in 1 .. MaxK, i <= Counts[c]
              PROVE  stored'[WriteStream(Counts[c], i)] # <<>>
  BY DEF WarmInv, Stream
<1>1. CASE main = "launch" \/ Running
  <2>1. Stream(c, i) # <<>>
    BY <1>1 DEF WarmInv
  <2>2. CASE stored' = stored
    BY <2>1, <2>2 DEF Stream
  <2>3. CASE \E t \in Writers : WriterWrite(t)
    <3>1. PICK t \in Writers : WriterWrite(t)
      BY <2>3
    <3>2. PICK n \in 1 .. 2 * MaxK : n = 2 * K
      BY CountFacts DEF CrewOfPairs, K
    <3>3. sweep \in DOMAIN Counts /\ K <= n /\ CrewInv(n)
      <4>1. sweep \in DOMAIN Counts /\ CrewInv(n)
        BY <3>2 DEF CrewOfPairs
      <4>2. K \in Nat
        BY <4>1, CountFacts DEF K
      <4>. QED BY <3>2, <4>1, <4>2
    <3>4. WriteStreams \subseteq Streams
      BY DEF Streams
    <3>5. /\ stored'[WriteStream(K, t)] # <<>>
          /\ \A d \in DOMAIN Counts, j \in 1 .. MaxK :
               ~(d = sweep /\ j = t) => stored'[WriteStream(Counts[d], j)] = Stream(d, j)
      BY <3>1, <3>3, <3>4, WrittenFrame
    <3>. QED BY <2>1, <3>5 DEF K
  <2>. QED
    BY <1>1, <2>2, <2>3
       DEF Next, MainStep, Over, ThreadStep, vars, Running, PrefillWrite, PrefillEnd,
           PrewarmWrite, PrewarmEnd, FillThrows, MainThrows, Launch, Spawn, SpawnThrows,
           EndWindow, Rethrow, Collect, WriterStep, ReaderStep, Prepare, Arrive, Pass, Turn,
           ReaderScan, StopLoop, WriterThrows, ReaderThrows, Keep
<1>2. CASE ~(main = "launch" \/ Running)
  <2>1. PrewarmEnd
    BY <1>2 DEF Next, MainStep, Over, ThreadStep, vars, Running, PrefillWrite, PrefillEnd,
                PrewarmWrite, FillThrows, MainThrows, Launch, Spawn, SpawnThrows,
                EndWindow, Rethrow, Collect, WriterStep, ReaderStep, Prepare, Arrive, Pass,
                Turn, Count, WriterWrite, ReaderScan, StopLoop, WriterThrows, ReaderThrows,
                Keep
  <2>2. Stream(c, i) # <<>> /\ stored' = stored
    BY <2>1, PrewarmEndsWarm DEF PrewarmEnd
  <2>. QED BY <2>2 DEF Stream
<1>. QED BY <1>1, <1>2

\* Nothing has started, nothing is written, counted or reported.
LEMMA InitEstablishesInv == Init => Inv
<1>. SUFFICES ASSUME Init PROVE Inv
  OBVIOUS
<1>1. Idle("prefill", Streams) /\ WriteStreams \subseteq Streams
  BY DEF Init, Streams
<1>2. TypeInv /\ StreamInv(Streams) /\ CountInv /\ ReportInv
  BY <1>1, IdleHasTypes, IdleHasStreams, IdleHasReports
<1>c. CrewOfPairs
  BY <1>1, IdleHasCrew, CountFacts DEF CrewOfPairs, K
<1>3. WarmInv
  BY <1>1 DEF Idle, WarmInv, Running
<1>. QED BY <1>2, <1>3, <1>c, InitEstablishesReads DEF Inv

\* Every step preserves it.
LEMMA NextPreservesInv == Inv /\ [Next]_vars => Inv'
<1>. SUFFICES ASSUME Inv, [Next]_vars PROVE Inv'
  OBVIOUS
<1>1. PICK n \in 1 .. 2 * MaxK : n = 2 * K
  BY CountFacts DEF Inv, CrewOfPairs, K
<1>2. /\ sweep \in DOMAIN Counts /\ CrewInv(n) /\ K <= n
      /\ TypeInv /\ StreamInv(Streams) /\ CountInv /\ ReportInv
  <2>1. sweep \in DOMAIN Counts /\ CrewInv(n)
    BY <1>1 DEF Inv, CrewOfPairs
  <2>2. K \in Nat
    BY <2>1, CountFacts DEF K
  <2>. QED BY <1>1, <2>1, <2>2 DEF Inv
<1>3. CommonStep(Streams, n, "launch") /\ WriteStreams \subseteq Streams
  BY <1>1, NextIsCommonStep DEF Inv, Streams
<1>c. CrewOfPairs'
  <2>1. /\ sweep' \in DOMAIN Counts
        /\ sweep' = sweep => CrewInv(n)'
        /\ sweep' # sweep => \A m \in 1 .. 2 * MaxK : CrewInv(m)'
    BY <1>2, <1>3, StepKeepsCrew
  <2>2. CASE sweep' = sweep
    BY <1>1, <2>1, <2>2 DEF CrewOfPairs, K
  <2>3. CASE sweep' # sweep
    BY <2>1, <2>3, CountFacts DEF CrewOfPairs, K
  <2>. QED BY <2>2, <2>3
<1>4. ReadInv' /\ WarmInv'
  BY NextPreservesReads, NextPreservesWarmth DEF Inv
<1>5. TypeInv'
  BY <1>2, <1>3, StepKeepsTypes
<1>6. StreamInv(Streams)'
  BY <1>2, <1>3, StepKeepsStreams
<1>7. CountInv' /\ ReportInv'
  BY <1>2, <1>3, StepKeepsReports
<1>. QED BY <1>c, <1>4, <1>5, <1>6, <1>7 DEF Inv

\* What the invariant says of the types.
LEMMA InvHasTypes == Inv => TypeOK
<1>. SUFFICES ASSUME Inv PROVE TypeOK
  OBVIOUS
<1>1. /\ main \in MainLocations /\ pc \in [Threads -> ThreadLocations]
      /\ slots \in [Threads -> Threads \cup {None}] /\ sweep \in DOMAIN Counts
  <2>1. PICK n \in 1 .. 2 * MaxK : n = 2 * K
    BY CountFacts DEF Inv, CrewOfPairs, K
  <2>2. sweep \in DOMAIN Counts /\ CrewInv(n)
    BY <2>1 DEF Inv, CrewOfPairs
  <2>. QED BY <2>2 DEF CrewInv, PlaceInv, FailureInv
<1>2. /\ at \in [Threads -> Nat] /\ stored \in [Streams -> Seq(Nat)]
  BY DEF Inv, StreamInv
<1>3. stored \in [DOMAIN stored -> Seq(Nat)] /\ DOMAIN stored = Streams
  BY <1>2
<1>4. TypeInv
  BY DEF Inv
<1>. QED BY <1>1, <1>2, <1>3, <1>4 DEF TypeOK, SubTypeOK, TypeInv, MainLocations, Streams, Report

------------------------------------------------------------------------------
(* Theorems *)

\* The inductive invariant holds in every reachable state.
THEOREM InvIsInvariant == Spec => []Inv
BY InitEstablishesInv, NextPreservesInv, PTL DEF Spec

\* "WrcLatch latch(K * 2);  // K writers + K readers" (write_read_contention.cpp:183):
\* nobody measures before all 2K threads have reached the latch.
THEOREM EveryoneStartsTogether == Spec => []StartTogether
<1>1. Inv => StartTogether
  BY CrewOfPairsSuffices DEF Inv
<1>. QED BY <1>1, InvIsInvariant, PTL

\* The turn of the sweep does not end, nor the next one begin, with a thread of its
\* own alive.
THEOREM NoThreadIsLeftBehind == Spec => []NoThreadOutlivesItsLocals
<1>1. Inv => NoThreadOutlivesItsLocals
  BY CrewOfPairsSuffices DEF Inv
<1>. QED BY <1>1, InvIsInvariant, PTL

\* thread_ex (write_read_contention.cpp:241, :252): a run that returns had no failed
\* call; one that throws passes on the failure of the first thread that had one.
THEOREM FailuresAreReported == Spec => []FirstFailureReported
<1>1. Inv => FirstFailureReported
  BY CrewOfPairsSuffices DEF Inv
<1>. QED BY <1>1, InvIsInvariant, PTL

\* Whatever the sizes, a reader's seek finds a frame and a whole scan after it.
THEOREM EveryScanIsComplete == Spec => []ScansAreComplete
<1>1. Inv => ScansAreComplete
  BY ReadInvSuffices DEF Inv
<1>. QED BY <1>1, InvIsInvariant, PTL

\* Every variable keeps its type; the latch's counter never goes below zero, for it
\* counts down no more often than there are threads to come.
THEOREM TypeCorrect == Spec => []TypeOK
BY InvIsInvariant, InvHasTypes, PTL

\* "Streams are unique per K so timestamps never collide across sweeps"
\* (write_read_contention.cpp:32-33): timestamps increase in every stream, those to read
\* and those to write, and no thread starts before the writers' streams are warm.
THEOREM StreamsStayInOrder == Spec => []StreamsInOrder
<1>1. Inv => StreamsInOrder
  BY StreamInvSuffices DEF Inv, CrewOfPairs
<1>. QED BY <1>1, InvIsInvariant, PTL

\* The counts and summaries of a sub-experiment (write_read_contention.cpp:252-283) are
\* those of its own threads, beside readers as without.
THEOREM ReportsMatchThreads == Spec => []ResultsMatchThreads
<1>1. Inv => ResultsMatchThreads
  BY ReportInvSuffices DEF Inv
<1>. QED BY <1>1, InvIsInvariant, PTL

==============================================================================
