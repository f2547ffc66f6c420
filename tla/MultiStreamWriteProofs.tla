------------------------ MODULE MultiStreamWriteProofs ------------------------
(***************************************************************************)
(* Safety of the multi_stream_write workload for every sweep, every number  *)
(* of turns and every combination of throwing calls.                        *)
(***************************************************************************)
EXTENDS MultiStreamWrite, SubExperimentProofs

\* The crew of a sub-experiment is its K writers.
CrewOfWriters == sweep \in DOMAIN Counts /\ CrewInv(K)

\* With it: counts and types, streams, and what is reported of them.
Inv == CrewOfWriters /\ TypeInv /\ StreamInv(WriteStreams) /\ CountInv /\ ReportInv

------------------------------------------------------------------------------
(* The initial state *)

\* Nothing has started, nothing is written, counted or reported.
LEMMA InitEstablishesInv == Init => Inv
<1>. SUFFICES ASSUME Init PROVE Inv
  OBVIOUS
<1>1. Idle("prewarm", WriteStreams)
  BY DEF Init
<1>2. TypeInv /\ StreamInv(WriteStreams) /\ CountInv /\ ReportInv
  BY <1>1, IdleHasTypes, IdleHasStreams, IdleHasReports
<1>c. CrewOfWriters
  BY <1>1, IdleHasCrew, CountFacts DEF CrewOfWriters, K
<1>. QED BY <1>2, <1>c DEF Inv

------------------------------------------------------------------------------
(* The steps *)

\* A step of this workload is one that both workloads take, with the writers alone.
LEMMA NextIsCommonStep ==
    ASSUME CrewOfWriters, [Next]_vars,
           NEW n \in 1 .. 2 * MaxK, n = K
    PROVE  CommonStep(WriteStreams, n, "prewarm")
<1>0. /\ sweep \in DOMAIN Counts /\ n \in Nat
      /\ Writers \subseteq 1 .. MaxK /\ Writers \subseteq 1 .. n
      /\ \A i \in Writers : i <= Counts[sweep]
  <2>1. sweep \in DOMAIN Counts
    BY DEF CrewOfWriters
  <2>2. K \in Nat /\ K <= n
    BY <2>1, CountFacts DEF K
  <2>3. n \in Nat /\ Writers \subseteq 1 .. MaxK /\ Writers \subseteq 1 .. n
    BY <2>1, <2>2, Situation
  <2>. QED BY <2>1, <2>2, <2>3 DEF Writers, K
<1>1. CASE PrewarmWrite
  <2>1. PICK i \in 1 .. MaxK :
          /\ stored[WriteStream(Counts[sweep], i)] = <<>>
          /\ Write(WriteStream(Counts[sweep], i), 1)
    BY <1>1 DEF PrewarmWrite, Prewarm, Cold
  <2>2. WriteStream(Counts[sweep], i) \in WriteStreams /\ 1 \in Nat
        /\ Len(stored[WriteStream(Counts[sweep], i)]) = 0
    BY <1>0, <2>1, WriterStreams
  <2>3. \E s \in WriteStreams, stamp \in Nat :
          /\ Write(s, stamp)
          /\ \A j \in 1 .. Len(stored[s]) : stored[s][j] < stamp
          /\ s \in WriteStreams => stored[s] = <<>> /\ stamp = 1
    BY <2>1, <2>2
  <2>. QED BY <1>1, <2>3 DEF PrewarmWrite, Fill, CommonStep
<1>2. CASE PrewarmEnd
  <2>1. ASSUME NEW i \in Writers PROVE Stream(sweep, i) # <<>>
    <3>1. i \in 1 .. MaxK /\ i <= Counts[sweep] /\ Cold({sweep}) = {}
      BY <1>0, <1>2 DEF PrewarmEnd, AllWarm
    <3>2. <<sweep, i>> \notin Cold({sweep}) /\ <<sweep, i>> \in {sweep} \X (1 .. MaxK)
      BY <3>1
    <3>. QED BY <3>1, <3>2 DEF Cold, Stream
  <2>. QED BY <1>2, <2>1 DEF PrewarmEnd, FillEnd, CommonStep
<1>3. CASE PrewarmThrows
  BY <1>3 DEF PrewarmThrows, Filling, CommonStep
<1>4. CASE Launch(K) \/ Spawn(K) \/ SpawnThrows \/ EndWindow \/ Rethrow(K)
  BY <1>4 DEF CommonStep
<1>5. CASE Collect(K, "prewarm")
  <2>1. main' # "launch"
    BY <1>5 DEF Collect
  <2>. QED BY <1>5, <2>1 DEF CommonStep
<1>6. CASE (\E t \in Writers : WriterStep(t)) \/ UNCHANGED vars
  BY <1>6 DEF CommonStep
<1>. QED
  BY <1>1, <1>2, <1>3, <1>4, <1>5, <1>6 DEF Next, MainStep, Over

\* Every step preserves it.
LEMMA NextPreservesInv == Inv /\ [Next]_vars => Inv'
<1>. SUFFICES ASSUME Inv, [Next]_vars PROVE Inv'
  OBVIOUS
<1>1. PICK n \in 1 .. 2 * MaxK : n = K
  BY CountFacts DEF Inv, CrewOfWriters, K
<1>2. /\ sweep \in DOMAIN Counts /\ CrewInv(n) /\ K <= n
      /\ TypeInv /\ StreamInv(WriteStreams) /\ CountInv /\ ReportInv
  <2>1. n \in Nat
    BY CrewFacts
  <2>. QED BY <1>1, <2>1 DEF Inv, CrewOfWriters
<1>3. CommonStep(WriteStreams, n, "prewarm")
  BY <1>1, NextIsCommonStep DEF Inv
<1>c. CrewOfWriters'
  <2>1. /\ sweep' \in DOMAIN Counts
        /\ sweep' = sweep => CrewInv(n)'
        /\ sweep' # sweep => \A m \in 1 .. 2 * MaxK : CrewInv(m)'
    BY <1>2, <1>3, StepKeepsCrew
  <2>2. CASE sweep' = sweep
    BY <1>1, <2>1, <2>2 DEF CrewOfWriters, K
  <2>3. CASE sweep' # sweep
    BY <2>1, <2>3, CountFacts DEF CrewOfWriters, K
  <2>. QED BY <2>2, <2>3
<1>4. TypeInv'
  BY <1>2, <1>3, StepKeepsTypes
<1>5. StreamInv(WriteStreams)'
  BY <1>2, <1>3, StepKeepsStreams
<1>6. CountInv' /\ ReportInv'
  BY <1>2, <1>3, StepKeepsReports
<1>. QED BY <1>c, <1>4, <1>5, <1>6 DEF Inv

\* What it says of the crew of this workload.
LEMMA CrewOfWritersSuffices ==
    CrewOfWriters => NoThreadOutlivesItsLocals /\ FirstFailureReported
<1>. SUFFICES ASSUME CrewOfWriters
              PROVE  NoThreadOutlivesItsLocals /\ FirstFailureReported
  OBVIOUS
<1>1. PICK n \in 1 .. 2 * MaxK : n = K
  BY CountFacts DEF CrewOfWriters, K
<1>2. CrewInv(n)
  BY <1>1 DEF CrewOfWriters
<1>. QED BY <1>2, CrewInvSuffices

------------------------------------------------------------------------------
(* Theorems *)

\* The inductive invariant holds in every reachable state.
THEOREM InvIsInvariant == Spec => []Inv
BY InitEstablishesInv, NextPreservesInv, PTL DEF Spec

\* "Unique stream names per K so timestamps never collide across sweeps."
\* (multi_stream_write.cpp:120): whatever the sweep, timestamps increase in every stream,
\* and no thread starts before the streams of its sub-experiment are warm.
THEOREM StreamsStayInOrder == Spec => []StreamsInOrder
<1>1. Inv => StreamsInOrder
  BY StreamInvSuffices DEF Inv, CrewOfWriters
<1>. QED BY <1>1, InvIsInvariant, PTL

\* "Merge per-writer latency histograms into one Stats for the result."
\* (multi_stream_write.cpp:186) and the counts beside it: whatever the sweep and however
\* long the calls take, each report counts the frames that its sub-experiment added, its
\* figures increase to the longest call of any of its writers, and its median is no less
\* than the 95th percentile of one of them.
THEOREM ReportsMatchThreads == Spec => []ResultsMatchThreads
<1>1. Inv => ResultsMatchThreads
  BY ReportInvSuffices DEF Inv
<1>. QED BY <1>1, InvIsInvariant, PTL

\* "Propagate first thread exception (if any) back to the caller."
\* (multi_stream_write.cpp:178): a run that returns had no failed call; one that throws
\* passes on the failure of the first thread that had one.
THEOREM FailuresAreReported == Spec => []FirstFailureReported
<1>1. Inv => FirstFailureReported
  BY CrewOfWritersSuffices DEF Inv
<1>. QED BY <1>1, InvIsInvariant, PTL

\* Latch and slots of a turn of the sweep (multi_stream_write.cpp:142, :146) are gone when it
\* is over, and so are the threads that refer to them.
THEOREM NoThreadIsLeftBehind == Spec => []NoThreadOutlivesItsLocals
<1>1. Inv => NoThreadOutlivesItsLocals
  BY CrewOfWritersSuffices DEF Inv
<1>. QED BY <1>1, InvIsInvariant, PTL

==============================================================================
