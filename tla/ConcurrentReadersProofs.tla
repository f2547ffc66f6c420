----------------------- MODULE ConcurrentReadersProofs -----------------------
(***************************************************************************)
(* Safety of the concurrent_readers workload for every sweep, every size   *)
(* and every combination of throwing calls.                                *)
(***************************************************************************)
EXTENDS ConcurrentReaders, FiniteSetTheorems, SequenceTheorems, WellFoundedInduction, TLAPS

Running == main \in {"spawn", "window", "join"}

\* The threads the latch is still waiting for.
Unarrived == {t \in Crew : pc[t] \in {"off", "prepare", "start"}}

WriterLocations == {"off", "prepare", "start", "waiting", "loop", "stamped",
                    "sync", "lastSync", "done", "killed"}
ReaderLocations == {"off", "start", "waiting", "open", "loop", "scan", "done", "killed"}

\* Where the threads stand, given where the main thread stands.
LocationInv ==
    /\ pc[Writer] \in WriterLocations
    /\ \A r \in Readers : pc[r] \in ReaderLocations
    /\ main \in {"prefill", "prefillSync", "launch", "returned", "threw"} =>
          \A t \in Threads : pc[t] \in {"off", "done"}
    /\ main = "terminated" => \A t \in Threads : pc[t] = "killed"
    /\ Running => \A t \in Threads : pc[t] # "killed" /\ (t >= spawned => pc[t] = "off")
    /\ main = "spawn" => spawned <= K
    /\ main \in {"window", "join"} => spawned = K + 1

\* The latch never counts fewer threads than it has to wait for (it counts one
\* more when the writer's preparation threw), and is at zero once anybody is through.
LatchInv ==
    Running => /\ latch >= Cardinality(Unarrived)
               /\ (\E t \in Threads : Measuring(t)) => latch = 0

ThreadInv == TypeOK /\ LocationInv /\ LatchInv

\* Every stored frame is older than the next one to be written.
TimestampInv ==
    /\ TimestampsIncrease
    /\ main \in {"prefill", "prefillSync"} =>
          \A i \in 1 .. Len(stored) : stored[i] = TsStart + (i - 1) * TsStep
    /\ main \in {"launch", "spawn", "window", "join"} =>
          \A i \in 1 .. Len(stored) : stored[i] < nextTs
    /\ pc[Writer] = "stamped" =>
          ts < nextTs /\ \A i \in 1 .. Len(stored) : stored[i] < ts

\* bytes_since_sync is what the frames outside the last boundary weigh; it
\* passes the threshold by one frame at most, and only between a write and the
\* sync that follows it; before a writer's first frame everything is synced.
LossInv ==
    /\ unsynced = (Len(stored) - synced) * FrameSize
    /\ unsynced < DurabilityBytes + FrameSize
    /\ main = "prefill" => unsynced < DurabilityBytes
    /\ pc[Writer] \in {"loop", "stamped"} => unsynced < DurabilityBytes
    /\ main \in {"launch", "returned"} => unsynced = 0
    /\ Running => /\ pc[Writer] \in {"off", "prepare", "start", "waiting"} => unsynced = 0
                  /\ pc[Writer] = "done" /\ ~writerEx => unsynced = 0

\* A failed call is known to the main thread, or to the writer's catch block.
FailureInv ==
    /\ failed => \/ main \in {"threw", "terminated"}
                 \/ Running /\ writerEx
    /\ main = "threw" => failed
    /\ Running /\ writerEx => failed /\ pc[Writer] = "done"

\* The prefilled frames stay in front, each with the timestamp of its number.
PrefillInv ==
    /\ \A i \in 1 .. Len(stored) : i <= PrefillFrames => stored[i] = TsStart + (i - 1) * TsStep
    /\ main = "launch" \/ Running => Len(stored) >= PrefillFrames

\* An iterator has been opened on at least these, and a scan has its frames before it.
ReadInv ==
    \A r \in Readers :
        /\ pc[r] \in {"loop", "scan"} => PrefillFrames <= opened[r] /\ opened[r] <= Len(stored)
        /\ pc[r] \notin {"scan", "killed"} => scanned[r] = 0
        /\ pc[r] = "scan" => cursor[r] + (ScanFrames - scanned[r]) - 1 <= opened[r]

\* The writers' counts so far account for the frames: those of the sub-experiments that
\* are over, and that of the one under way.
Total(subs) == FoldLeft(LAMBDA n, sr : n + sr.writer_ops, PrefillFrames, subs)

OpsInv ==
    /\ Total(results) \in Nat
    /\ main \in {"prefill", "prefillSync"} => results = <<>>
    /\ main \in {"launch", "returned"} => Total(results) = Len(stored)
    /\ Running => Total(results) + writerOps = Len(stored)

------------------------------------------------------------------------------
(* Facts about the constants *)

\* The crew of a sub-experiment: the writer and k of the readers.
LEMMA CrewFacts ==
  ASSUME NEW i \in DOMAIN ReaderCounts
  PROVE  /\ ReaderCounts[i] \in Nat \ {0}
         /\ 0 .. ReaderCounts[i] \subseteq Threads
         /\ 1 .. ReaderCounts[i] \subseteq Readers
         /\ Writer \in 0 .. ReaderCounts[i]
         /\ IsFiniteSet(0 .. ReaderCounts[i])
         /\ Cardinality(0 .. ReaderCounts[i]) = ReaderCounts[i] + 1
<1>1. ReaderCounts[i] \in Nat \ {0}
  BY SweepAssumption, ElementOfSeq, LenProperties
<1>2. 1 .. ReaderCounts[i] \subseteq Readers
  BY DEF Readers
<1>3. 0 .. ReaderCounts[i] \subseteq Threads
  BY <1>1, <1>2 DEF Threads, Writer
<1>4. /\ IsFiniteSet(0 .. ReaderCounts[i])
      /\ Cardinality(0 .. ReaderCounts[i]) = ReaderCounts[i] + 1
  BY <1>1, FS_Interval
<1> QED
  BY <1>1, <1>2, <1>3, <1>4 DEF Writer

\* Threads are numbered, and the writer is not a reader.
LEMMA ThreadFacts ==
  /\ Readers \subseteq Nat \ {0}
  /\ Threads = {Writer} \cup Readers
  /\ Threads \subseteq Nat
  /\ Writer = 0
  /\ Writer \in Threads
  /\ Writer \notin Readers
BY DEF Readers, Threads, Writer

\* The unarrived threads are a finite part of the crew.
LEMMA UnarrivedFinite ==
  ASSUME sweep \in DOMAIN ReaderCounts
  PROVE  /\ IsFiniteSet(Unarrived)
         /\ Cardinality(Unarrived) \in Nat
         /\ Cardinality(Unarrived) = 0 <=> Unarrived = {}
<1>1. IsFiniteSet(Crew)
  BY CrewFacts DEF Crew, K
<1>2. IsFiniteSet(Unarrived)
  BY <1>1, FS_Subset DEF Unarrived
<1> QED
  BY <1>2, FS_CardinalityType, FS_EmptySet

\* A step after which nobody is unarrived who was not before keeps the latch ahead.
LEMMA FewerUnarrived ==
  ASSUME TypeOK, sweep' = sweep, Unarrived' \subseteq Unarrived
  PROVE  /\ Cardinality(Unarrived') \in Nat
         /\ Cardinality(Unarrived') <= Cardinality(Unarrived)
<1>1. IsFiniteSet(Unarrived)
  BY UnarrivedFinite DEF TypeOK
<1> QED
  BY <1>1, FS_Subset, FS_CardinalityType

\* A step that leaves the latch alone keeps its lead when nobody becomes
\* unarrived and nobody starts measuring but at zero.
LEMMA LatchKept ==
  ASSUME TypeOK, LatchInv, UNCHANGED <<sweep, latch>>, Running' => Running,
         Unarrived' \subseteq Unarrived,
         \A u \in Threads : Measuring(u)' => Measuring(u) \/ latch = 0
  PROVE  LatchInv'
<1>1. Cardinality(Unarrived) \in Nat /\ latch \in Nat
  BY UnarrivedFinite DEF TypeOK
<1>2. Cardinality(Unarrived') \in Nat /\ Cardinality(Unarrived') <= Cardinality(Unarrived)
  BY FewerUnarrived
<1> QED
  BY <1>1, <1>2 DEF LatchInv

------------------------------------------------------------------------------
(* Types, locations and the latch *)

\* Timestamps and byte counts are natural numbers.
LEMMA ProductsAreNat ==
  ASSUME NEW m \in Nat, NEW n \in Nat
  PROVE  m * n \in Nat
OBVIOUS

\* A write leaves the backend well-typed.
LEMMA WriteTypes ==
  ASSUME TypeOK, NEW stamp \in Nat, Write(stamp)
  PROVE  stored' \in Seq(Nat) /\ synced' \in 0 .. Len(stored') /\ unsynced' \in Nat
BY SizesAssumption, AppendProperties DEF TypeOK, Write

\* Nothing has started.
LEMMA InitEstablishesThreadInv == Init => ThreadInv
<1> SUFFICES ASSUME Init PROVE ThreadInv
  OBVIOUS
<1>1. 1 \in DOMAIN ReaderCounts
  BY SweepAssumption, EmptySeq, LenProperties
<1>2. NotReading \in [Readers -> Nat] /\ NotReading \in [Readers -> 0 .. ScanFrames]
  BY SizesAssumption DEF NotReading
<1>3. pc \in [Threads -> ThreadLocations]
  BY DEF Init, ThreadLocations
<1>4. /\ opened \in [Readers -> Nat] /\ cursor \in [Readers -> Nat]
      /\ scanned \in [Readers -> 0 .. ScanFrames] /\ readerOps \in [Readers -> Nat]
  BY <1>2 DEF Init
<1>7. /\ results \in Seq([k : Nat, writer_ops : Nat, reader_ops : Seq(Nat)])
      /\ stored \in Seq(Nat) /\ synced \in 0 .. Len(stored)
  BY EmptySeq DEF Init
<1>5. TypeOK
  BY <1>1, <1>3, <1>4, <1>7, SizesAssumption DEF Init, TypeOK, MainLocations
<1>6. LocationInv /\ LatchInv
  BY ThreadFacts DEF Init, LocationInv, LatchInv, Running, WriterLocations, ReaderLocations
<1> QED
  BY <1>5, <1>6 DEF ThreadInv

\* Every step preserves types, locations and the latch's lead.
LEMMA NextPreservesThreadInv == ThreadInv /\ [Next]_vars => ThreadInv'
<1> SUFFICES ASSUME ThreadInv, [Next]_vars PROVE ThreadInv'
  OBVIOUS
<1> USE DEF ThreadInv, vars, progress, shared, writing, reading, backend
<1>crew. K \in Nat \ {0} /\ Crew \subseteq Threads /\ Writer \in Crew /\ 1 .. K \subseteq Readers
  BY CrewFacts DEF TypeOK, K, Crew
<1>threads. /\ Readers \subseteq Nat \ {0} /\ Threads = {Writer} \cup Readers /\ Threads \subseteq Nat
      /\ Writer = 0 /\ Writer \in Threads /\ Writer \notin Readers
  BY ThreadFacts
<1>unarrived. Cardinality(Unarrived) \in Nat
  BY UnarrivedFinite DEF TypeOK
<1>pc. pc \in [Threads -> ThreadLocations]
  BY DEF TypeOK
<1>1. CASE PrefillWrite
  <2>0. TsStart + Len(stored) * TsStep \in Nat
    <3>1. Len(stored) \in Nat /\ TsStep \in Nat /\ TsStart \in Nat
      BY SizesAssumption, LenProperties DEF TypeOK
    <3>2. Len(stored) * TsStep \in Nat
      BY <3>1, ProductsAreNat
    <3> QED
      BY <3>1, <3>2
  <2>1. TypeOK'
    <3>1. Write(TsStart + Len(stored) * TsStep)
      BY <1>1 DEF PrefillWrite
    <3>2. main' \in MainLocations
      BY <1>1 DEF PrefillWrite, TypeOK, MainLocations
    <3> QED
      BY <1>1, <2>0, <3>1, <3>2, WriteTypes DEF PrefillWrite, TypeOK
  <2>2. LocationInv'
    BY <1>1, <1>crew, <1>threads
       DEF PrefillWrite, Write, LocationInv, Running, WriterLocations, ReaderLocations, TypeOK, K
  <2>3. LatchInv'
    BY <1>1 DEF PrefillWrite, LatchInv, Running
  <2> QED
    BY <2>1, <2>2, <2>3
<1>2. CASE PrefillSync
  <2>1. TypeOK'
    BY <1>2, <1>crew, <1>threads, LenProperties
       DEF PrefillSync, SyncBoundary, TypeOK, MainLocations, ThreadLocations
  <2>2. LocationInv'
    BY <1>2, <1>crew, <1>threads
       DEF PrefillSync, SyncBoundary, LocationInv, Running, WriterLocations, ReaderLocations, TypeOK, K
  <2>3. LatchInv'
    BY <1>2 DEF PrefillSync, LatchInv, Running
  <2> QED
    BY <2>1, <2>2, <2>3
<1>3. CASE PrefillEnd
  <2>0. TsStart + PrefillFrames * TsStep \in Nat
    BY SizesAssumption, ProductsAreNat
  <2>1. TypeOK'
    BY <1>3, <1>crew, <1>threads, <2>0
       DEF PrefillEnd, TypeOK, MainLocations, ThreadLocations
  <2>2. LocationInv'
    BY <1>3, <1>crew, <1>threads
       DEF PrefillEnd, LocationInv, Running, WriterLocations, ReaderLocations, TypeOK, K
  <2>3. LatchInv'
    BY <1>3 DEF PrefillEnd, LatchInv, Running
  <2> QED
    BY <2>1, <2>2, <2>3
<1>4. CASE PrefillThrows
  <2>1. TypeOK'
    BY <1>4, <1>crew, <1>threads
       DEF PrefillThrows, Throws, TypeOK, MainLocations, ThreadLocations
  <2>2. LocationInv'
    BY <1>4, <1>crew, <1>threads
       DEF PrefillThrows, Throws, LocationInv, Running, WriterLocations, ReaderLocations, TypeOK, K
  <2>3. LatchInv'
    BY <1>4 DEF PrefillThrows, LatchInv, Running
  <2> QED
    BY <2>1, <2>2, <2>3
<1>5. CASE Launch
  <2>1. TypeOK'
    <3>1. NotReading \in [Readers -> Nat]
      BY DEF NotReading
    <3>2. pc' \in [Threads -> ThreadLocations]
      BY <1>5 DEF Launch, ThreadLocations
    <3>3. opened' \in [Readers -> Nat] /\ readerOps' \in [Readers -> Nat]
      BY <1>5, <3>1 DEF Launch
    <3>4. main' \in MainLocations /\ spawned' \in Nat /\ writerOps' \in Nat
      BY <1>5 DEF Launch, MainLocations
    <3>5. latch' \in Nat
      BY <1>5, <1>crew DEF Launch, LatchSize
    <3>6. stop' \in BOOLEAN /\ writerEx' \in BOOLEAN
      BY <1>5 DEF Launch
    <3>7. UNCHANGED <<sweep, results, nextTs, ts, cursor, scanned, backend, failed>>
      BY <1>5 DEF Launch
    <3> QED
      BY <3>2, <3>3, <3>4, <3>5, <3>6, <3>7 DEF TypeOK
  <2>2. LocationInv'
    BY <1>5, <1>crew, <1>threads DEF Launch, LocationInv, Running, WriterLocations, ReaderLocations, TypeOK, K
  <2>3. Unarrived' = 0 .. K
    BY <1>5, <1>crew DEF Launch, Unarrived, Crew, K
  <2>4. Cardinality(Unarrived') = latch'
    BY <1>5, <2>3, CrewFacts DEF Launch, LatchSize, TypeOK, K
  <2>5. \A t \in Threads : ~Measuring(t)'
    BY <1>5 DEF Launch, Measuring
  <2>6. LatchInv'
    BY <2>1, <2>4, <2>5 DEF LatchInv, TypeOK
  <2> QED
    BY <2>1, <2>2, <2>6
<1>6. CASE Spawn
  <2>1. spawned \in Crew /\ spawned \in Nat /\ pc[spawned] = "off"
    BY <1>6, <1>crew DEF Spawn, LocationInv, Running, TypeOK, Crew
  <2>2. pc' \in [Threads -> ThreadLocations] /\ main' \in MainLocations
    BY <1>6 DEF Spawn, TypeOK, MainLocations, ThreadLocations
  <2>3. TypeOK'
    BY <1>6, <2>1, <2>2 DEF Spawn, TypeOK
  <2>4. \A t \in Threads : t # spawned => pc'[t] = pc[t]
    BY <1>6 DEF Spawn, TypeOK
  <2>5. pc'[spawned] = IF spawned = Writer THEN "prepare" ELSE "start"
    BY <1>6, <1>crew, <2>1 DEF Spawn, TypeOK
  <2>6. LocationInv'
    BY <1>6, <1>crew, <1>threads, <2>1, <2>4, <2>5 DEF Spawn, LocationInv, Running, WriterLocations, ReaderLocations, TypeOK, K
  <2>7. Unarrived' \subseteq Unarrived
    BY <1>6, <1>crew, <2>1, <2>4 DEF Spawn, Unarrived, Crew, K
  <2>8. LatchInv'
    BY <1>6, <1>crew, <1>unarrived, <2>1, <2>4, <2>5, <2>7, FewerUnarrived
       DEF Spawn, Running, LatchInv, Measuring, TypeOK
  <2> QED
    BY <2>3, <2>6, <2>8
<1>7. CASE SpawnThrows
  <2>1. TypeOK'
    BY <1>7, <1>crew, <1>threads
       DEF SpawnThrows, Throws, Terminate, TypeOK, MainLocations, ThreadLocations
  <2>2. LocationInv'
    BY <1>7, <1>crew, <1>threads
       DEF SpawnThrows, Throws, Terminate, LocationInv, Running, WriterLocations, ReaderLocations, TypeOK, K
  <2>3. LatchInv'
    BY <1>7 DEF SpawnThrows, Terminate, LatchInv, Running
  <2> QED
    BY <2>1, <2>2, <2>3
<1>8. CASE EndWindow
  <2>1. TypeOK'
    BY <1>8, <1>crew, <1>threads
       DEF EndWindow, TypeOK, MainLocations, ThreadLocations
  <2>2. LocationInv'
    BY <1>8, <1>crew, <1>threads
       DEF EndWindow, LocationInv, Running, WriterLocations, ReaderLocations, TypeOK, K
  <2>3. Unarrived' \subseteq Unarrived
    BY <1>8, <1>crew, <1>threads DEF EndWindow, Unarrived, Crew, K, LocationInv, Running
  <2>4. \A u \in Threads : Measuring(u)' => Measuring(u) \/ latch = 0
    BY <1>8, <1>threads, <1>pc DEF EndWindow, Measuring
  <2>5. LatchInv'
    BY <1>8, <2>3, <2>4, LatchKept DEF EndWindow, Running
  <2> QED
    BY <2>1, <2>2, <2>5
<1>9. CASE Rethrow
  <2>1. TypeOK'
    BY <1>9 DEF Rethrow, TypeOK, MainLocations, ThreadLocations
  <2>2. \A t \in Threads : pc[t] \in {"off", "done"}
    BY <1>9, <1>crew, <1>threads DEF Rethrow, AllJoined, LocationInv, Running, Crew
  <2>3. LocationInv' /\ LatchInv'
    BY <1>9, <1>threads, <2>2 DEF Rethrow, LocationInv, Running, WriterLocations, ReaderLocations, LatchInv
  <2> QED
    BY <2>1, <2>3
<1>10. CASE Collect
  <2>1. sweep' \in DOMAIN ReaderCounts
    BY <1>10, SweepAssumption, LenProperties DEF Collect, NextSweep, TypeOK
  <2>2. SubResult \in [k : Nat, writer_ops : Nat, reader_ops : Seq(Nat)]
    <3>1. [r \in 1 .. K |-> readerOps[r]] \in [1 .. K -> Nat]
      BY <1>crew DEF TypeOK
    <3>2. [r \in 1 .. K |-> readerOps[r]] \in Seq(Nat)
      BY <1>crew, <3>1, SeqDef
    <3> QED
      BY <1>crew, <3>2 DEF SubResult, TypeOK
  <2>3. TypeOK'
    BY <1>10, <2>1, <2>2, AppendProperties DEF Collect, NextSweep, TypeOK, MainLocations, ThreadLocations
  <2>4. \A t \in Threads : pc[t] \in {"off", "done"}
    BY <1>10, <1>crew, <1>threads DEF Collect, AllJoined, LocationInv, Running, Crew
  <2>5. LocationInv' /\ LatchInv'
    BY <1>10, <1>threads, <2>4 DEF Collect, NextSweep, LocationInv, Running, WriterLocations, ReaderLocations, LatchInv
  <2> QED
    BY <2>3, <2>5
<1>11. ASSUME NEW t \in Threads, Arrive(t) PROVE ThreadInv'
  <2>1. pc[t] \notin {"off", "done", "killed"}
    BY <1>11 DEF Arrive
  <2>2. Running
    BY <2>1 DEF LocationInv, Running, TypeOK, MainLocations
  <2>3. t < spawned /\ spawned <= K + 1
    BY <1>threads, <1>crew, <2>1, <2>2 DEF LocationInv, Running, TypeOK
  <2>4. t \in Unarrived /\ sweep' = sweep
    BY <1>11, <1>crew, <1>threads, <2>3 DEF Arrive, Unarrived, Crew, TypeOK
  <2>5. IsFiniteSet(Unarrived) /\ Cardinality(Unarrived) # 0
    BY <2>4, UnarrivedFinite DEF TypeOK
  <2>6. latch # 0 /\ latch' = latch - 1 /\ latch' \in Nat
    BY <1>11, <1>unarrived, <2>2, <2>5 DEF Arrive, LatchInv, TypeOK
  <2>7. TypeOK'
    BY <1>11, <2>6 DEF Arrive, Goto, TypeOK, MainLocations, ThreadLocations
  <2>8. LocationInv'
    BY <1>11, <1>crew, <1>threads DEF Arrive, Goto, LocationInv, Running, WriterLocations, ReaderLocations, TypeOK, K
  <2>9. Unarrived' = Unarrived \ {t}
    BY <1>11, <1>crew, <2>4 DEF Arrive, Goto, Unarrived, Crew, K, TypeOK
  <2>10. Cardinality(Unarrived') = Cardinality(Unarrived) - 1
    BY <2>4, <2>5, <2>9, FS_RemoveElement
  <2>11. \A u \in Threads : ~Measuring(u)'
    BY <1>11, <2>2, <2>6 DEF Arrive, Goto, Measuring, LatchInv, TypeOK
  <2>12. LatchInv'
    BY <1>unarrived, <2>2, <2>6, <2>10, <2>11 DEF LatchInv, TypeOK
  <2> QED
    BY <2>7, <2>8, <2>12
<1>12. ASSUME NEW t \in Threads, Pass(t) PROVE ThreadInv'
  <2>1. TypeOK'
    BY <1>12, <1>crew, <1>threads
       DEF Pass, Goto, TypeOK, MainLocations, ThreadLocations
  <2>2. LocationInv'
    BY <1>12, <1>crew, <1>threads
       DEF Pass, Goto, LocationInv, Running, WriterLocations, ReaderLocations, TypeOK, K
  <2>3. Unarrived' \subseteq Unarrived
    BY <1>12, <1>crew, <1>threads DEF Pass, Goto, Unarrived, Crew, K, LocationInv, Running
  <2>4. \A u \in Threads : Measuring(u)' => Measuring(u) \/ latch = 0
    BY <1>12, <1>threads, <1>pc DEF Pass, Goto, Measuring
  <2>5. LatchInv'
    BY <1>12, <2>3, <2>4, LatchKept DEF Pass, Running
  <2> QED
    BY <2>1, <2>2, <2>5
<1>13. CASE WriterPrepare
  <2>1. TypeOK'
    BY <1>13, <1>crew, <1>threads
       DEF WriterPrepare, Goto, TypeOK, MainLocations, ThreadLocations
  <2>2. LocationInv'
    BY <1>13, <1>crew, <1>threads
       DEF WriterPrepare, Goto, LocationInv, Running, WriterLocations, ReaderLocations, TypeOK, K
  <2>3. Unarrived' \subseteq Unarrived
    BY <1>13, <1>crew, <1>threads DEF WriterPrepare, Goto, Unarrived, Crew, K, LocationInv, Running
  <2>4. \A u \in Threads : Measuring(u)' => Measuring(u) \/ latch = 0
    BY <1>13, <1>threads, <1>pc DEF WriterPrepare, Goto, Measuring
  <2>5. LatchInv'
    BY <1>13, <2>3, <2>4, LatchKept DEF WriterPrepare, Running
  <2> QED
    BY <2>1, <2>2, <2>5
<1>14. CASE WriterStamp
  <2>1. TypeOK'
    BY <1>14, <1>crew, <1>threads, SizesAssumption
       DEF WriterStamp, Goto, TypeOK, MainLocations, ThreadLocations
  <2>2. LocationInv'
    BY <1>14, <1>crew, <1>threads
       DEF WriterStamp, Goto, LocationInv, Running, WriterLocations, ReaderLocations, TypeOK, K
  <2>3. Unarrived' \subseteq Unarrived
    BY <1>14, <1>crew, <1>threads DEF WriterStamp, Goto, Unarrived, Crew, K, LocationInv, Running
  <2>4. \A u \in Threads : Measuring(u)' => Measuring(u) \/ latch = 0
    BY <1>14, <1>threads, <1>pc DEF WriterStamp, Goto, Measuring
  <2>5. LatchInv'
    BY <1>14, <2>3, <2>4, LatchKept DEF WriterStamp, Running
  <2> QED
    BY <2>1, <2>2, <2>5
<1>15. CASE WriterWrite
  <2>1. TypeOK'
    <3>1. ts \in Nat /\ Write(ts)
      BY <1>15 DEF WriterWrite, TypeOK
    <3>2. pc' \in [Threads -> ThreadLocations]
      BY <1>15, <1>pc DEF WriterWrite, Goto, ThreadLocations
    <3>3. writerOps' \in Nat
      BY <1>15 DEF WriterWrite, TypeOK
    <3> QED
      BY <1>15, <3>1, <3>2, <3>3, WriteTypes DEF WriterWrite, TypeOK
  <2>2. LocationInv'
    BY <1>15, <1>crew, <1>threads
       DEF WriterWrite, Write, Goto, LocationInv, Running, WriterLocations, ReaderLocations, TypeOK, K
  <2>3. Unarrived' \subseteq Unarrived
    BY <1>15, <1>crew, <1>threads DEF WriterWrite, Write, Goto, Unarrived, Crew, K, LocationInv, Running
  <2>4. \A u \in Threads : Measuring(u)' => Measuring(u) \/ latch = 0
    BY <1>15, <1>threads, <1>pc DEF WriterWrite, Goto, Measuring
  <2>5. LatchInv'
    BY <1>15, <2>3, <2>4, LatchKept DEF WriterWrite, Running
  <2> QED
    BY <2>1, <2>2, <2>5
<1>16. CASE WriterSync
  <2>1. TypeOK'
    BY <1>16, <1>crew, <1>threads, LenProperties
       DEF WriterSync, SyncBoundary, Goto, TypeOK, MainLocations, ThreadLocations
  <2>2. LocationInv'
    BY <1>16, <1>crew, <1>threads
       DEF WriterSync, SyncBoundary, Goto, LocationInv, Running, WriterLocations, ReaderLocations, TypeOK, K
  <2>3. Unarrived' \subseteq Unarrived
    BY <1>16, <1>crew, <1>threads DEF WriterSync, SyncBoundary, Goto, Unarrived, Crew, K, LocationInv, Running
  <2>4. \A u \in Threads : Measuring(u)' => Measuring(u) \/ latch = 0
    BY <1>16, <1>threads, <1>pc DEF WriterSync, Goto, Measuring
  <2>5. LatchInv'
    BY <1>16, <2>3, <2>4, LatchKept DEF WriterSync, Running
  <2> QED
    BY <2>1, <2>2, <2>5
<1>17. CASE WriterStop
  <2>1. TypeOK'
    BY <1>17, <1>crew, <1>threads
       DEF WriterStop, Goto, TypeOK, MainLocations, ThreadLocations
  <2>2. LocationInv'
    BY <1>17, <1>crew, <1>threads
       DEF WriterStop, Goto, LocationInv, Running, WriterLocations, ReaderLocations, TypeOK, K
  <2>3. Unarrived' \subseteq Unarrived
    BY <1>17, <1>crew, <1>threads DEF WriterStop, Goto, Unarrived, Crew, K, LocationInv, Running
  <2>4. \A u \in Threads : Measuring(u)' => Measuring(u) \/ latch = 0
    BY <1>17, <1>threads, <1>pc DEF WriterStop, Goto, Measuring
  <2>5. LatchInv'
    BY <1>17, <2>3, <2>4, LatchKept DEF WriterStop, Running
  <2> QED
    BY <2>1, <2>2, <2>5
<1>18. CASE WriterThrows
  <2>1. TypeOK'
    BY <1>18, <1>crew, <1>threads
       DEF WriterThrows, Throws, Goto, TypeOK, MainLocations, ThreadLocations
  <2>2. LocationInv'
    BY <1>18, <1>crew, <1>threads
       DEF WriterThrows, Throws, Goto, LocationInv, Running, WriterLocations, ReaderLocations, TypeOK, K
  <2>3. Unarrived' \subseteq Unarrived
    BY <1>18, <1>crew, <1>threads DEF WriterThrows, Throws, Goto, Unarrived, Crew, K, LocationInv, Running
  <2>4. \A u \in Threads : Measuring(u)' => Measuring(u) \/ latch = 0
    BY <1>18, <1>threads, <1>pc DEF WriterThrows, Goto, Measuring
  <2>5. LatchInv'
    BY <1>18, <2>3, <2>4, LatchKept DEF WriterThrows, Running
  <2> QED
    BY <2>1, <2>2, <2>5
<1>19. ASSUME NEW r \in Readers, ReaderOpen(r) PROVE ThreadInv'
  <2>1. TypeOK'
    BY <1>19, <1>crew, <1>threads, LenProperties DEF ReaderOpen, Goto, TypeOK, MainLocations, ThreadLocations
  <2>2. LocationInv'
    BY <1>19, <1>crew, <1>threads
       DEF ReaderOpen, Goto, LocationInv, Running, WriterLocations, ReaderLocations, TypeOK, K
  <2>3. Unarrived' \subseteq Unarrived
    BY <1>19, <1>crew, <1>threads, <2>1 DEF ReaderOpen, Goto, Unarrived, Crew, K, TypeOK
  <2>4. \A u \in Threads : Measuring(u)' => Measuring(u)
    BY <1>19, <1>threads, <1>pc DEF ReaderOpen, Goto, Measuring
  <2>5. LatchInv'
    BY <1>19, <2>3, <2>4, LatchKept DEF ReaderOpen, Running
  <2> QED
    BY <2>1, <2>2, <2>5
<1>20. ASSUME NEW r \in Readers, ReaderFind(r) PROVE ThreadInv'
  <2>1. TypeOK'
    <3>1. CASE FindNothing(r)
      BY <1>20, <3>1 DEF ReaderFind, FindNothing, TypeOK, MainLocations, ThreadLocations
    <3>2. ASSUME NEW i \in Nat, LandOn(r, i) PROVE TypeOK'
      <4>1. cursor' \in [Readers -> Nat] /\ pc' \in [Threads -> ThreadLocations]
        BY <3>2 DEF LandOn, Goto, TypeOK, ThreadLocations
      <4> QED
        BY <1>20, <3>2, <4>1 DEF ReaderFind, LandOn, TypeOK
    <3>3. Visible(r) \subseteq Nat
      BY LenProperties DEF Visible, TypeOK
    <3>4. \A target, n : n \in Visible(r) => Found(target, n) \subseteq Nat
      BY <3>3 DEF Found
    <3>5. PICK target \in Targets, n \in Visible(r) :
             FindNothing(r) \/ \E i \in Found(target, n) : LandOn(r, i)
      BY <1>20 DEF ReaderFind
    <3> QED
      BY <3>1, <3>2, <3>4, <3>5
  <2>2. LocationInv'
    BY <1>20, <1>crew, <1>threads
       DEF ReaderFind, LandOn, FindNothing, Goto, LocationInv, Running, WriterLocations, ReaderLocations, TypeOK, K
  <2>3. Unarrived' \subseteq Unarrived
    BY <1>20, <1>crew, <1>threads, <2>1 DEF ReaderFind, LandOn, FindNothing, Goto, Unarrived, Crew, K, TypeOK
  <2>4. \A u \in Threads : Measuring(u)' => Measuring(u)
    BY <1>20, <1>threads, <1>pc DEF ReaderFind, LandOn, FindNothing, Goto, Measuring
  <2>5. LatchInv'
    BY <1>20, <2>3, <2>4, LatchKept DEF ReaderFind, Running
  <2> QED
    BY <2>1, <2>2, <2>5
<1>21. ASSUME NEW r \in Readers, ReaderNext(r) PROVE ThreadInv'
  <2>1. TypeOK'
    <3>1. scanned[r] + 1 \in 0 .. ScanFrames
      BY <1>21, SizesAssumption DEF ReaderNext, TypeOK
    <3>2. cursor' \in [Readers -> Nat] /\ scanned' \in [Readers -> 0 .. ScanFrames]
      BY <1>21, <3>1 DEF ReaderNext, TypeOK
    <3> QED
      BY <1>21, <3>2 DEF ReaderNext, TypeOK, MainLocations, ThreadLocations
  <2>2. LocationInv'
    BY <1>21, <1>crew, <1>threads
       DEF ReaderNext, Goto, LocationInv, Running, WriterLocations, ReaderLocations, TypeOK, K
  <2>3. Unarrived' \subseteq Unarrived
    BY <1>21, <1>crew, <1>threads, <2>1 DEF ReaderNext, Goto, Unarrived, Crew, K, TypeOK
  <2>4. \A u \in Threads : Measuring(u)' => Measuring(u)
    BY <1>21, <1>threads, <1>pc DEF ReaderNext, Goto, Measuring
  <2>5. LatchInv'
    BY <1>21, <2>3, <2>4, LatchKept DEF ReaderNext, Running
  <2> QED
    BY <2>1, <2>2, <2>5
<1>22. ASSUME NEW r \in Readers, ReaderCount(r) PROVE ThreadInv'
  <2>1. TypeOK'
    <3>1. cursor' \in [Readers -> Nat] /\ readerOps' \in [Readers -> Nat]
      BY <1>22 DEF ReaderCount, TypeOK
    <3>2. scanned' \in [Readers -> 0 .. ScanFrames]
      BY <1>22, SizesAssumption DEF ReaderCount, TypeOK
    <3> QED
      BY <1>22, <3>1, <3>2 DEF ReaderCount, Goto, TypeOK, MainLocations, ThreadLocations
  <2>2. LocationInv'
    BY <1>22, <1>crew, <1>threads
       DEF ReaderCount, Goto, LocationInv, Running, WriterLocations, ReaderLocations, TypeOK, K
  <2>3. Unarrived' \subseteq Unarrived
    BY <1>22, <1>crew, <1>threads, <2>1 DEF ReaderCount, Goto, Unarrived, Crew, K, TypeOK
  <2>4. \A u \in Threads : Measuring(u)' => Measuring(u)
    BY <1>22, <1>threads, <1>pc DEF ReaderCount, Goto, Measuring
  <2>5. LatchInv'
    BY <1>22, <2>3, <2>4, LatchKept DEF ReaderCount, Running
  <2> QED
    BY <2>1, <2>2, <2>5
<1>23. ASSUME NEW r \in Readers, ReaderStop(r) PROVE ThreadInv'
  <2>1. TypeOK'
    BY <1>23, <1>crew, <1>threads DEF ReaderStop, Goto, TypeOK, MainLocations, ThreadLocations
  <2>2. LocationInv'
    BY <1>23, <1>crew, <1>threads
       DEF ReaderStop, Goto, LocationInv, Running, WriterLocations, ReaderLocations, TypeOK, K
  <2>3. Unarrived' \subseteq Unarrived
    BY <1>23, <1>crew, <1>threads, <2>1 DEF ReaderStop, Goto, Unarrived, Crew, K, TypeOK
  <2>4. \A u \in Threads : Measuring(u)' => Measuring(u)
    BY <1>23, <1>threads, <1>pc DEF ReaderStop, Goto, Measuring
  <2>5. LatchInv'
    BY <1>23, <2>3, <2>4, LatchKept DEF ReaderStop, Running
  <2> QED
    BY <2>1, <2>2, <2>5
<1>24. ASSUME NEW r \in Readers, ReaderThrows(r) PROVE ThreadInv'
  <2>1. TypeOK'
    BY <1>24, <1>crew, <1>threads
       DEF ReaderThrows, Throws, Terminate, TypeOK, MainLocations, ThreadLocations
  <2>2. LocationInv'
    BY <1>24, <1>crew, <1>threads
       DEF ReaderThrows, Throws, Terminate, LocationInv, Running, WriterLocations, ReaderLocations, TypeOK, K
  <2>3. LatchInv'
    BY <1>24 DEF ReaderThrows, Terminate, LatchInv, Running
  <2> QED
    BY <2>1, <2>2, <2>3
<1>25. CASE UNCHANGED vars
  BY <1>25 DEF TypeOK, MainLocations, ThreadLocations, LocationInv, Running, WriterLocations, ReaderLocations, LatchInv, Measuring, Unarrived, Crew, K
<1> QED
  BY <1>threads, <1>1, <1>2, <1>3, <1>4, <1>5, <1>6, <1>7, <1>8, <1>9, <1>10, <1>11, <1>12, <1>13, <1>14, <1>15, <1>16, <1>17, <1>18, <1>19, <1>20, <1>21, <1>22, <1>23, <1>24, <1>25
     DEF Next, MainStep, WriterStep, ReaderStep, Over

\* In every behaviour the types, the locations and the latch are right.
LEMMA ThreadInvariance == Spec => []ThreadInv
BY InitEstablishesThreadInv, NextPreservesThreadInv, PTL DEF Spec

\* Type correctness of the workload.
THEOREM TypeCorrect == Spec => []TypeOK
BY ThreadInvariance, PTL DEF ThreadInv

\* Nobody measures before all k+1 threads have reached the latch.
THEOREM EveryoneStartsTogether == Spec => []StartTogether
<1>1. ThreadInv => StartTogether
  <2> SUFFICES ASSUME ThreadInv, NEW t \in Threads, Measuring(t), NEW u \in Crew
               PROVE  pc[u] \notin {"off", "prepare", "start"}
    BY DEF StartTogether
  <2>1. Running
    BY DEF ThreadInv, LocationInv, Running, TypeOK, MainLocations, Measuring
  <2>2. latch = 0 /\ latch >= Cardinality(Unarrived)
    BY <2>1 DEF ThreadInv, LatchInv
  <2>3. Unarrived = {}
    BY <2>2, UnarrivedFinite DEF ThreadInv, TypeOK
  <2> QED
    BY <2>3 DEF Unarrived
<1> QED
  BY <1>1, ThreadInvariance, PTL

\* No thread outlives the locals of run_sub it refers to.
THEOREM NoThreadIsLeftBehind == Spec => []NoThreadOutlivesItsLocals
<1>1. ThreadInv => NoThreadOutlivesItsLocals
  BY DEF ThreadInv, LocationInv, NoThreadOutlivesItsLocals
<1> QED
  BY <1>1, ThreadInvariance, PTL

------------------------------------------------------------------------------
(* Timestamps *)

\* Later multiples of the step are larger.
LEMMA StepMonotone ==
  ASSUME NEW m \in Nat, NEW n \in Nat, m < n
  PROVE  TsStart + m * TsStep < TsStart + n * TsStep
<1>1. PICK d \in Nat : n = m + d + 1
  <2>1. n - m - 1 \in Nat /\ n = m + (n - m - 1) + 1
    OBVIOUS
  <2> QED
    BY <2>1
<1>2. TsStep \in Nat \ {0} /\ TsStart \in Nat
  BY SizesAssumption
<1>3. n * TsStep = m * TsStep + d * TsStep + TsStep
  BY <1>1, <1>2
<1>4. m * TsStep \in Nat /\ d * TsStep \in Nat
  BY <1>2, ProductsAreNat
<1> QED
  BY <1>2, <1>3, <1>4

\* What a step does that writes no frame and takes no timestamp.
Quiet ==
    /\ UNCHANGED <<stored, nextTs, ts>>
    /\ main' \in {"prefill", "prefillSync"} => main \in {"prefill", "prefillSync"}
    /\ main' \in {"launch", "spawn", "window", "join"} =>
          main \in {"launch", "spawn", "window", "join"}
    /\ pc'[Writer] = "stamped" => pc[Writer] = "stamped"

LEMMA QuietPreservesTimestampInv == TimestampInv /\ Quiet => TimestampInv'
BY DEF TimestampInv, TimestampsIncrease, Quiet

\* All other steps are quiet.
LEMMA MostStepsAreQuiet ==
  ASSUME ThreadInv, [Next]_vars
  PROVE  PrefillWrite \/ PrefillEnd \/ WriterStamp \/ WriterWrite \/ Quiet
<1> USE DEF vars, progress, shared, writing, reading, backend
<1>threads. Writer \in Threads /\ Readers \subseteq Threads /\ Writer \notin Readers
      /\ pc \in [Threads -> ThreadLocations]
  BY ThreadFacts DEF ThreadInv, TypeOK
<1>1. CASE PrefillSync \/ PrefillThrows \/ EndWindow \/ Rethrow
  BY <1>1 DEF PrefillSync, SyncBoundary, PrefillThrows, EndWindow, Rethrow, Quiet
<1>2. CASE Launch
  BY <1>2, <1>threads DEF Launch, Quiet
<1>3. CASE Spawn
  BY <1>3, <1>threads DEF Spawn, Quiet, Writer
<1>4. CASE SpawnThrows
  BY <1>4, <1>threads DEF SpawnThrows, Terminate, Quiet
<1>5. CASE Collect
  BY <1>5 DEF Collect, NextSweep, Quiet
<1>6. ASSUME NEW t \in Threads, Arrive(t) \/ Pass(t) PROVE Quiet
  BY <1>6, <1>threads DEF Arrive, Pass, Goto, Quiet
<1>7. CASE WriterPrepare \/ WriterSync \/ WriterStop \/ WriterThrows
  BY <1>7, <1>threads DEF WriterPrepare, WriterSync, SyncBoundary, WriterStop, WriterThrows, Goto, Quiet
<1>8. ASSUME NEW r \in Readers,
             ReaderOpen(r) \/ ReaderNext(r) \/ ReaderCount(r) \/ ReaderStop(r)
      PROVE  Quiet
  BY <1>8, <1>threads DEF ReaderOpen, ReaderNext, ReaderCount, ReaderStop, Goto, Quiet
<1>9. ASSUME NEW r \in Readers, ReaderFind(r) PROVE Quiet
  BY <1>9, <1>threads DEF ReaderFind, LandOn, FindNothing, Goto, Quiet
<1>10. ASSUME NEW r \in Readers, ReaderThrows(r) PROVE Quiet
  BY <1>10, <1>threads DEF ReaderThrows, Terminate, Quiet
<1>11. CASE UNCHANGED vars
  BY <1>11 DEF Quiet
<1> QED
  BY <1>threads, <1>1, <1>2, <1>3, <1>4, <1>5, <1>6, <1>7, <1>8, <1>9, <1>10, <1>11
     DEF Next, MainStep, WriterStep, ReaderStep, Over

\* The first frame prefill writes, and every further step, keeps the order.
LEMMA NextPreservesTimestampInv ==
  ThreadInv /\ TimestampInv /\ [Next]_vars => TimestampInv'
<1> SUFFICES ASSUME ThreadInv, TimestampInv, [Next]_vars PROVE TimestampInv'
  OBVIOUS
<1> USE DEF vars, progress, shared, writing, reading, backend
<1>threads. Writer \in Threads /\ pc \in [Threads -> ThreadLocations]
  BY ThreadFacts DEF ThreadInv, TypeOK
<1>stored. stored \in Seq(Nat) /\ Len(stored) \in Nat /\ (\A i \in 1 .. Len(stored) : stored[i] \in Nat)
  BY LenProperties, ElementOfSeq DEF ThreadInv, TypeOK
<1>numbers. nextTs \in Nat /\ ts \in Nat /\ TsStart \in Nat /\ TsStep \in Nat \ {0}
  BY SizesAssumption DEF ThreadInv, TypeOK
<1>1. CASE PrefillWrite
  <2> DEFINE stamp == TsStart + Len(stored) * TsStep
  <2>1. stamp \in Nat
    BY <1>stored, <1>numbers, ProductsAreNat
  <2>2. /\ Len(stored') = Len(stored) + 1
        /\ \A i \in 1 .. Len(stored) : stored'[i] = stored[i]
        /\ stored'[Len(stored) + 1] = stamp
    BY <1>1, <1>stored, <2>1, AppendProperties DEF PrefillWrite, Write
  <2>3. \A i \in 1 .. Len(stored') : stored'[i] = TsStart + (i - 1) * TsStep
    <3> SUFFICES ASSUME NEW i \in 1 .. Len(stored') PROVE stored'[i] = TsStart + (i - 1) * TsStep
      OBVIOUS
    <3>1. CASE i = Len(stored) + 1
      <4>1. i - 1 = Len(stored)
        BY <3>1, <1>stored
      <4> QED
        BY <3>1, <4>1, <2>2
    <3>2. CASE i # Len(stored) + 1
      <4>1. i \in 1 .. Len(stored)
        BY <3>2, <1>stored, <2>2
      <4> QED
        BY <4>1, <2>2, <1>1 DEF TimestampInv, PrefillWrite
    <3> QED
      BY <3>1, <3>2
  <2>4. TimestampsIncrease'
    <3> SUFFICES ASSUME NEW i \in 1 .. Len(stored'), NEW j \in 1 .. Len(stored'), i < j
                 PROVE  stored'[i] < stored'[j]
      BY DEF TimestampsIncrease
    <3>1. i - 1 \in Nat /\ j - 1 \in Nat /\ i - 1 < j - 1
      OBVIOUS
    <3>2. TsStart + (i - 1) * TsStep < TsStart + (j - 1) * TsStep
      BY <3>1, StepMonotone
    <3> QED
      BY <3>2, <2>3
  <2>5. main' \in {"prefill", "prefillSync"} /\ pc'[Writer] # "stamped"
    BY <1>1, <1>threads DEF PrefillWrite, ThreadInv, LocationInv
  <2> QED
    BY <2>3, <2>4, <2>5 DEF TimestampInv
<1>2. CASE PrefillEnd
  <2>1. \A i \in 1 .. Len(stored) : stored[i] < TsStart + PrefillFrames * TsStep
    <3> SUFFICES ASSUME NEW i \in 1 .. Len(stored)
                 PROVE  stored[i] < TsStart + PrefillFrames * TsStep
      OBVIOUS
    <3>1. i - 1 \in Nat /\ PrefillFrames \in Nat /\ i - 1 < PrefillFrames
      BY <1>2, <1>stored, SizesAssumption DEF PrefillEnd, PrefillDone
    <3>2. stored[i] = TsStart + (i - 1) * TsStep
      BY <1>2 DEF PrefillEnd, TimestampInv
    <3> QED
      BY <3>1, <3>2, StepMonotone
  <2>2. main' = "launch" /\ pc'[Writer] # "stamped" /\ stored' = stored
        /\ nextTs' = TsStart + PrefillFrames * TsStep
    BY <1>2, <1>threads DEF PrefillEnd, ThreadInv, LocationInv
  <2> QED
    BY <2>1, <2>2 DEF TimestampInv, TimestampsIncrease
<1>3. CASE WriterStamp
  <2>1. main \in {"launch", "spawn", "window", "join"}
    BY <1>3, <1>threads DEF WriterStamp, ThreadInv, LocationInv, TypeOK, MainLocations
  <2>2. \A i \in 1 .. Len(stored) : stored[i] < nextTs
    BY <2>1 DEF TimestampInv
  <2>3. stored' = stored /\ ts' = nextTs /\ nextTs' = nextTs + TsStep /\ main' = main
    BY <1>3 DEF WriterStamp
  <2>4. ts' < nextTs' /\ \A i \in 1 .. Len(stored) : stored[i] < nextTs'
    BY <1>stored, <1>numbers, <2>2, <2>3
  <2> QED
    BY <2>1, <2>2, <2>3, <2>4 DEF TimestampInv, TimestampsIncrease
<1>4. CASE WriterWrite
  <2>1. ts < nextTs /\ \A i \in 1 .. Len(stored) : stored[i] < ts
    BY <1>4 DEF WriterWrite, TimestampInv
  <2>2. /\ Len(stored') = Len(stored) + 1
        /\ \A i \in 1 .. Len(stored) : stored'[i] = stored[i]
        /\ stored'[Len(stored) + 1] = ts
    BY <1>4, <1>stored, <1>numbers, AppendProperties DEF WriterWrite, Write
  <2>3. TimestampsIncrease'
    <3> SUFFICES ASSUME NEW i \in 1 .. Len(stored'), NEW j \in 1 .. Len(stored'), i < j
                 PROVE  stored'[i] < stored'[j]
      BY DEF TimestampsIncrease
    <3>1. i \in 1 .. Len(stored) /\ (j \in 1 .. Len(stored) \/ j = Len(stored) + 1)
      BY <1>stored, <2>2
    <3> QED
      BY <3>1, <2>1, <2>2 DEF TimestampInv, TimestampsIncrease
  <2>4. \A i \in 1 .. Len(stored') : stored'[i] < nextTs
    <3> SUFFICES ASSUME NEW i \in 1 .. Len(stored') PROVE stored'[i] < nextTs
      OBVIOUS
    <3>1. i \in 1 .. Len(stored) \/ i = Len(stored) + 1
      BY <1>stored, <2>2
    <3> QED
      BY <3>1, <2>1, <2>2, <1>stored, <1>numbers
  <2>5. main' = main /\ nextTs' = nextTs /\ pc'[Writer] # "stamped"
    BY <1>4, <1>threads DEF WriterWrite, Goto
  <2>6. main \notin {"prefill", "prefillSync"}
    BY <1>4, <1>threads DEF WriterWrite, ThreadInv, LocationInv
  <2> QED
    BY <2>3, <2>4, <2>5, <2>6 DEF TimestampInv
<1>5. CASE Quiet
  BY <1>5, QuietPreservesTimestampInv
<1> QED
  BY <1>1, <1>2, <1>3, <1>4, <1>5, MostStepsAreQuiet

\* Timestamps only ever increase: across prefill, across sub-experiments, for
\* any step, any number of frames and any failure.
THEOREM TimestampsAlwaysIncrease == Spec => []TimestampsIncrease
<1>1. Init => TimestampInv
  BY ThreadFacts, EmptySeq DEF Init, TimestampInv, TimestampsIncrease
<1>2. TimestampInv => TimestampsIncrease
  BY DEF TimestampInv
<1> QED
  BY <1>1, <1>2, ThreadInvariance, NextPreservesTimestampInv, PTL DEF Spec

------------------------------------------------------------------------------
(* Bytes outside the last sync boundary *)

\* What n frames weigh.
LEMMA FrameBytes ==
  ASSUME NEW n \in Nat
  PROVE  /\ n * FrameSize \in Nat
         /\ (n + 1) * FrameSize = n * FrameSize + FrameSize
         /\ n * FrameSize = 0 <=> n = 0
<1>1. FrameSize \in Nat \ {0}
  BY SizesAssumption
<1> QED
  BY <1>1

NotWritingYet == pc[Writer] \in {"off", "prepare", "start", "waiting"}
WroteItAll == pc[Writer] = "done" /\ ~writerEx

\* What a step does that neither writes nor syncs nor ends a loop.
Weightless ==
    /\ UNCHANGED backend
    /\ main' = "prefill" => main = "prefill"
    /\ main' \in {"launch", "returned"} => main \in {"launch", "returned"}
    /\ Running' => Running
    /\ pc'[Writer] \in {"loop", "stamped"} => pc[Writer] \in {"loop", "stamped"}
    /\ Running' => /\ NotWritingYet' => NotWritingYet
                   /\ WroteItAll' => WroteItAll

LEMMA WeightlessPreservesLossInv == LossInv /\ Weightless => LossInv'
BY DEF LossInv, Weightless, NotWritingYet, WroteItAll, backend

\* All other steps are weightless.
LEMMA MostStepsAreWeightless ==
  ASSUME ThreadInv, [Next]_vars
  PROVE  \/ PrefillWrite \/ PrefillSync \/ PrefillEnd \/ Launch \/ Collect
         \/ Pass(Writer) \/ WriterPrepare \/ WriterWrite \/ WriterSync \/ WriterStop
         \/ Weightless
<1> USE DEF vars, progress, shared, writing, reading, backend, Running, NotWritingYet, WroteItAll
<1>threads. Writer \in Threads /\ Readers \subseteq Threads /\ Writer \notin Readers
      /\ pc \in [Threads -> ThreadLocations]
  BY ThreadFacts DEF ThreadInv, TypeOK
<1>1. CASE PrefillThrows \/ EndWindow \/ Rethrow
  BY <1>1 DEF PrefillThrows, EndWindow, Rethrow, Weightless
<1>2. CASE Spawn
  <2>1. pc[spawned] = "off"
    BY <1>2, CrewFacts DEF Spawn, ThreadInv, TypeOK, LocationInv, K
  <2> QED
    BY <1>2, <1>threads, <2>1 DEF Spawn, Weightless
<1>3. CASE SpawnThrows
  BY <1>3, <1>threads DEF SpawnThrows, Terminate, Weightless
<1>4. ASSUME NEW t \in Threads, Arrive(t) PROVE Weightless
  BY <1>4, <1>threads DEF Arrive, Goto, Weightless
<1>5. CASE WriterStamp
  BY <1>5, <1>threads DEF WriterStamp, Goto, Weightless
<1>6. CASE WriterThrows
  BY <1>6, <1>threads DEF WriterThrows, Goto, Weightless
<1>7. ASSUME NEW r \in Readers,
             \/ Pass(r) \/ ReaderOpen(r) \/ ReaderNext(r) \/ ReaderCount(r) \/ ReaderStop(r)
      PROVE  Weightless
  BY <1>7, <1>threads DEF Pass, ReaderOpen, ReaderNext, ReaderCount, ReaderStop, Goto, Weightless
<1>8. ASSUME NEW r \in Readers, ReaderFind(r) PROVE Weightless
  BY <1>8, <1>threads DEF ReaderFind, LandOn, FindNothing, Goto, Weightless
<1>9. ASSUME NEW r \in Readers, ReaderThrows(r) PROVE Weightless
  BY <1>9, <1>threads DEF ReaderThrows, Terminate, Weightless
<1>10. CASE UNCHANGED vars
  BY <1>10 DEF Weightless
<1> QED
  BY <1>threads, <1>1, <1>2, <1>3, <1>4, <1>5, <1>6, <1>7, <1>8, <1>9, <1>10
     DEF Next, MainStep, WriterStep, ReaderStep, Over

\* Writing a frame adds its weight, syncing takes everything away.
LEMMA WriteAndSyncKeepCount ==
  ASSUME ThreadInv, LossInv, NEW stamp \in Nat, Write(stamp) \/ SyncBoundary
  PROVE  /\ unsynced' = (Len(stored') - synced') * FrameSize
         /\ Write(stamp) => unsynced' = unsynced + FrameSize
         /\ SyncBoundary => unsynced' = 0
<1>1. stored \in Seq(Nat) /\ Len(stored) \in Nat /\ synced \in Nat /\ Len(stored) - synced \in Nat
  BY LenProperties DEF ThreadInv, TypeOK
<1>2. CASE Write(stamp)
  <2>1. Len(stored') = Len(stored) + 1
    BY <1>1, <1>2, AppendProperties DEF Write
  <2>2. Len(stored') - synced' = (Len(stored) - synced) + 1
    BY <1>1, <1>2, <2>1 DEF Write
  <2>3. unsynced' = unsynced + FrameSize
    BY <1>2 DEF Write
  <2>4. ~SyncBoundary
    BY <1>1, <1>2, <2>1 DEF SyncBoundary
  <2> QED
    BY <1>1, <2>2, <2>3, <2>4, FrameBytes DEF LossInv
<1>3. CASE SyncBoundary
  <2>1. Len(stored') - synced' = 0 /\ unsynced' = 0
    BY <1>1, <1>3 DEF SyncBoundary
  <2>2. ~Write(stamp)
    <3>1. stored' = stored
      BY <1>3 DEF SyncBoundary
    <3> QED
      BY <1>1, <3>1, AppendProperties DEF Write
  <2> QED
    BY <2>1, <2>2, <1>3, FrameBytes
<1> QED
  BY <1>2, <1>3

LEMMA NextPreservesLossInv == ThreadInv /\ LossInv /\ [Next]_vars => LossInv'
<1> SUFFICES ASSUME ThreadInv, LossInv, [Next]_vars PROVE LossInv'
  OBVIOUS
<1> USE DEF vars, progress, shared, writing, reading, backend
<1>threads. Writer \in Threads /\ pc \in [Threads -> ThreadLocations]
  BY ThreadFacts DEF ThreadInv, TypeOK
<1>numbers. /\ unsynced \in Nat /\ ts \in Nat /\ Len(stored) \in Nat /\ TsStart + Len(stored) * TsStep \in Nat
      /\ FrameSize \in Nat \ {0} /\ DurabilityBytes \in Nat \ {0}
  <2>1. unsynced \in Nat /\ ts \in Nat /\ Len(stored) \in Nat
    BY LenProperties DEF ThreadInv, TypeOK
  <2>2. Len(stored) * TsStep \in Nat /\ TsStart \in Nat
    BY <2>1, SizesAssumption, ProductsAreNat
  <2> QED
    BY <2>1, <2>2, SizesAssumption
<1>1. CASE PrefillWrite
  <2>1. Write(TsStart + Len(stored) * TsStep)
    BY <1>1 DEF PrefillWrite
  <2>2. /\ unsynced' = (Len(stored') - synced') * FrameSize
        /\ unsynced' = unsynced + FrameSize
    BY <2>1, <1>numbers, WriteAndSyncKeepCount
  <2>3. unsynced' < DurabilityBytes + FrameSize
    BY <1>1, <1>numbers, <2>2 DEF PrefillWrite, LossInv
  <2>4. /\ main' \in {"prefill", "prefillSync"}
        /\ main' = "prefill" => unsynced' < DurabilityBytes
        /\ pc'[Writer] \in {"off", "done"}
    BY <1>1, <1>threads, <1>numbers, <2>2 DEF PrefillWrite, SyncDue, ThreadInv, LocationInv
  <2> QED
    BY <2>2, <2>3, <2>4 DEF LossInv, Running
<1>2. CASE PrefillSync
  <2>1. unsynced' = (Len(stored') - synced') * FrameSize /\ unsynced' = 0
    BY <1>2, <1>numbers, WriteAndSyncKeepCount DEF PrefillSync
  <2> QED
    BY <1>2, <1>numbers, <2>1 DEF PrefillSync, LossInv, Running
<1>3. CASE PrefillEnd
  BY <1>3, <1>numbers DEF PrefillEnd, LossInv, Running
<1>4. CASE Launch
  BY <1>4, <1>threads, <1>numbers DEF Launch, LossInv, Running
<1>5. CASE Collect
  <2>1. pc[Writer] = "done" /\ ~writerEx /\ Running
    BY <1>5, CrewFacts DEF Collect, AllJoined, Crew, K, Running, ThreadInv, TypeOK
  <2>2. main' \in {"launch", "returned"} /\ UNCHANGED <<pc, backend>>
    BY <1>5 DEF Collect, NextSweep
  <2> QED
    BY <1>numbers, <2>1, <2>2 DEF LossInv, Running
<1>6. CASE Pass(Writer)
  <2>1. pc[Writer] = "waiting" /\ pc'[Writer] = "loop" /\ UNCHANGED <<main, backend>>
    BY <1>6, <1>threads DEF Pass, Goto
  <2>2. Running
    BY <2>1, <1>threads DEF ThreadInv, LocationInv, Running, TypeOK, MainLocations
  <2> QED
    BY <1>numbers, <2>1, <2>2 DEF LossInv, Running
<1>7. CASE WriterPrepare
  <2>1. pc[Writer] = "prepare" /\ pc'[Writer] = "start" /\ unsynced' = 0
        /\ UNCHANGED <<main, stored, synced>>
    BY <1>7, <1>threads DEF WriterPrepare, Goto
  <2>2. Running
    BY <2>1, <1>threads DEF ThreadInv, LocationInv, Running, TypeOK, MainLocations
  <2> QED
    BY <1>numbers, <2>1, <2>2 DEF LossInv, Running
<1>8. CASE WriterWrite
  <2>1. /\ unsynced' = (Len(stored') - synced') * FrameSize
        /\ unsynced' = unsynced + FrameSize
    BY <1>8, <1>numbers, WriteAndSyncKeepCount DEF WriterWrite
  <2>2. unsynced' < DurabilityBytes + FrameSize
    BY <1>8, <1>numbers, <2>1 DEF WriterWrite, LossInv
  <2>3. /\ pc'[Writer] \in {"loop", "sync"}
        /\ pc'[Writer] = "loop" => unsynced' < DurabilityBytes
    BY <1>8, <1>threads, <1>numbers, <2>1 DEF WriterWrite, Goto, SyncDue
  <2>4. main' = main /\ main \notin {"prefill", "launch", "returned"}
    BY <1>8, <1>threads DEF WriterWrite, ThreadInv, LocationInv
  <2> QED
    BY <2>1, <2>2, <2>3, <2>4 DEF LossInv
<1>9. CASE WriterSync
  <2>1. unsynced' = (Len(stored') - synced') * FrameSize /\ unsynced' = 0
    BY <1>9, <1>numbers, WriteAndSyncKeepCount DEF WriterSync
  <2> QED
    BY <1>numbers, <2>1 DEF LossInv
<1>10. CASE WriterStop
  <2>1. /\ pc[Writer] = "loop"
        /\ pc'[Writer] = IF unsynced > 0 THEN "lastSync" ELSE "done"
        /\ UNCHANGED <<main, backend>>
    BY <1>10, <1>threads DEF WriterStop, Goto
  <2> QED
    BY <1>numbers, <2>1 DEF LossInv, Running
<1>11. CASE Weightless
  BY <1>11, WeightlessPreservesLossInv
<1> QED
  BY <1>1, <1>2, <1>3, <1>4, <1>5, <1>6, <1>7, <1>8, <1>9, <1>10, <1>11, MostStepsAreWeightless

LEMMA LossInvariance == Spec => [](ThreadInv /\ LossInv)
<1>1. Init => LossInv
  <2>1. 0 * FrameSize = 0 /\ FrameSize \in Nat \ {0} /\ DurabilityBytes \in Nat \ {0}
    BY FrameBytes, SizesAssumption
  <2> QED
    BY <2>1, ThreadFacts, EmptySeq DEF Init, LossInv, Running
<1> QED
  BY <1>1, ThreadInvariance, NextPreservesLossInv, PTL DEF Spec

\* The unsynced frames never weigh more than the threshold, less one byte, and
\* one frame, for every frame size and every threshold.
THEOREM LossIsBounded == Spec => []BoundedLoss
<1>1. ThreadInv /\ LossInv => BoundedLoss
  BY SizesAssumption DEF ThreadInv, TypeOK, LossInv, BoundedLoss
<1> QED
  BY <1>1, LossInvariance, PTL

\* No sub-experiment leaves unsynced frames to the next.
THEOREM SweepsStartSynced == Spec => []SyncedBetweenSweeps
<1>1. ThreadInv /\ LossInv => SyncedBetweenSweeps
  <2> SUFFICES ASSUME ThreadInv, LossInv, main \in {"launch", "returned"}
               PROVE  synced = Len(stored)
    BY DEF SyncedBetweenSweeps
  <2>1. Len(stored) - synced \in Nat /\ Len(stored) \in Nat /\ synced \in Nat
    BY LenProperties DEF ThreadInv, TypeOK
  <2>2. (Len(stored) - synced) * FrameSize = 0
    BY DEF LossInv
  <2>3. Len(stored) - synced = 0
    BY <2>1, <2>2, FrameBytes
  <2> QED
    BY <2>1, <2>3
<1> QED
  BY <1>1, LossInvariance, PTL

------------------------------------------------------------------------------
(* Failures *)

\* A failure is always with the main thread or in the catch block.
LEMMA NextPreservesFailureInv == ThreadInv /\ FailureInv /\ [Next]_vars => FailureInv'
<1> SUFFICES ASSUME ThreadInv, FailureInv, [Next]_vars PROVE FailureInv'
  OBVIOUS
<1> USE DEF vars, progress, shared, writing, reading, backend, Running
<1>threads. Writer \in Threads /\ Readers \subseteq Threads /\ Writer \notin Readers
      /\ pc \in [Threads -> ThreadLocations]
  BY ThreadFacts DEF ThreadInv, TypeOK
<1>1. CASE PrefillWrite \/ PrefillSync \/ PrefillEnd \/ PrefillThrows
  BY <1>1 DEF PrefillWrite, PrefillSync, PrefillEnd, PrefillThrows, Throws, FailureInv
<1>2. CASE Launch
  BY <1>2 DEF Launch, FailureInv
<1>3. CASE Spawn
  <2>1. pc[spawned] = "off"
    BY <1>3, CrewFacts DEF Spawn, ThreadInv, TypeOK, LocationInv, K
  <2> QED
    BY <1>3, <1>threads, <2>1 DEF Spawn, FailureInv
<1>4. CASE SpawnThrows
  BY <1>4, <1>threads DEF SpawnThrows, Throws, Terminate, FailureInv
<1>5. CASE EndWindow \/ Rethrow
  BY <1>5 DEF EndWindow, Rethrow, FailureInv
<1>6. CASE Collect
  BY <1>6 DEF Collect, NextSweep, FailureInv
<1>7. ASSUME NEW t \in Threads, Arrive(t) \/ Pass(t) PROVE FailureInv'
  BY <1>7, <1>threads DEF Arrive, Pass, Goto, FailureInv
<1>8. CASE WriterPrepare \/ WriterStamp \/ WriterWrite \/ WriterSync \/ WriterStop
  BY <1>8, <1>threads DEF WriterPrepare, WriterStamp, WriterWrite, WriterSync, WriterStop, Goto, FailureInv
<1>9. CASE WriterThrows
  <2>1. Running
    BY <1>9, <1>threads DEF WriterThrows, ThreadInv, LocationInv, TypeOK, MainLocations
  <2>2. failed' /\ writerEx' /\ pc'[Writer] = "done" /\ main' = main
    BY <1>9, <1>threads DEF WriterThrows, Throws, Goto
  <2> QED
    BY <2>1, <2>2 DEF FailureInv
<1>10. ASSUME NEW r \in Readers,
              ReaderOpen(r) \/ ReaderNext(r) \/ ReaderCount(r) \/ ReaderStop(r)
       PROVE  FailureInv'
  BY <1>10, <1>threads DEF ReaderOpen, ReaderNext, ReaderCount, ReaderStop, Goto, FailureInv
<1>11. ASSUME NEW r \in Readers, ReaderFind(r) PROVE FailureInv'
  BY <1>11, <1>threads DEF ReaderFind, LandOn, FindNothing, Goto, FailureInv
<1>12. ASSUME NEW r \in Readers, ReaderThrows(r) PROVE FailureInv'
  BY <1>12 DEF ReaderThrows, Terminate, FailureInv
<1>13. CASE UNCHANGED vars
  BY <1>13 DEF FailureInv
<1> QED
  BY <1>threads, <1>1, <1>2, <1>3, <1>4, <1>5, <1>6, <1>7, <1>8, <1>9, <1>10, <1>11, <1>12, <1>13
     DEF Next, MainStep, WriterStep, ReaderStep, Over

\* run() succeeds only when no call failed, and throws only when one did,
\* whichever of its threads the call was made by.
THEOREM FailuresAreReported == Spec => []NoSilentFailure
<1>1. Init => FailureInv
  BY DEF Init, FailureInv, Running
<1>2. FailureInv => NoSilentFailure
  BY DEF FailureInv, NoSilentFailure, Running
<1> QED
  BY <1>1, <1>2, ThreadInvariance, NextPreservesFailureInv, PTL DEF Spec


------------------------------------------------------------------------------
(* Readers *)

\* A set of numbers has a least one.
LEMMA LeastNumber ==
  ASSUME NEW S \in SUBSET Nat, S # {}
  PROVE  \E m \in S : \A k \in S : m <= k
<1> DEFINE R == {p \in Nat \X Nat : p[1] < p[2]}
<1>1. IsWellFoundedOn(R, Nat)
  BY NatLessThanWellFounded, Zenon DEF OpToRel
<1>2. PICK m \in S : \A k \in S : <<k, m>> \notin R
  <2> HIDE DEF R
  <2> QED
    BY <1>1, WFMin
<1>3. \A k \in S : ~(k < m)
  BY <1>2
<1> QED
  BY <1>3

\* The last frame that a target may ask for is so far from the prefill's end that a
\* whole scan is left.
LEMMA LastTargetFrame ==
  ASSUME ThreadInv, PrefillInv, Len(stored) >= PrefillFrames, NEW target \in Targets
  PROVE  /\ PrefillFrames - ScanFrames \in 1 .. Len(stored)
         /\ stored[PrefillFrames - ScanFrames] >= target
<1> DEFINE last == PrefillFrames - ScanFrames
<1>1. /\ PrefillFrames \in Nat /\ ScanFrames \in Nat /\ PrefillFrames > ScanFrames
      /\ Len(stored) \in Nat /\ TsStart \in Nat
  BY SizesAssumption, LenProperties DEF ThreadInv, TypeOK
<1>2. last \in 1 .. Len(stored) /\ last <= PrefillFrames
  BY <1>1
<1>3. stored[last] = TsStart + (last - 1) * TsStep
  <2> HIDE DEF last
  <2> QED
    BY <1>2 DEF PrefillInv
<1>4. PrefillFrames - ScanFrames - 1 = last - 1
  OBVIOUS
<1>5. target <= TsStart + (last - 1) * TsStep
  <2>1. target \in TsStart .. (TsStart + (last - 1) * TsStep)
    BY <1>4, Zenon DEF Targets, MaxTarget
  <2>2. TsStart + (last - 1) * TsStep \in Int
    <3>1. (last - 1) * TsStep \in Nat
      BY <1>1, <1>2, SizesAssumption, ProductsAreNat
    <3> HIDE DEF last
    <3> QED
      BY <1>1, <3>1
  <2> HIDE DEF last
  <2> QED
    BY <1>1, <2>1, <2>2
<1>6. stored[last] \in Nat
  <2> HIDE DEF last
  <2> QED
    BY <1>2, ElementOfSeq DEF ThreadInv, TypeOK
<1>7. target \in Int
  BY <1>1 DEF Targets
<1> HIDE DEF last
<1>8. stored[last] >= target
  BY <1>3, <1>5, <1>6, <1>7
<1> QED
  BY <1>2, <1>8 DEF last

\* What find returns leaves a scan; and it finds something.
LEMMA FoundLeavesAScan ==
  ASSUME ThreadInv, PrefillInv, NEW target \in Targets, NEW n \in Nat,
         PrefillFrames <= n, n <= Len(stored)
  PROVE  /\ \A i \in Found(target, n) : i + ScanFrames - 1 <= PrefillFrames /\ i \in Nat
         /\ Found(target, n) # {}
<1> DEFINE last == PrefillFrames - ScanFrames
<1>1. /\ PrefillFrames \in Nat /\ ScanFrames \in Nat /\ Len(stored) \in Nat
      /\ Len(stored) >= PrefillFrames
  BY SizesAssumption, LenProperties DEF ThreadInv, TypeOK
<1>2. last \in 1 .. Len(stored) /\ stored[last] >= target
  BY <1>1, LastTargetFrame
<1>3. last \in 1 .. n
  BY <1>1, <1>2
<1>4. target \in Int /\ \A i \in 1 .. Len(stored) : stored[i] \in Nat
  BY SizesAssumption, ElementOfSeq DEF ThreadInv, TypeOK, Targets
<1>5. \A i \in 1 .. n : ~(stored[i] >= target) => stored[i] < target
  BY <1>1, <1>4
<1>6. ASSUME NEW i \in Found(target, n) PROVE i <= last /\ i \in Nat
  <2>1. i \in 1 .. n /\ \A j \in 1 .. i - 1 : stored[j] < target
    BY DEF Found
  <2> HIDE DEF last
  <2>2. last \notin 1 .. i - 1
    BY <1>2, <1>4, <2>1
  <2> QED
    BY <1>3, <2>1, <2>2
<1>7. Found(target, n) # {}
  <2> DEFINE S == {i \in 1 .. n : stored[i] >= target}
  <2>1. last \in S /\ S \in SUBSET Nat
    BY <1>2, <1>3
  <2>2. PICK i \in S : \A k \in S : i <= k
    <3> HIDE DEF S, last
    <3> QED
      BY <2>1, LeastNumber
  <2>3. \A j \in 1 .. i - 1 : j \in 1 .. n /\ ~(i <= j)
    OBVIOUS
  <2>4. \A j \in 1 .. i - 1 : stored[j] < target
    BY <1>5, <2>2, <2>3
  <2> QED
    BY <2>4 DEF Found
<1>8. \A i \in Nat : i <= last => i + ScanFrames - 1 <= PrefillFrames
  BY <1>1
<1> HIDE DEF last
<1> QED
  BY <1>6, <1>7, <1>8


\* A frame that is appended behind the prefill, or as the next one of it.
LEMMA WriteKeepsPrefill ==
  ASSUME ThreadInv, PrefillInv, NEW stamp \in Nat, Write(stamp),
         Len(stored) < PrefillFrames => stamp = TsStart + Len(stored) * TsStep,
         (main = "launch" \/ Running)' => main = "launch" \/ Running
  PROVE  PrefillInv' /\ Len(stored') >= Len(stored)
<1>1. /\ Len(stored) \in Nat /\ Len(stored') = Len(stored) + 1
      /\ \A i \in 1 .. Len(stored) : stored'[i] = stored[i]
      /\ stored'[Len(stored) + 1] = stamp
  BY AppendProperties, LenProperties DEF Write, ThreadInv, TypeOK
<1>2. PrefillFrames \in Nat
  BY SizesAssumption
<1>3. ASSUME NEW i \in 1 .. Len(stored'), i <= PrefillFrames
      PROVE  stored'[i] = TsStart + (i - 1) * TsStep
  <2>1. CASE i \in 1 .. Len(stored)
    BY <1>1, <1>3, <2>1 DEF PrefillInv
  <2>2. CASE i = Len(stored) + 1
    <3>1. i - 1 = Len(stored) /\ Len(stored) < PrefillFrames
      BY <1>1, <1>2, <1>3, <2>2
    <3> QED
      BY <1>1, <2>2, <3>1
  <2> QED
    BY <1>1, <2>1, <2>2
<1>4. (main = "launch" \/ Running)' => Len(stored') >= PrefillFrames
  BY <1>1, <1>2 DEF PrefillInv
<1> QED
  BY <1>1, <1>3, <1>4 DEF PrefillInv

\* Every step keeps the prefilled frames in front and the scans within what the
\* iterators see.
LEMMA NextPreservesReadInv ==
  ThreadInv /\ PrefillInv /\ ReadInv /\ [Next]_vars => PrefillInv' /\ ReadInv'
<1> SUFFICES ASSUME ThreadInv, PrefillInv, ReadInv, [Next]_vars PROVE PrefillInv' /\ ReadInv'
  OBVIOUS
<1> USE DEF vars, progress, shared, writing, reading, backend
<1>threads. /\ Writer \in Threads /\ Readers \subseteq Threads /\ Writer \notin Readers
            /\ pc \in [Threads -> ThreadLocations]
  BY ThreadFacts DEF ThreadInv, TypeOK
<1>numbers. /\ PrefillFrames \in Nat /\ ScanFrames \in Nat /\ PrefillFrames > ScanFrames
            /\ Len(stored) \in Nat /\ opened \in [Readers -> Nat] /\ cursor \in [Readers -> Nat]
            /\ scanned \in [Readers -> 0 .. ScanFrames]
  BY SizesAssumption, LenProperties DEF ThreadInv, TypeOK
<1>active. ASSUME NEW t \in Threads, pc[t] \notin {"off", "done", "killed"} PROVE Running
  BY <1>active DEF ThreadInv, LocationInv, TypeOK, MainLocations, Running
<1>1. CASE PrefillWrite
  <2>1. TsStart + Len(stored) * TsStep \in Nat
    BY <1>numbers, SizesAssumption, ProductsAreNat
  <2>2. PrefillInv' /\ Len(stored') >= Len(stored) /\ Len(stored') \in Nat
    BY <1>1, <2>1, WriteTypes, LenProperties, WriteKeepsPrefill DEF PrefillWrite, Running
  <2>3. ReadInv'
    BY <1>1, <1>numbers, <2>2 DEF PrefillWrite, ReadInv
  <2> QED
    BY <2>2, <2>3
<1>2. CASE WriterWrite
  <2>1. Running /\ ts \in Nat
    BY <1>2, <1>threads, <1>active DEF WriterWrite, ThreadInv, TypeOK
  <2>2. ~(Len(stored) < PrefillFrames)
    BY <1>numbers, <2>1 DEF PrefillInv
  <2>3. PrefillInv' /\ Len(stored') >= Len(stored) /\ Len(stored') \in Nat
    BY <1>2, <2>1, <2>2, WriteTypes, LenProperties, WriteKeepsPrefill DEF WriterWrite, Running
  <2>4. ReadInv'
    BY <1>2, <1>threads, <1>numbers, <2>3 DEF WriterWrite, Goto, ReadInv
  <2> QED
    BY <2>3, <2>4
<1>3. CASE PrefillEnd
  BY <1>3, <1>numbers DEF PrefillEnd, PrefillDone, PrefillInv, ReadInv, Running
<1>4. CASE Launch
  <2>1. \A r \in Readers : pc[r] \in {"off", "done"} /\ pc'[r] = "off"
    BY <1>4, <1>threads DEF Launch, ThreadInv, LocationInv
  <2>2. ReadInv'
    BY <1>4, <2>1 DEF Launch, ReadInv
  <2> QED
    BY <1>4, <2>2 DEF Launch, PrefillInv, Running
<1>5. ASSUME NEW r \in Readers, ReaderOpen(r) PROVE PrefillInv' /\ ReadInv'
  <2>1. Len(stored) >= PrefillFrames
    BY <1>5, <1>threads, <1>active DEF ReaderOpen, PrefillInv
  <2>2. PrefillInv'
    BY <1>5 DEF ReaderOpen, PrefillInv, Running
  <2>3. opened'[r] = Len(stored) /\ pc'[r] = "loop" /\ scanned'[r] = 0
    BY <1>5, <1>threads, <1>numbers DEF ReaderOpen, Goto, ReadInv
  <2>4. \A u \in Readers : u # r => opened'[u] = opened[u] /\ pc'[u] = pc[u]
    BY <1>5, <1>threads, <1>numbers DEF ReaderOpen, Goto
  <2>5. cursor' = cursor /\ scanned' = scanned
    BY <1>5 DEF ReaderOpen
  <2>6. ReadInv'
    BY <1>5, <1>numbers, <2>1, <2>3, <2>4, <2>5 DEF ReaderOpen, ReadInv
  <2> QED
    BY <2>2, <2>6
<1>6. ASSUME NEW r \in Readers, ReaderFind(r) PROVE PrefillInv' /\ ReadInv'
  <2>0. Len(stored) >= PrefillFrames /\ opened[r] >= PrefillFrames /\ scanned[r] = 0
    BY <1>6, <1>threads, <1>active DEF ReaderFind, PrefillInv, ReadInv
  <2>1. PrefillInv' /\ stored' = stored /\ opened' = opened /\ scanned' = scanned
    BY <1>6 DEF ReaderFind, PrefillInv, Running
  <2>2. PICK target \in Targets, n \in Visible(r) :
          \/ \E i \in Found(target, n) : LandOn(r, i)
          \/ Found(target, n) = {} /\ FindNothing(r)
    BY <1>6 DEF ReaderFind
  <2>3. n \in Nat /\ PrefillFrames <= n /\ n <= Len(stored)
    BY <1>numbers, <2>0 DEF Visible
  <2>4. PICK i \in Found(target, n) : LandOn(r, i)
    BY <2>2, <2>3, FoundLeavesAScan
  <2>5. i \in Nat /\ i + ScanFrames - 1 <= PrefillFrames
    BY <2>3, FoundLeavesAScan
  <2>6. /\ cursor'[r] = i /\ pc'[r] = "scan"
        /\ \A u \in Readers : u # r => cursor'[u] = cursor[u] /\ pc'[u] = pc[u]
    BY <2>4, <1>threads, <1>numbers DEF LandOn, Goto
  <2>7. i + (ScanFrames - 0) - 1 <= opened[r]
    BY <1>numbers, <2>0, <2>5
  <2>8. opened[r] <= Len(stored)
    BY <1>6 DEF ReaderFind, ReadInv
  <2>9. cursor'[r] + (ScanFrames - scanned'[r]) - 1 <= opened'[r]
    BY <2>0, <2>1, <2>6, <2>7
  <2>10. ReadInv'
    BY <2>0, <2>1, <2>6, <2>8, <2>9 DEF ReadInv
  <2> QED
    BY <2>1, <2>10
<1>7. ASSUME NEW r \in Readers, ReaderNext(r) PROVE PrefillInv' /\ ReadInv'
  <2>1. PrefillInv' /\ pc' = pc /\ opened' = opened /\ pc[r] = "scan"
    BY <1>7 DEF ReaderNext, PrefillInv, Running
  <2>2. /\ cursor'[r] = cursor[r] + 1 /\ scanned'[r] = scanned[r] + 1
        /\ \A u \in Readers : u # r => cursor'[u] = cursor[u] /\ scanned'[u] = scanned[u]
    BY <1>7, <1>numbers DEF ReaderNext
  <2>3. cursor[r] + (ScanFrames - scanned[r]) - 1 <= opened[r]
    BY <2>1 DEF ReadInv
  <2>4. cursor'[r] + (ScanFrames - scanned'[r]) - 1 <= opened'[r]
    BY <1>numbers, <2>1, <2>2, <2>3
  <2>5. ReadInv'
    BY <1>7, <2>1, <2>2, <2>4 DEF ReaderNext, ReadInv
  <2> QED
    BY <2>1, <2>5
<1>8. ASSUME NEW r \in Readers, ReaderCount(r) PROVE PrefillInv' /\ ReadInv'
  <2>1. PrefillInv' /\ opened' = opened /\ pc[r] = "scan"
    BY <1>8 DEF ReaderCount, PrefillInv, Running
  <2>2. /\ pc'[r] = "loop" /\ scanned'[r] = 0
        /\ \A u \in Readers : u # r =>
             cursor'[u] = cursor[u] /\ scanned'[u] = scanned[u] /\ pc'[u] = pc[u]
    BY <1>8, <1>threads, <1>numbers DEF ReaderCount, Goto
  <2>3. ReadInv'
    BY <1>8, <2>1, <2>2 DEF ReaderCount, ReadInv
  <2> QED
    BY <2>1, <2>3
<1>9. CASE PrefillSync \/ PrefillThrows \/ EndWindow \/ Rethrow \/ Collect
  BY <1>9 DEF PrefillSync, SyncBoundary, PrefillThrows, EndWindow, Rethrow, Collect, NextSweep,
              PrefillInv, ReadInv, Running
<1>10. CASE Spawn
  <2>1. spawned \in Threads => pc[spawned] = "off"
    BY <1>10, <1>threads, ThreadFacts DEF Spawn, ThreadInv, LocationInv, Running, TypeOK
  <2>2. \A r \in Readers : pc'[r] = pc[r] \/ (r = spawned /\ pc'[r] \in {"prepare", "start"})
    BY <1>10, <1>threads DEF Spawn
  <2>3. PrefillInv'
    BY <1>10 DEF Spawn, PrefillInv, Running
  <2>4. UNCHANGED <<opened, cursor, scanned>>
    BY <1>10 DEF Spawn
  <2> QED
    BY <1>10, <1>threads, <2>1, <2>2, <2>3, <2>4 DEF Spawn, ReadInv
<1>11. CASE SpawnThrows
  BY <1>11, <1>threads DEF SpawnThrows, Terminate, PrefillInv, ReadInv, Running
<1>12. ASSUME NEW t \in Threads, Arrive(t) \/ Pass(t) PROVE PrefillInv' /\ ReadInv'
  <2>1. t \in Readers => pc[t] \in {"start", "waiting"} /\ pc'[t] \in {"waiting", "open"}
    BY <1>12, <1>threads DEF Arrive, Pass, Goto
  <2>2. \A r \in Readers : r # t => pc'[r] = pc[r]
    BY <1>12, <1>threads DEF Arrive, Pass, Goto
  <2>3. UNCHANGED <<main, stored, opened, cursor, scanned>>
    BY <1>12 DEF Arrive, Pass
  <2> QED
    BY <2>1, <2>2, <2>3 DEF PrefillInv, ReadInv, Running
<1>13. CASE WriterPrepare \/ WriterStamp \/ WriterSync \/ WriterStop \/ WriterThrows
  <2>1. \A r \in Readers : pc'[r] = pc[r]
    BY <1>13, <1>threads
       DEF WriterPrepare, WriterStamp, WriterSync, WriterStop, WriterThrows, Goto
  <2>2. UNCHANGED <<main, stored, opened, cursor, scanned>>
    BY <1>13 DEF WriterPrepare, WriterStamp, WriterSync, SyncBoundary, WriterStop, WriterThrows
  <2> QED
    BY <2>1, <2>2 DEF PrefillInv, ReadInv, Running
<1>14. ASSUME NEW r \in Readers, ReaderStop(r) PROVE PrefillInv' /\ ReadInv'
  <2>1. /\ pc[r] = "loop" /\ pc'[r] = "done"
        /\ \A u \in Readers : u # r => pc'[u] = pc[u]
    BY <1>14, <1>threads DEF ReaderStop, Goto
  <2>2. UNCHANGED <<main, stored, opened, cursor, scanned>>
    BY <1>14 DEF ReaderStop
  <2> QED
    BY <2>1, <2>2 DEF PrefillInv, ReadInv, Running
<1>15. ASSUME NEW r \in Readers, ReaderThrows(r) PROVE PrefillInv' /\ ReadInv'
  BY <1>15, <1>threads DEF ReaderThrows, Terminate, PrefillInv, ReadInv, Running
<1>16. CASE UNCHANGED vars
  BY <1>16 DEF PrefillInv, ReadInv, Running
<1> QED
  BY <1>threads, <1>1, <1>2, <1>3, <1>4, <1>5, <1>6, <1>7, <1>8, <1>9, <1>10, <1>11, <1>12,
     <1>13, <1>14, <1>15, <1>16
     DEF Next, MainStep, WriterStep, ReaderStep, Over

\* "readers always have data to scan" (concurrent_readers.cpp:120): for all sizes of
\* prefill and scan, and whatever the writer does meanwhile, a target is found and a
\* whole scan follows it in what the iterator is sure to see.
THEOREM ReadersAlwaysHaveData == Spec => []ReadersNeverRunDry
<1>1. Init => PrefillInv /\ ReadInv
  BY ThreadFacts DEF Init, PrefillInv, ReadInv, Running, NotReading
<1>2. ThreadInv /\ PrefillInv /\ ReadInv => ReadersNeverRunDry
  <2> SUFFICES ASSUME ThreadInv, PrefillInv, ReadInv, NEW r \in Readers, pc[r] = "loop",
                      NEW target \in Targets
               PROVE  \E i \in Found(target, opened[r]) : i + ScanFrames - 1 <= opened[r]
    BY DEF ReadInv, ReadersNeverRunDry
  <2>1. opened[r] \in Nat /\ PrefillFrames <= opened[r] /\ opened[r] <= Len(stored)
    BY DEF ThreadInv, TypeOK, ReadInv
  <2>2. PICK i \in Found(target, opened[r]) : i \in Nat /\ i + ScanFrames - 1 <= PrefillFrames
    BY <2>1, FoundLeavesAScan
  <2> QED
    BY <2>1, <2>2, SizesAssumption
<1> QED
  BY <1>1, <1>2, ThreadInvariance, NextPreservesReadInv, PTL DEF Spec


------------------------------------------------------------------------------
(* Counts *)

\* One step of a sum that is taken from the last number to the first, as FoldLeft does
\* over the sets of indices.
SumStep(base, v, n, sum) ==
    [S \in SUBSET (1 .. n) |->
        IF S = {} THEN base ELSE sum[S \ {Max(S)}] + v[Max(S)].writer_ops]
IsSum(base, v, n, sum) == sum = SumStep(base, v, n, sum)

\* The largest of the first k numbers, and what is left without it.
LEMMA LargestOfFirst ==
  ASSUME NEW k \in Nat \ {0}, NEW S \in SUBSET (1 .. k), k \in S
  PROVE  Max(S) = k /\ S \ {k} \in SUBSET (1 .. k - 1)
<1>1. k \in S /\ \A y \in S : k >= y
  OBVIOUS
<1>2. \A x \in S : (\A y \in S : x >= y) => x = k
  OBVIOUS
<1>3. Max(S) = k
  BY <1>1, <1>2, Zenon DEF Max
<1> QED
  BY <1>3

\* There is such a sum for any sequence.
LEMMA SumExists ==
  ASSUME NEW base, NEW v, NEW len \in Nat
  PROVE  \E sum : sum = SumStep(base, v, len, sum)
<1> DEFINE Good(n) == \E sum : sum = SumStep(base, v, n, sum)
           Bad == {n \in Nat : ~Good(n)}
<1>1. Good(0)
  <2> DEFINE sum == [S \in SUBSET (1 .. 0) |-> base]
  <2>1. \A S \in SUBSET (1 .. 0) : S = {}
    OBVIOUS
  <2>2. sum = SumStep(base, v, 0, sum)
    BY <2>1 DEF SumStep
  <2> HIDE DEF sum
  <2> QED
    BY <2>2
<1>2. ASSUME NEW m \in Nat \ {0}, Good(m - 1) PROVE Good(m)
  <2>1. PICK sum : sum = SumStep(base, v, m - 1, sum)
    BY <1>2
  <2> DEFINE more == [S \in SUBSET (1 .. m) |->
                        IF m \in S THEN sum[S \ {m}] + v[m].writer_ops ELSE sum[S]]
             value(S) == IF S = {} THEN base ELSE more[S \ {Max(S)}] + v[Max(S)].writer_ops
  <2>2. \A S \in SUBSET (1 .. m) : m \notin S => S \in SUBSET (1 .. m - 1)
    OBVIOUS
  <2>3. \A S \in SUBSET (1 .. m - 1) :
          /\ sum[S] = IF S = {} THEN base ELSE sum[S \ {Max(S)}] + v[Max(S)].writer_ops
          /\ more[S] = sum[S]
    <3> TAKE S \in SUBSET (1 .. m - 1)
    <3>1. SumStep(base, v, m - 1, sum)[S]
            = IF S = {} THEN base ELSE sum[S \ {Max(S)}] + v[Max(S)].writer_ops
      BY DEF SumStep
    <3>2. S \in SUBSET (1 .. m) /\ m \notin S
      OBVIOUS
    <3> QED
      BY <2>1, <3>1, <3>2
  <2>4. ASSUME NEW S \in SUBSET (1 .. m) PROVE more[S] = value(S)
    <3>1. CASE m \in S
      <4>1. Max(S) = m /\ S \ {m} \in SUBSET (1 .. m - 1)
        BY <3>1, LargestOfFirst
      <4>2. more[S] = sum[S \ {m}] + v[m].writer_ops /\ more[S \ {m}] = sum[S \ {m}]
        BY <2>3, <3>1, <4>1
      <4> HIDE DEF more
      <4> QED
        BY <3>1, <4>1, <4>2
    <3>2. CASE m \notin S
      <4>1. S \in SUBSET (1 .. m - 1) /\ S \ {Max(S)} \in SUBSET (1 .. m - 1)
        BY <2>2, <3>2
      <4>2. more[S] = sum[S] /\ more[S \ {Max(S)}] = sum[S \ {Max(S)}]
        BY <2>3, <4>1
      <4> HIDE DEF more
      <4> QED
        BY <2>3, <4>1, <4>2
    <3> QED
      BY <3>1, <3>2
  <2>5. more = [S \in SUBSET (1 .. m) |-> more[S]]
    OBVIOUS
  <2>6. more = SumStep(base, v, m, more)
    <3> HIDE DEF more
    <3> QED
      BY <2>4, <2>5, Zenon DEF SumStep
  <2> HIDE DEF more
  <2> QED
    BY <2>6
<1>3. SUFFICES ASSUME Bad # {} PROVE FALSE
  OBVIOUS
<1>4. PICK m \in Bad : \A k \in Bad : m <= k
  <2>1. Bad \in SUBSET Nat
    OBVIOUS
  <2> HIDE DEF Bad
  <2> QED
    BY <1>3, <2>1, LeastNumber
<1> HIDE DEF Good
<1>5. m \in Nat /\ ~Good(m)
  OBVIOUS
<1>6. m # 0
  BY <1>1, <1>5
<1>7. m - 1 \in Nat /\ ~(m <= m - 1)
  BY <1>5, <1>6
<1>8. Good(m - 1)
  BY <1>4, <1>7
<1> QED
  BY <1>2, <1>5, <1>6, <1>8

\* Of the first k numbers it is that of the k - 1 before, and the k-th.
LEMMA SumOfFirst ==
  ASSUME NEW base, NEW v, NEW n \in Nat, NEW f, IsSum(base, v, n, f)
  PROVE  /\ f[1 .. 0] = base
         /\ \A k \in 1 .. n : f[1 .. k] = f[1 .. k - 1] + v[k].writer_ops
<1>1. \A S \in SUBSET (1 .. n) :
        f[S] = IF S = {} THEN base ELSE f[S \ {Max(S)}] + v[Max(S)].writer_ops
  <2> TAKE S \in SUBSET (1 .. n)
  <2>1. SumStep(base, v, n, f)[S]
          = IF S = {} THEN base ELSE f[S \ {Max(S)}] + v[Max(S)].writer_ops
    BY DEF SumStep
  <2> QED
    BY <2>1 DEF IsSum
<1>2. 1 .. 0 = {} /\ 1 .. 0 \in SUBSET (1 .. n)
  OBVIOUS
<1>3. ASSUME NEW k \in 1 .. n PROVE f[1 .. k] = f[1 .. k - 1] + v[k].writer_ops
  <2>1. k \in Nat \ {0} /\ 1 .. k \in SUBSET (1 .. k) /\ k \in 1 .. k
    OBVIOUS
  <2>2. Max(1 .. k) = k
    BY <2>1, LargestOfFirst
  <2>3. 1 .. k \in SUBSET (1 .. n) /\ 1 .. k # {} /\ (1 .. k) \ {k} = 1 .. k - 1
    OBVIOUS
  <2> QED
    BY <1>1, <2>2, <2>3
<1>4. f[1 .. 0] = base
  BY <1>1, <1>2
<1> QED
  BY <1>3, <1>4

\* FoldLeft over the results is such a sum.
LEMMA TotalIsASum ==
  ASSUME NEW R, NEW subs \in Seq(R)
  PROVE  \E sum : /\ IsSum(PrefillFrames, subs, Len(subs), sum)
                  /\ Total(subs) = sum[1 .. Len(subs)]
<1> DEFINE sum == CHOOSE f : f = SumStep(PrefillFrames, subs, Len(subs), f)
<1>1. Len(subs) \in Nat /\ DOMAIN subs = 1 .. Len(subs)
  BY LenProperties
<1>2. sum = SumStep(PrefillFrames, subs, Len(subs), sum)
  <2>1. \E f : f = SumStep(PrefillFrames, subs, Len(subs), f)
    BY <1>1, SumExists
  <2> QED
    BY <2>1, Zenon
<1>3. Total(subs) = sum[1 .. Len(subs)]
  BY <1>1, Zenon DEF Total, FoldLeft, MapThenFoldSet, SumStep
<1> HIDE DEF sum
<1>4. IsSum(PrefillFrames, subs, Len(subs), sum)
  BY <1>2, Zenon DEF IsSum
<1> QED
  BY <1>3, <1>4

\* Nothing but the prefill at first, and each result adds its count.
LEMMA TotalOfNone == Total(<<>>) = PrefillFrames
<1>1. <<>> \in Seq(Nat) /\ Len(<<>>) = 0
  BY EmptySeq
<1>2. PICK sum : /\ IsSum(PrefillFrames, <<>>, 0, sum)
                 /\ Total(<<>>) = sum[1 .. 0]
  BY <1>1, TotalIsASum
<1> QED
  BY <1>2, SumOfFirst

LEMMA TotalOfMore ==
  ASSUME NEW R, NEW subs \in Seq(R), NEW e \in R
  PROVE  Total(Append(subs, e)) = Total(subs) + e.writer_ops
<1> DEFINE n == Len(subs)
           longer == Append(subs, e)
<1>1. /\ n \in Nat /\ longer \in Seq(R) /\ Len(longer) = n + 1
      /\ \A k \in 1 .. n : longer[k] = subs[k]
      /\ longer[n + 1] = e
  BY AppendProperties, LenProperties
<1> HIDE DEF longer, n
<1>2. PICK sum : IsSum(PrefillFrames, subs, n, sum) /\ Total(subs) = sum[1 .. n]
  BY TotalIsASum DEF n
<1>3. PICK sum2 : /\ IsSum(PrefillFrames, longer, n + 1, sum2)
                  /\ Total(longer) = sum2[1 .. n + 1]
  BY <1>1, TotalIsASum
<1>4. /\ sum[1 .. 0] = PrefillFrames
      /\ \A k \in 1 .. n : sum[1 .. k] = sum[1 .. k - 1] + subs[k].writer_ops
  BY <1>1, <1>2, SumOfFirst
<1>5. /\ sum2[1 .. 0] = PrefillFrames
      /\ \A k \in 1 .. n + 1 : sum2[1 .. k] = sum2[1 .. k - 1] + longer[k].writer_ops
  BY <1>1, <1>3, SumOfFirst
<1>6. \A k \in 0 .. n : sum2[1 .. k] = sum[1 .. k]
  <2> DEFINE Bad == {k \in 0 .. n : sum2[1 .. k] # sum[1 .. k]}
  <2>1. SUFFICES ASSUME Bad # {} PROVE FALSE
    OBVIOUS
  <2>2. PICK k \in Bad : \A j \in Bad : k <= j
    <3>1. Bad \in SUBSET Nat
      BY <1>1
    <3> HIDE DEF Bad
    <3> QED
      BY <2>1, <3>1, LeastNumber
  <2>3. k \in 0 .. n /\ sum2[1 .. k] # sum[1 .. k]
    OBVIOUS
  <2>4. k # 0
    BY <1>4, <1>5, <2>3
  <2>5. k \in 1 .. n /\ k \in 1 .. n + 1 /\ k - 1 \in 0 .. n /\ ~(k <= k - 1)
    BY <1>1, <2>3, <2>4
  <2>6. sum2[1 .. k - 1] = sum[1 .. k - 1]
    BY <2>2, <2>5
  <2> QED
    BY <1>1, <1>4, <1>5, <2>3, <2>5, <2>6
<1>7. n \in 0 .. n /\ n + 1 \in 1 .. n + 1 /\ n + 1 - 1 = n
  BY <1>1
<1>8. sum2[1 .. n] = sum[1 .. n] /\ sum2[1 .. n + 1] = sum2[1 .. n] + e.writer_ops
  BY <1>1, <1>5, <1>6, <1>7
<1> QED
  BY <1>2, <1>3, <1>8 DEF longer


\* Every step keeps the account.
LEMMA NextPreservesOpsInv == ThreadInv /\ OpsInv /\ [Next]_vars => OpsInv'
<1> SUFFICES ASSUME ThreadInv, OpsInv, [Next]_vars PROVE OpsInv'
  OBVIOUS
<1> USE DEF vars, progress, shared, writing, reading, backend, Running
<1>threads. Writer \in Threads /\ pc \in [Threads -> ThreadLocations]
  BY ThreadFacts DEF ThreadInv, TypeOK
<1>numbers. stored \in Seq(Nat) /\ Len(stored) \in Nat /\ writerOps \in Nat
  BY LenProperties DEF ThreadInv, TypeOK
<1>totals. /\ results' = results => Total(results)' = Total(results)
           /\ results' = results /\ UNCHANGED <<main, writerOps, stored>> => OpsInv'
  <2>1. results' = results => Total(results)' = Total(results)
    BY Zenon
  <2> QED
    BY <2>1 DEF OpsInv
<1>1. CASE PrefillEnd
  <2>1. Total(results) = Len(stored)
    BY <1>1, TotalOfNone DEF PrefillEnd, PrefillDone, OpsInv
  <2> QED
    BY <1>1, <1>totals, <2>1 DEF PrefillEnd, OpsInv
<1>2. CASE Launch
  <2>1. Total(results) = Len(stored) /\ Total(results)' = Total(results)
    BY <1>2, <1>totals DEF Launch, OpsInv
  <2>2. Total(results) + 0 = Len(stored)
    BY <1>numbers, <2>1
  <2> QED
    BY <1>2, <2>1, <2>2 DEF Launch, OpsInv
<1>3. CASE WriterWrite
  <2>1. main \in {"spawn", "window", "join"} /\ main' = main /\ results' = results
    BY <1>3, <1>threads DEF WriterWrite, ThreadInv, LocationInv, TypeOK, MainLocations
  <2>2. Total(results) + writerOps = Len(stored) /\ Total(results)' = Total(results)
    BY <1>totals, <2>1 DEF OpsInv
  <2>3. Len(stored') = Len(stored) + 1 /\ writerOps' = writerOps + 1
    BY <1>3, <1>numbers, AppendProperties DEF WriterWrite, Write, ThreadInv, TypeOK
  <2>4. Total(results) + (writerOps + 1) = Len(stored) + 1
    BY <1>numbers, <2>2 DEF OpsInv
  <2> QED
    BY <2>1, <2>2, <2>3, <2>4 DEF OpsInv
<1>4. CASE Collect
  <2> DEFINE Sub == [k : Nat, writer_ops : Nat, reader_ops : Seq(Nat)]
  <2>1. results \in Seq(Sub) /\ results' \in Seq(Sub) /\ results' = Append(results, SubResult)
    BY <1>4, NextPreservesThreadInv DEF Collect, NextSweep, ThreadInv, TypeOK
  <2>2. SubResult \in Sub
    <3>1. K \in Nat \ {0} /\ 1 .. K \subseteq Readers
      BY CrewFacts DEF ThreadInv, TypeOK, K
    <3>2. [r \in 1 .. K |-> readerOps[r]] \in [1 .. K -> Nat]
      BY <3>1 DEF ThreadInv, TypeOK
    <3>3. [r \in 1 .. K |-> readerOps[r]] \in Seq(Nat)
      BY <3>1, <3>2, SeqDef
    <3> QED
      BY <1>numbers, <3>1, <3>3 DEF SubResult
  <2>3. SubResult.writer_ops = writerOps
    BY DEF SubResult
  <2>4. Total(Append(results, SubResult)) = Total(results) + writerOps
    <3> HIDE DEF Sub
    <3> QED
      BY <2>1, <2>2, <2>3, TotalOfMore
  <2>5. Total(results)' = Total(results) + writerOps
    BY <2>1, <2>4, Zenon
  <2>6. Total(results) + writerOps = Len(stored) /\ Total(results) \in Nat /\ stored' = stored
    BY <1>4 DEF Collect, NextSweep, OpsInv
  <2>7. main' \in {"launch", "returned"}
    BY <1>4 DEF Collect, NextSweep
  <2> QED
    BY <1>numbers, <2>5, <2>6, <2>7 DEF OpsInv
<1>5. CASE PrefillWrite \/ PrefillSync \/ PrefillThrows \/ Spawn \/ SpawnThrows \/ EndWindow \/ Rethrow
  BY <1>5, <1>totals
     DEF PrefillWrite, PrefillSync, Write, SyncBoundary, PrefillThrows, Spawn, SpawnThrows, Terminate,
         EndWindow, Rethrow, OpsInv
<1>6. ASSUME NEW t \in Threads, Arrive(t) \/ Pass(t) PROVE OpsInv'
  BY <1>6, <1>totals DEF Arrive, Pass
<1>7. CASE WriterPrepare \/ WriterStamp \/ WriterSync \/ WriterStop \/ WriterThrows
  BY <1>7, <1>totals
     DEF WriterPrepare, WriterStamp, WriterSync, SyncBoundary, WriterStop, WriterThrows
<1>8. ASSUME NEW r \in Readers,
             ReaderOpen(r) \/ ReaderFind(r) \/ ReaderNext(r) \/ ReaderCount(r) \/ ReaderStop(r)
      PROVE  OpsInv'
  BY <1>8, <1>totals DEF ReaderOpen, ReaderFind, ReaderNext, ReaderCount, ReaderStop
<1>9. ASSUME NEW r \in Readers, ReaderThrows(r) PROVE OpsInv'
  BY <1>9, <1>totals DEF ReaderThrows, Terminate, OpsInv
<1>10. CASE UNCHANGED vars
  BY <1>10, <1>totals
<1> QED
  BY <1>threads, ThreadFacts, <1>1, <1>2, <1>3, <1>4, <1>5, <1>6, <1>7, <1>8, <1>9, <1>10
     DEF Next, MainStep, WriterStep, ReaderStep, Over

\* The counts reported for the writers, however many sub-experiments there have been and
\* however they interleaved, add up with the prefill to the frames that are stored.
THEOREM CountsAlwaysMatchFrames == Spec => []OpsAccountForFrames
<1>1. Init => OpsInv
  BY TotalOfNone, SizesAssumption DEF Init, OpsInv, Running
<1>2. OpsInv => OpsAccountForFrames
  BY DEF OpsInv, OpsAccountForFrames, Total
<1> QED
  BY <1>1, <1>2, ThreadInvariance, NextPreservesOpsInv, PTL DEF Spec

==============================================================================
