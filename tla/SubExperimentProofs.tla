-------------------------- MODULE SubExperimentProofs --------------------------
(***************************************************************************)
(* What the threads of a sub-experiment of multi_stream_write and           *)
(* write_read_contention preserve, action by action, for any number n of    *)
(* them and any calls that throw, and what its reports are worth: sorting,  *)
(* percentiles, summaries of summaries and sums. The workloads' own proof   *)
(* modules show that they take no other steps than those considered here.   *)
(***************************************************************************)
EXTENDS SubExperiment, FiniteSetTheorems, SequenceTheorems, WellFoundedInduction, TLAPS

MainLocations == {"prefill", "prewarm", "launch", "spawn", "window", "join",
                  "returned", "threw", "terminated"}

Filling == main \in {"prefill", "prewarm", "launch"}
Running == main \in {"spawn", "window", "join"}
Quiet   == Filling \/ main \in {"returned", "threw"}

Measuring(t) == pc[t] \in {"loop", "busy"}

\* The threads the latch is still waiting for.
Unarrived(n) == {t \in 1 .. n : pc[t] \in {"off", "prepare", "start"}}

\* Where the threads stand, given where the main thread stands.
PlaceInv(n) ==
    /\ main \in MainLocations
    /\ spawned \in Nat
    /\ pc \in [Threads -> ThreadLocations]
    /\ Quiet => \A t \in Threads : pc[t] \in {"off", "done"}
    /\ main = "terminated" => \A t \in Threads : pc[t] = "killed"
    /\ Running => \A t \in Threads : pc[t] # "killed" /\ (t > spawned => pc[t] = "off")
    /\ main = "spawn" => spawned < n
    /\ main \in {"window", "join"} => spawned = n

\* The latch never counts fewer threads than it has to wait for (it counts more when
\* a preparation threw), and is at zero once anybody is through.
LatchInv(n) ==
    Running => /\ latch \in Int
               /\ latch >= Cardinality(Unarrived(n))
               /\ (\E t \in Threads : Measuring(t)) => latch = 0

\* A thread whose call threw has ended and is found in its own slot, and the first
\* of them in what run() throws.
FailureInv(n) ==
    /\ slots \in [Threads -> Threads \cup {None}]
    /\ \A t \in Threads : slots[t] \in {None, t}
    /\ Filling \/ main = "returned" => blown = {}
    /\ Running => /\ blown = Held(n)
                  /\ \A t \in blown : pc[t] = "done"
    /\ main = "threw" => blown # {} /\ thrown = Min(blown)

CrewInv(n) == PlaceInv(n) /\ LatchInv(n) /\ FailureInv(n)

------------------------------------------------------------------------------
(* Sets of threads *)

\* There are no more threads than the largest K allows.
LEMMA CountFacts ==
    ASSUME NEW i \in DOMAIN Counts
    PROVE  /\ Counts[i] \in 1 .. MaxK /\ Counts[i] \in 1 .. 2 * MaxK
           /\ 2 * Counts[i] \in 1 .. 2 * MaxK
<1>1. MaxK \in Nat \ {0} /\ Counts[i] \in 1 .. MaxK
  BY CountsAssumption
<1>. QED BY <1>1

\* The numbers of a crew.
LEMMA CrewFacts ==
    ASSUME NEW n \in 1 .. 2 * MaxK
    PROVE  /\ n \in Nat \ {0} /\ 1 .. n \subseteq Threads /\ Threads \subseteq Nat \ {0}
           /\ IsFiniteSet(1 .. n) /\ Cardinality(1 .. n) = n
           /\ None \notin Threads /\ Main \notin Threads
<1>1. MaxK \in Nat \ {0}
  BY CountsAssumption
<1>2. n \in Nat \ {0} /\ 1 .. n \subseteq Threads /\ Threads \subseteq Nat \ {0}
  BY <1>1 DEF Threads
<1>3. IsFiniteSet(1 .. n) /\ Cardinality(1 .. n) = n
  BY <1>2, FS_Interval
<1>. QED BY <1>2, <1>3 DEF None, Main

\* Unarrived threads can be counted.
LEMMA UnarrivedFinite ==
    ASSUME NEW n \in 1 .. 2 * MaxK
    PROVE  /\ IsFiniteSet(Unarrived(n))
           /\ Cardinality(Unarrived(n)) \in Nat
           /\ Cardinality(Unarrived(n)) = 0 <=> Unarrived(n) = {}
<1>1. IsFiniteSet(Unarrived(n))
  BY CrewFacts, FS_Subset DEF Unarrived
<1>. QED BY <1>1, FS_CardinalityType, FS_EmptySet

\* A step that makes nobody unarrived counts no more of them.
LEMMA FewerUnarrived ==
    ASSUME NEW n \in 1 .. 2 * MaxK, Unarrived(n)' \subseteq Unarrived(n)
    PROVE  /\ Cardinality(Unarrived(n)') \in Nat
           /\ Cardinality(Unarrived(n)') <= Cardinality(Unarrived(n))
<1>1. IsFiniteSet(Unarrived(n))
  BY UnarrivedFinite
<1>. QED BY <1>1, FS_Subset, FS_CardinalityType

\* A step that leaves the latch alone keeps its lead when nobody becomes unarrived
\* and nobody starts measuring but at zero.
LEMMA LatchKept ==
    ASSUME NEW n \in 1 .. 2 * MaxK, LatchInv(n), latch' = latch, Running' => Running,
           Unarrived(n)' \subseteq Unarrived(n),
           \A t \in Threads : Measuring(t)' => Measuring(t) \/ latch = 0
    PROVE  LatchInv(n)'
<1>1. Cardinality(Unarrived(n)) \in Nat
  BY UnarrivedFinite
<1>2. Cardinality(Unarrived(n)') \in Nat
      /\ Cardinality(Unarrived(n)') <= Cardinality(Unarrived(n))
  BY FewerUnarrived
<1>. QED BY <1>1, <1>2 DEF LatchInv

\* A set of numbers has a least one.
LEMMA LeastNumber ==
    ASSUME NEW S \in SUBSET Nat, S # {}
    PROVE  Min(S) \in S /\ \A m \in S : Min(S) <= m
<1>. DEFINE R == {p \in Nat \X Nat : p[1] < p[2]}
<1>1. IsWellFoundedOn(R, Nat)
  BY NatLessThanWellFounded, Zenon DEF OpToRel
<1>2. PICK m \in S : \A k \in S : <<k, m>> \notin R
  <2>. HIDE DEF R
  <2>. QED BY <1>1, WFMin
<1>3. \A k \in S : m <= k
  <2>1. \A k \in S : ~(k < m)
    BY <1>2
  <2>. QED BY <2>1
<1>4. \E x \in S : \A y \in S : x <= y
  BY <1>3
<1>. QED BY <1>4, Zenon DEF Min

------------------------------------------------------------------------------
(* The main thread *)

\* The next sub-experiment's threads are not there yet: a main thread that fills
\* streams, or goes on from it, finds no thread and no failure.
LEMMA FillingKeeps ==
    ASSUME NEW n \in 1 .. 2 * MaxK, CrewInv(n), Filling, Filling',
           UNCHANGED <<locals, pc, blown, thrown>>
    PROVE  \A m \in 1 .. 2 * MaxK : CrewInv(m)'
<1>. SUFFICES ASSUME NEW m \in 1 .. 2 * MaxK PROVE CrewInv(m)'
  OBVIOUS
<1>1. PlaceInv(m)'
  BY DEF CrewInv, PlaceInv, Filling, Running, Quiet, MainLocations, locals
<1>2. LatchInv(m)'
  BY DEF LatchInv, Filling, Running
<1>3. FailureInv(m)'
  BY DEF CrewInv, FailureInv, Filling, Running, locals
<1>. QED BY <1>1, <1>2, <1>3 DEF CrewInv

\* A call of the main thread throws.
LEMMA MainThrowsKeeps ==
    ASSUME NEW n \in 1 .. 2 * MaxK, CrewInv(n), Filling, NEW kind, MainThrows(kind)
    PROVE  CrewInv(n)'
<1>1. PlaceInv(n)'
  BY DEF CrewInv, PlaceInv, MainThrows, Filling, Running, Quiet, MainLocations, locals
<1>2. LatchInv(n)'
  BY DEF LatchInv, Running, MainThrows
<1>3. blown' = {Main}
  BY DEF CrewInv, FailureInv, MainThrows, Throws
<1>4. Min({Main}) = Main
  BY LeastNumber DEF Main
<1>5. FailureInv(n)'
  BY <1>3, <1>4 DEF CrewInv, FailureInv, MainThrows, Filling, Running, locals
<1>. QED BY <1>1, <1>2, <1>5 DEF CrewInv

\* A sub-experiment begins with a latch for all of its threads.
LEMMA LaunchKeeps ==
    ASSUME NEW n \in 1 .. 2 * MaxK, CrewInv(n), Launch(n)
    PROVE  CrewInv(n)'
<1>1. n \in Nat \ {0} /\ 1 .. n \subseteq Threads /\ Threads \subseteq Nat \ {0}
  BY CrewFacts
<1>2. PlaceInv(n)'
  <2>1. pc' \in [Threads -> ThreadLocations] /\ \A t \in Threads : pc'[t] = "off"
    BY DEF Launch, ThreadLocations
  <2>. QED BY <1>1, <2>1 DEF PlaceInv, Launch, Filling, Running, Quiet, MainLocations
<1>3. LatchInv(n)'
  <2>1. \A t \in Threads : pc'[t] = "off"
    BY DEF Launch
  <2>2. Unarrived(n)' = 1 .. n
    BY <1>1, <2>1 DEF Unarrived
  <2>3. Cardinality(Unarrived(n)') = n
    BY <2>2, CrewFacts
  <2>4. latch' = n
    BY DEF Launch, LatchSize
  <2>. QED BY <1>1, <2>1, <2>3, <2>4 DEF LatchInv, Measuring
<1>4. FailureInv(n)'
  <2>1. slots' \in [Threads -> Threads \cup {None}] /\ \A t \in Threads : slots'[t] = None
    BY DEF Launch
  <2>2. Held(n)' = {}
    BY <1>1, <2>1 DEF Held
  <2>3. blown' = {}
    BY DEF Launch, CrewInv, FailureInv, Filling
  <2>4. main' = "spawn"
    BY DEF Launch
  <2>. QED BY <2>1, <2>2, <2>3, <2>4 DEF FailureInv, Filling, Running
<1>. QED BY <1>2, <1>3, <1>4 DEF CrewInv

\* A thread is started.
LEMMA SpawnKeeps ==
    ASSUME NEW n \in 1 .. 2 * MaxK, CrewInv(n), Spawn(n)
    PROVE  CrewInv(n)'
<1>1. n \in Nat \ {0} /\ 1 .. n \subseteq Threads /\ Threads \subseteq Nat \ {0}
  BY CrewFacts
<1>2. /\ spawned' \in 1 .. n /\ spawned' = spawned + 1 /\ spawned \in Nat
      /\ pc[spawned'] = "off"
  BY <1>1 DEF CrewInv, PlaceInv, Spawn, Running
<1>3. /\ pc' \in [Threads -> ThreadLocations] /\ pc'[spawned'] = "prepare"
      /\ \A t \in Threads : t # spawned' => pc'[t] = pc[t]
  BY <1>1, <1>2 DEF CrewInv, PlaceInv, Spawn, ThreadLocations
<1>4. main = "spawn" /\ main' \in {"spawn", "window"}
      /\ (main' = "spawn" <=> spawned' # n)
  BY DEF Spawn
<1>5. PlaceInv(n)'
  BY <1>1, <1>2, <1>3, <1>4
     DEF CrewInv, PlaceInv, Filling, Running, Quiet, MainLocations
<1>6. LatchInv(n)'
  <2>1. Unarrived(n)' \subseteq Unarrived(n)
    BY <1>1, <1>2, <1>3 DEF Unarrived
  <2>2. \A t \in Threads : Measuring(t)' => Measuring(t)
    BY <1>3 DEF Measuring
  <2>3. latch' = latch /\ Running
    BY DEF Spawn, Running
  <2>. QED BY <2>1, <2>2, <2>3, LatchKept DEF CrewInv
<1>7. FailureInv(n)'
  <2>1. UNCHANGED <<slots, blown, thrown>>
    BY DEF Spawn
  <2>2. Held(n)' = Held(n)
    BY <2>1 DEF Held
  <2>3. \A t \in blown : t \in Threads /\ t # spawned'
    BY <1>1, <1>2, <1>4 DEF CrewInv, FailureInv, Running, Held
  <2>. QED BY <1>3, <1>4, <2>1, <2>2, <2>3 DEF CrewInv, FailureInv, Filling, Running
<1>. QED BY <1>5, <1>6, <1>7 DEF CrewInv

\* The creation of a thread throws: with no thread there yet the caller hears of it,
\* otherwise nothing is left running.
LEMMA SpawnThrowsKeeps ==
    ASSUME NEW n \in 1 .. 2 * MaxK, CrewInv(n), SpawnThrows
    PROVE  CrewInv(n)'
<1>1. n \in Nat \ {0} /\ 1 .. n \subseteq Threads /\ Threads \subseteq Nat \ {0}
  BY CrewFacts
<1>2. main' \in {"threw", "terminated"} /\ UNCHANGED <<spawned, slots>>
  BY DEF SpawnThrows, locals
<1>3. LatchInv(n)'
  BY <1>2 DEF LatchInv, Running
<1>4. CASE spawned = 0
  <2>1. main' = "threw" /\ pc' = pc /\ thrown' = Main /\ blown' = blown \cup {Main}
    BY <1>4 DEF SpawnThrows, Throws
  <2>2. \A t \in Threads : pc[t] = "off"
    BY <1>1, <1>4 DEF CrewInv, PlaceInv, SpawnThrows, Running
  <2>3. PlaceInv(n)'
    BY <1>2, <2>1, <2>2 DEF CrewInv, PlaceInv, Filling, Running, Quiet, MainLocations
  <2>4. blown = {}
    BY <1>1, <2>2 DEF CrewInv, FailureInv, SpawnThrows, Running, Held
  <2>5. Min({Main}) = Main
    BY LeastNumber DEF Main
  <2>6. FailureInv(n)'
    BY <1>2, <2>1, <2>4, <2>5 DEF CrewInv, FailureInv, Filling, Running
  <2>. QED BY <1>3, <2>3, <2>6 DEF CrewInv
<1>5. CASE spawned # 0
  <2>1. main' = "terminated" /\ pc' = [t \in Threads |-> "killed"]
    BY <1>5 DEF SpawnThrows
  <2>2. PlaceInv(n)'
    <3>1. pc' \in [Threads -> ThreadLocations] /\ \A t \in Threads : pc'[t] = "killed"
      BY <2>1 DEF ThreadLocations
    <3>. QED BY <1>2, <2>1, <3>1 DEF CrewInv, PlaceInv, Filling, Running, Quiet, MainLocations
  <2>3. FailureInv(n)'
    BY <1>2, <2>1 DEF CrewInv, FailureInv, Filling, Running
  <2>. QED BY <1>3, <2>2, <2>3 DEF CrewInv
<1>. QED BY <1>4, <1>5

\* Stop is raised.
LEMMA EndWindowKeeps ==
    ASSUME NEW n \in 1 .. 2 * MaxK, CrewInv(n), EndWindow
    PROVE  CrewInv(n)'
<1>1. PlaceInv(n)'
  BY DEF CrewInv, PlaceInv, EndWindow, Filling, Running, Quiet, MainLocations
<1>2. LatchInv(n)'
  <2>1. Unarrived(n)' = Unarrived(n)
    BY DEF EndWindow, Unarrived
  <2>2. Running /\ latch' = latch /\ \A t \in Threads : Measuring(t)' <=> Measuring(t)
    BY DEF EndWindow, Running, Measuring
  <2>. QED BY <2>1, <2>2, LatchKept DEF CrewInv
<1>3. FailureInv(n)'
  BY DEF CrewInv, FailureInv, EndWindow, Filling, Running, Held
<1>. QED BY <1>1, <1>2, <1>3 DEF CrewInv

\* Once the crew is joined, no thread is left.
LEMMA Joined ==
    ASSUME NEW n \in 1 .. 2 * MaxK, CrewInv(n), main = "join", AllJoined(n)
    PROVE  \A t \in Threads : pc[t] \in {"off", "done"}
<1>1. n \in Nat \ {0} /\ 1 .. n \subseteq Threads /\ Threads \subseteq Nat \ {0}
  BY CrewFacts
<1>. QED BY <1>1 DEF AllJoined, CrewInv, PlaceInv, Running

\* The main thread throws what the first thread has left.
LEMMA RethrowKeeps ==
    ASSUME NEW n \in 1 .. 2 * MaxK, CrewInv(n), Rethrow(n)
    PROVE  CrewInv(n)'
<1>1. main = "join" /\ main' = "threw" /\ UNCHANGED <<spawned, slots, pc, blown>>
  BY DEF Rethrow, locals
<1>2. PlaceInv(n)'
  BY <1>1, Joined DEF CrewInv, Rethrow, PlaceInv, Filling, Running, Quiet, MainLocations
<1>3. LatchInv(n)'
  BY <1>1 DEF LatchInv, Running
<1>4. FailureInv(n)'
  <2>1. blown = Held(n) /\ Held(n) # {}
    BY <1>1 DEF CrewInv, FailureInv, Rethrow, Running
  <2>2. Min(Held(n)) \in Held(n)
    BY <2>1, CrewFacts, LeastNumber DEF Held
  <2>3. slots[Min(Held(n))] = Min(Held(n))
    BY <2>2, CrewFacts DEF CrewInv, FailureInv, Held
  <2>4. thrown' = Min(blown')
    BY <1>1, <2>1, <2>3 DEF Rethrow
  <2>. QED BY <1>1, <2>1, <2>4 DEF CrewInv, FailureInv, Filling, Running
<1>. QED BY <1>2, <1>3, <1>4 DEF CrewInv

\* Results are collected when no thread is left and none has failed.
LEMMA CollectKeeps ==
    ASSUME NEW n \in 1 .. 2 * MaxK, CrewInv(n), NEW next \in {"prewarm", "launch"},
           Collect(n, next)
    PROVE  \A m \in 1 .. 2 * MaxK : CrewInv(m)'
<1>. SUFFICES ASSUME NEW m \in 1 .. 2 * MaxK PROVE CrewInv(m)'
  OBVIOUS
<1>1. /\ main = "join" /\ main' \in {"prewarm", "launch", "returned"}
      /\ UNCHANGED <<spawned, slots, pc, blown>>
  BY DEF Collect, locals
<1>2. PlaceInv(m)'
  BY <1>1, Joined DEF CrewInv, Collect, PlaceInv, Filling, Running, Quiet, MainLocations
<1>3. LatchInv(m)'
  BY <1>1 DEF LatchInv, Running
<1>4. blown = {}
  BY <1>1 DEF CrewInv, FailureInv, Collect, Running
<1>5. FailureInv(m)'
  BY <1>1, <1>4 DEF CrewInv, FailureInv, Filling, Running
<1>. QED BY <1>2, <1>3, <1>5 DEF CrewInv

------------------------------------------------------------------------------
(* The threads *)

\* A thread that is under way is one of the crew of a sub-experiment that runs, and
\* moves alone.
LEMMA ThreadMoves ==
    ASSUME NEW n \in 1 .. 2 * MaxK, CrewInv(n), NEW t \in 1 .. n,
           pc[t] \notin {"off", "done", "killed"},
           NEW loc \in ThreadLocations \ {"off", "killed"}, Goto(t, loc),
           UNCHANGED <<main, spawned>>
    PROVE  /\ Running /\ Running'
           /\ t \in Threads /\ pc'[t] = loc
           /\ \A u \in Threads : u # t => pc'[u] = pc[u]
           /\ PlaceInv(n)'
<1>1. n \in Nat \ {0} /\ 1 .. n \subseteq Threads /\ Threads \subseteq Nat \ {0}
  BY CrewFacts
<1>2. Running /\ Running'
  BY <1>1 DEF CrewInv, PlaceInv, Running, Quiet, Filling, MainLocations
<1>3. /\ pc' \in [Threads -> ThreadLocations] /\ pc'[t] = loc
      /\ \A u \in Threads : u # t => pc'[u] = pc[u]
  BY <1>1 DEF CrewInv, PlaceInv, Goto
<1>4. t <= spawned
  BY <1>1, <1>2 DEF CrewInv, PlaceInv
<1>5. PlaceInv(n)'
  BY <1>1, <1>2, <1>3, <1>4 DEF CrewInv, PlaceInv, Running, Quiet, Filling
<1>. QED BY <1>1, <1>2, <1>3, <1>5

\* Nothing has failed while a thread moves on that has not.
LEMMA MoveKeepsFailures ==
    ASSUME NEW n \in 1 .. 2 * MaxK, CrewInv(n), NEW t \in 1 .. n, Running, Running',
           pc[t] # "done", \A u \in Threads : u # t => pc'[u] = pc[u],
           UNCHANGED <<slots, blown>>
    PROVE  FailureInv(n)'
<1>1. 1 .. n \subseteq Threads
  BY CrewFacts
<1>2. blown = Held(n) /\ Held(n)' = Held(n)
  BY DEF CrewInv, FailureInv, Held
<1>3. \A u \in blown : u \in Threads /\ u # t
  BY <1>1, <1>2 DEF CrewInv, FailureInv, Held
<1>4. main \notin {"returned", "threw"} /\ ~Filling'
      /\ main' \notin {"returned", "threw"}
  BY DEF Running, Filling
<1>. QED BY <1>2, <1>3, <1>4 DEF CrewInv, FailureInv

\* A step of one thread that changes neither latch nor failures.
LEMMA StepKeeps ==
    ASSUME NEW n \in 1 .. 2 * MaxK, CrewInv(n), NEW t \in 1 .. n,
           UNCHANGED <<main, spawned, latch, slots, blown>>,
           \/ pc[t] = "prepare" /\ Goto(t, "start")
           \/ pc[t] = "waiting" /\ latch = 0 /\ Goto(t, "loop")
           \/ pc[t] = "loop" /\ Goto(t, "busy")
           \/ pc[t] = "busy" /\ Goto(t, "loop")
           \/ pc[t] = "loop" /\ Goto(t, "done")
    PROVE  CrewInv(n)'
<1>1. PICK loc \in {"start", "loop", "busy", "done"} :
        /\ Goto(t, loc)
        /\ pc[t] \in {"prepare", "waiting", "loop", "busy"}
        /\ loc = "start" => pc[t] = "prepare"
        /\ loc \in {"loop", "busy"} => pc[t] \in {"loop", "busy"} \/ latch = 0
  OBVIOUS
<1>2. /\ Running /\ Running' /\ t \in Threads /\ pc'[t] = loc
      /\ \A u \in Threads : u # t => pc'[u] = pc[u]
      /\ PlaceInv(n)'
  BY <1>1, ThreadMoves DEF ThreadLocations
<1>3. LatchInv(n)'
  <2>1. Unarrived(n)' \subseteq Unarrived(n)
    BY <1>1, <1>2, CrewFacts DEF Unarrived
  <2>2. \A u \in Threads : Measuring(u)' => Measuring(u) \/ latch = 0
    BY <1>1, <1>2 DEF Measuring
  <2>. QED BY <1>2, <2>1, <2>2, LatchKept DEF CrewInv
<1>4. FailureInv(n)'
  BY <1>1, <1>2, MoveKeepsFailures
<1>. QED BY <1>2, <1>3, <1>4 DEF CrewInv

\* A thread reaches the latch.
LEMMA ArriveKeeps ==
    ASSUME NEW n \in 1 .. 2 * MaxK, CrewInv(n), NEW t \in 1 .. n, Arrive(t)
    PROVE  CrewInv(n)'
<1>1. /\ pc[t] = "start" /\ Goto(t, "waiting") /\ latch' = latch - 1
      /\ UNCHANGED <<main, spawned, slots, blown>>
  BY DEF Arrive
<1>2. /\ Running /\ Running' /\ t \in Threads /\ pc'[t] = "waiting"
      /\ \A u \in Threads : u # t => pc'[u] = pc[u]
      /\ PlaceInv(n)'
  BY <1>1, ThreadMoves DEF ThreadLocations
<1>3. LatchInv(n)'
  <2>1. t \in Unarrived(n) /\ Unarrived(n)' = Unarrived(n) \ {t}
    BY <1>1, <1>2, CrewFacts DEF Unarrived
  <2>2. IsFiniteSet(Unarrived(n)) /\ Cardinality(Unarrived(n)) \in Nat
        /\ Unarrived(n) # {} /\ Cardinality(Unarrived(n)) # 0
    BY <2>1, UnarrivedFinite
  <2>3. Cardinality(Unarrived(n)') = Cardinality(Unarrived(n)) - 1
    BY <2>1, <2>2, FS_RemoveElement
  <2>4. \A u \in Threads : ~Measuring(u)
    BY <1>2, <2>2 DEF CrewInv, LatchInv
  <2>5. \A u \in Threads : ~Measuring(u)'
    BY <1>2, <2>4 DEF Measuring
  <2>. QED BY <1>1, <1>2, <2>2, <2>3, <2>5 DEF CrewInv, LatchInv
<1>4. FailureInv(n)'
  BY <1>1, <1>2, MoveKeepsFailures
<1>. QED BY <1>2, <1>3, <1>4 DEF CrewInv

\* A call of a thread throws; its catch block keeps that.
LEMMA KeepKeeps ==
    ASSUME NEW n \in 1 .. 2 * MaxK, CrewInv(n), NEW t \in 1 .. n, NEW kind,
           pc[t] \in {"prepare", "busy"}, Keep(t, kind)
    PROVE  CrewInv(n)'
<1>1. /\ Goto(t, "done") /\ slots' = [slots EXCEPT ![t] = t] /\ blown' = blown \cup {t}
      /\ UNCHANGED <<main, spawned, latch>>
  BY DEF Keep, Throws, Slot
<1>2. /\ Running /\ Running' /\ t \in Threads /\ pc'[t] = "done"
      /\ \A u \in Threads : u # t => pc'[u] = pc[u]
      /\ PlaceInv(n)'
  BY <1>1, ThreadMoves DEF ThreadLocations
<1>3. LatchInv(n)'
  <2>1. Unarrived(n)' \subseteq Unarrived(n)
    BY <1>1, <1>2, CrewFacts DEF Unarrived
  <2>2. \A u \in Threads : Measuring(u)' => Measuring(u)
    BY <1>2 DEF Measuring
  <2>. QED BY <1>1, <1>2, <2>1, <2>2, LatchKept DEF CrewInv
<1>4. FailureInv(n)'
  <2>1. /\ slots' \in [Threads -> Threads \cup {None}] /\ slots'[t] = t
        /\ \A u \in Threads : u # t => slots'[u] = slots[u]
    BY <1>1, <1>2 DEF CrewInv, FailureInv
  <2>2. Held(n)' = Held(n) \cup {t}
    BY <1>2, <2>1, CrewFacts DEF Held
  <2>3. blown' = Held(n)'
    BY <1>1, <1>2, <2>2 DEF CrewInv, FailureInv
  <2>4. \A u \in blown' : pc'[u] = "done"
    BY <1>1, <1>2, CrewFacts DEF CrewInv, FailureInv, Held
  <2>5. ~Filling' /\ main' \notin {"returned", "threw"}
    BY <1>2 DEF Running, Filling
  <2>. QED BY <2>1, <2>3, <2>4, <2>5 DEF CrewInv, FailureInv
<1>. QED BY <1>2, <1>3, <1>4 DEF CrewInv

------------------------------------------------------------------------------
(* What it gives *)

\* The invariant is that of the properties every reader knows by name.
LEMMA CrewInvSuffices ==
    ASSUME NEW n \in 1 .. 2 * MaxK, CrewInv(n)
    PROVE  /\ AllStarted(n)
           /\ NoThreadOutlivesItsLocals
           /\ FirstFailureReported
<1>1. AllStarted(n)
  <2>. SUFFICES ASSUME NEW t \in Threads, pc[t] \in {"loop", "busy"}
                PROVE  \A u \in 1 .. n : pc[u] \notin {"off", "prepare", "start"}
    BY DEF AllStarted
  <2>1. Running
    BY DEF CrewInv, PlaceInv, Running, Quiet, Filling, MainLocations
  <2>2. latch = 0 /\ latch >= Cardinality(Unarrived(n))
    BY <2>1 DEF CrewInv, LatchInv, Measuring
  <2>3. Unarrived(n) = {}
    BY <2>2, UnarrivedFinite
  <2>. QED BY <2>3 DEF Unarrived
<1>2. NoThreadOutlivesItsLocals
  BY DEF NoThreadOutlivesItsLocals, CrewInv, PlaceInv, Quiet, Filling
<1>3. FirstFailureReported
  BY DEF FirstFailureReported, CrewInv, FailureInv
<1>. QED BY <1>1, <1>2, <1>3

------------------------------------------------------------------------------
(* Sorting *)

\* A rank is a place.
LEMMA RankIsAPlace ==
    ASSUME NEW samples \in Seq(Nat), NEW i \in 1 .. Len(samples)
    PROVE  Rank(samples, i) \in 1 .. Len(samples)
<1>. DEFINE n == Len(samples)
            before == {j \in DOMAIN samples : \/ samples[j] < samples[i]
                                              \/ samples[j] = samples[i] /\ j <= i}
<1>1. n \in Nat /\ DOMAIN samples = 1 .. n /\ i \in 1 .. n
  OBVIOUS
<1>2. before \subseteq 1 .. n /\ i \in before
  BY <1>1
<1>. HIDE DEF n, before
<1>3. IsFiniteSet(1 .. n) /\ Cardinality(1 .. n) = n
  BY <1>1, FS_Interval
<1>4. IsFiniteSet(before) /\ Cardinality(before) <= n
  BY <1>2, <1>3, FS_Subset
<1>5. Cardinality(before) \in Nat /\ Cardinality(before) # 0
  BY <1>2, <1>4, FS_CardinalityType, FS_EmptySet
<1>6. Cardinality(before) \in 1 .. n
  BY <1>1, <1>4, <1>5
<1>. QED BY <1>6 DEF Rank, before, n

\* Of two samples that which is less, or the earlier of equals, has the lower rank.
LEMMA RanksFollowOrder ==
    ASSUME NEW samples \in Seq(Nat),
           NEW i \in 1 .. Len(samples), NEW j \in 1 .. Len(samples),
           samples[i] < samples[j] \/ (samples[i] = samples[j] /\ i < j)
    PROVE  Rank(samples, i) < Rank(samples, j)
<1>. DEFINE n == Len(samples)
            before(k) == {m \in DOMAIN samples : \/ samples[m] < samples[k]
                                                 \/ samples[m] = samples[k] /\ m <= k}
<1>1. /\ n \in Nat /\ DOMAIN samples = 1 .. n /\ i \in 1 .. n /\ j \in 1 .. n
      /\ \A m \in 1 .. n : samples[m] \in Nat
  OBVIOUS
<1>2. before(i) \subseteq before(j) /\ j \in before(j) /\ j \notin before(i)
      /\ before(j) \subseteq 1 .. n
  BY <1>1
<1>3. Rank(samples, i) = Cardinality(before(i)) /\ Rank(samples, j) = Cardinality(before(j))
  BY DEF Rank
<1>. HIDE DEF n, before
<1>4. IsFiniteSet(before(j))
  <2>1. IsFiniteSet(1 .. n)
    BY <1>1, FS_Interval
  <2>. QED BY <1>2, <2>1, FS_Subset
<1>5. /\ Cardinality(before(i)) <= Cardinality(before(j))
      /\ Cardinality(before(i)) # Cardinality(before(j))
      /\ IsFiniteSet(before(i))
  BY <1>2, <1>4, FS_Subset
<1>6. Cardinality(before(i)) \in Nat /\ Cardinality(before(j)) \in Nat
  BY <1>4, <1>5, FS_CardinalityType
<1>. QED BY <1>3, <1>5, <1>6

\* Every place is some sample's.
LEMMA EveryPlaceIsTaken ==
    ASSUME NEW samples \in Seq(Nat), NEW p \in 1 .. Len(samples)
    PROVE  \E i \in 1 .. Len(samples) : Rank(samples, i) = p
<1>. DEFINE S == 1 .. Len(samples)
            f == [i \in S |-> Rank(samples, i)]
<1>1. f \in [S -> S]
  BY RankIsAPlace
<1>2. \A i, j \in S : f[i] = f[j] => i = j
  <2>. SUFFICES ASSUME NEW i \in S, NEW j \in S, i # j
                PROVE  Rank(samples, i) # Rank(samples, j)
    OBVIOUS
  <2>1. samples[i] \in Nat /\ samples[j] \in Nat /\ i \in Nat /\ j \in Nat
    OBVIOUS
  <2>2. Rank(samples, i) \in Nat /\ Rank(samples, j) \in Nat
    <3>1. Rank(samples, i) \in S /\ Rank(samples, j) \in S
      BY RankIsAPlace
    <3>. QED BY <3>1
  <2>3. \/ samples[i] < samples[j] \/ (samples[i] = samples[j] /\ i < j)
        \/ samples[j] < samples[i] \/ (samples[j] = samples[i] /\ j < i)
    BY <2>1
  <2>4. Rank(samples, i) < Rank(samples, j) \/ Rank(samples, j) < Rank(samples, i)
    BY <2>3, RanksFollowOrder
  <2>. QED BY <2>2, <2>4
<1>3. IsFiniteSet(S)
  BY FS_Interval
<1>. HIDE DEF f, S
<1>4. f \in Injection(S, S)
  BY <1>1, <1>2 DEF Injection, IsInjective
<1>5. f \in Surjection(S, S)
  BY <1>3, <1>4, FS_Injection
<1>6. \E i \in S : f[i] = p
  BY <1>5 DEF Surjection, S
<1>. QED BY <1>6 DEF f, S

\* What is found at a place of the sorted samples.
LEMMA SortedFacts ==
    ASSUME NEW samples \in Seq(Nat)
    PROVE  /\ Sorted(samples) \in Seq(Nat) /\ Len(Sorted(samples)) = Len(samples)
           /\ \A p \in 1 .. Len(samples) : \E i \in 1 .. Len(samples) :
                Rank(samples, i) = p /\ Sorted(samples)[p] = samples[i]
<1>. DEFINE n == Len(samples)
            place(p) == CHOOSE i \in DOMAIN samples : Rank(samples, i) = p
            sorted == [p \in DOMAIN samples |-> samples[place(p)]]
<1>1. n \in Nat /\ DOMAIN samples = 1 .. n
  OBVIOUS
<1>2. Sorted(samples) = sorted
  BY DEF Sorted, Ordered
<1>3. \A p \in 1 .. n : place(p) \in 1 .. n /\ Rank(samples, place(p)) = p
  <2>. SUFFICES ASSUME NEW p \in 1 .. n
                PROVE  place(p) \in 1 .. n /\ Rank(samples, place(p)) = p
    OBVIOUS
  <2>1. \E i \in DOMAIN samples : Rank(samples, i) = p
    <3>1. \E i \in 1 .. Len(samples) : Rank(samples, i) = p
      BY EveryPlaceIsTaken
    <3>. QED BY <1>1, <3>1
  <2>2. place(p) \in DOMAIN samples /\ Rank(samples, place(p)) = p
    BY <2>1, Zenon
  <2>. HIDE DEF place
  <2>. QED BY <1>1, <2>2
<1>. HIDE DEF place
<1>4. \A p \in 1 .. n : sorted[p] = samples[place(p)] /\ sorted[p] \in Nat
  BY <1>1, <1>3
<1>5. sorted = [p \in 1 .. n |-> sorted[p]]
  BY <1>1
<1>. HIDE DEF sorted
<1>6. sorted \in Seq(Nat) /\ Len(sorted) = n
  BY <1>1, <1>4, <1>5
<1>. QED BY <1>2, <1>3, <1>4, <1>6

\* They are in order.
LEMMA SortedInOrder ==
    ASSUME NEW samples \in Seq(Nat),
           NEW p \in 1 .. Len(samples), NEW q \in 1 .. Len(samples), p <= q
    PROVE  Sorted(samples)[p] <= Sorted(samples)[q]
<1>1. PICK i \in 1 .. Len(samples) : Rank(samples, i) = p /\ Sorted(samples)[p] = samples[i]
  BY SortedFacts
<1>2. PICK j \in 1 .. Len(samples) : Rank(samples, j) = q /\ Sorted(samples)[q] = samples[j]
  BY SortedFacts
<1>3. samples[i] \in Nat /\ samples[j] \in Nat
  OBVIOUS
<1>4. samples[j] < samples[i] => q < p
  BY <1>1, <1>2, RanksFollowOrder
<1>. QED BY <1>1, <1>2, <1>3, <1>4

\* Fewer samples than its place are less than what is there, and no fewer are not
\* greater.
LEMMA SamplesBelow ==
    ASSUME NEW samples \in Seq(Nat), NEW p \in 1 .. Len(samples), NEW v,
           v = Sorted(samples)[p]
    PROVE  /\ v \in Nat
           /\ \E i \in 1 .. Len(samples) : samples[i] = v
           /\ Cardinality({i \in DOMAIN samples : samples[i] < v}) \in Nat
           /\ Cardinality({i \in DOMAIN samples : samples[i] <= v}) \in Nat
           /\ Cardinality({i \in DOMAIN samples : samples[i] < v}) < p
           /\ p <= Cardinality({i \in DOMAIN samples : samples[i] <= v})
<1>. DEFINE n == Len(samples)
            below == {i \in DOMAIN samples : samples[i] < v}
            upTo == {i \in DOMAIN samples : samples[i] <= v}
<1>1. PICK k \in 1 .. n : Rank(samples, k) = p /\ v = samples[k]
  BY SortedFacts
<1>. DEFINE before == {j \in DOMAIN samples : \/ samples[j] < samples[k]
                                              \/ samples[j] = samples[k] /\ j <= k}
<1>2. n \in Nat /\ DOMAIN samples = 1 .. n /\ v \in Nat /\ \A j \in 1 .. n : samples[j] \in Nat
  BY <1>1
<1>3. /\ below \subseteq before /\ k \in before /\ k \notin below /\ before \subseteq upTo
      /\ upTo \subseteq 1 .. n
  BY <1>1, <1>2
<1>4. Cardinality(before) = p
  BY <1>1 DEF Rank
<1>. HIDE DEF below, upTo, before, n
<1>5. IsFiniteSet(upTo)
  <2>1. IsFiniteSet(1 .. n)
    BY <1>2, FS_Interval
  <2>. QED BY <1>3, <2>1, FS_Subset
<1>6. IsFiniteSet(before) /\ Cardinality(before) <= Cardinality(upTo)
  BY <1>3, <1>5, FS_Subset
<1>7. /\ IsFiniteSet(below) /\ Cardinality(below) <= Cardinality(before)
      /\ Cardinality(below) # Cardinality(before)
  BY <1>3, <1>6, FS_Subset
<1>8. Cardinality(below) \in Nat /\ Cardinality(before) \in Nat /\ Cardinality(upTo) \in Nat
  BY <1>5, <1>6, <1>7, FS_CardinalityType
<1>9. Cardinality(below) < p /\ p <= Cardinality(upTo)
  BY <1>4, <1>6, <1>7, <1>8
<1>. QED BY <1>1, <1>2, <1>8, <1>9 DEF below, upTo, n

------------------------------------------------------------------------------
(* Percentiles of histograms of any length *)

\* Indices of percentiles are within the samples, and a higher percentile has no
\* smaller index.
LEMMA PercentileIndex ==
    ASSUME NEW n \in Nat \ {0}, NEW p \in 0 .. 100, NEW r \in p .. 100
    PROVE  /\ (p * (n - 1)) \div 100 + 1 \in 1 .. n
           /\ (p * (n - 1)) \div 100 <= (r * (n - 1)) \div 100
<1>1. n - 1 \in Nat /\ p \in Nat /\ r \in Nat /\ r - p \in Nat /\ 100 - p \in Nat
  OBVIOUS
<1>. DEFINE m == n - 1
<1>2. m \in Nat
  BY <1>1
<1>3. p * m \in Nat /\ (r - p) * m \in Nat /\ (100 - p) * m \in Nat
  BY <1>1, <1>2
<1>4. r * m = p * m + (r - p) * m /\ 100 * m = p * m + (100 - p) * m
  BY <1>1, <1>2
<1>5. p * m <= r * m /\ p * m <= 100 * m
  BY <1>2, <1>3, <1>4
<1>6. \A x \in Nat, y \in Nat : x <= y => x \div 100 <= y \div 100
  OBVIOUS
<1>7. r * m \in Nat /\ (100 * m) \div 100 = m /\ 100 * m \in Nat
  BY <1>1, <1>2
<1>8. (p * m) \div 100 \in Nat
  BY <1>3
<1>9. (p * m) \div 100 <= (r * m) \div 100 /\ (p * m) \div 100 <= m
  BY <1>3, <1>5, <1>6, <1>7
<1>. QED BY <1>8, <1>9

\* "percentile(0.50)" to "percentile(0.99)" (timing.h:73-76): of samples in order,
\* each percentile reported is one of them, none exceeds the maximum, and they
\* increase with the rank.
THEOREM PercentilesIncrease ==
    ASSUME NEW sorted \in Seq(Nat), sorted # <<>>,
           \A i, j \in 1 .. Len(sorted) : i <= j => sorted[i] <= sorted[j],
           NEW p \in 0 .. 100, NEW r \in p .. 100
    PROVE  /\ \E i \in 1 .. Len(sorted) : Percentile(sorted, p) = sorted[i]
           /\ Percentile(sorted, p) <= Percentile(sorted, r)
           /\ Percentile(sorted, r) <= sorted[Len(sorted)]
<1>. DEFINE n == Len(sorted)
            place(q) == (q * (n - 1)) \div 100 + 1
<1>1. n \in Nat \ {0}
  OBVIOUS
<1>2. place(p) \in 1 .. n /\ place(p) <= place(r)
  <2>. DEFINE x == (p * (n - 1)) \div 100
              y == (r * (n - 1)) \div 100
  <2>1. x + 1 \in 1 .. n /\ x <= y
    BY <1>1, PercentileIndex
  <2>2. x \in Int /\ y \in Int
    <3>. HIDE DEF n
    <3>. QED BY <1>1
  <2>3. place(p) = x + 1 /\ place(r) = y + 1
    OBVIOUS
  <2>. HIDE DEF n, place, x, y
  <2>. QED BY <2>1, <2>2, <2>3
<1>3. place(r) \in 1 .. n
  <2>. HIDE DEF n
  <2>1. r \in 0 .. 100 /\ r \in r .. 100
    OBVIOUS
  <2>. QED BY <1>1, <2>1, PercentileIndex
<1>4. /\ Percentile(sorted, p) = sorted[place(p)]
      /\ Percentile(sorted, r) = sorted[place(r)]
  BY DEF Percentile
<1>. HIDE DEF place
<1>. QED BY <1>1, <1>2, <1>3, <1>4

------------------------------------------------------------------------------
(* What a summary says of its samples *)

\* A set of numbers with a greatest one.
LEMMA GreatestNumber ==
    ASSUME NEW S \in SUBSET Nat, NEW m \in S, \A k \in S : k <= m
    PROVE  Max(S) = m
<1>1. \A k \in S : m >= k
  OBVIOUS
<1>2. Max(S) \in S /\ \A k \in S : Max(S) >= k
  <2>1. \E x \in S : \A y \in S : x >= y
    BY <1>1
  <2>. QED BY <2>1, Zenon DEF Max
<1>3. Max(S) \in Nat /\ m \in Nat /\ Max(S) <= m /\ Max(S) >= m
  BY <1>2
<1>. QED BY <1>3

\* What is p hundredths of the way through the sorted samples is a value at rank p.
LEMMA PercentileIsAtRank ==
    ASSUME NEW samples \in Seq(Nat), samples # <<>>, NEW p \in 0 .. 100
    PROVE  /\ Percentile(Sorted(samples), p) \in Nat
           /\ IsPercentile(samples, p, Percentile(Sorted(samples), p))
<1>. DEFINE n == Len(samples)
            place == (p * (n - 1)) \div 100 + 1
            v == Sorted(samples)[place]
            below == Cardinality({i \in DOMAIN samples : samples[i] < v})
            upTo == Cardinality({i \in DOMAIN samples : samples[i] <= v})
<1>1. n \in Nat \ {0} /\ DOMAIN samples = 1 .. n
  OBVIOUS
<1>2. Percentile(Sorted(samples), p) = v
  BY SortedFacts DEF Percentile
<1>3. place \in 1 .. n
  <2>1. p \in p .. 100
    OBVIOUS
  <2>. HIDE DEF n
  <2>. QED BY <1>1, <2>1, PercentileIndex
<1>4. /\ v \in Nat /\ \E i \in 1 .. n : samples[i] = v
      /\ below \in Nat /\ upTo \in Nat /\ below < place /\ place <= upTo
  <2>. HIDE DEF place
  <2>. QED BY <1>3, SamplesBelow DEF n
<1>5. p * (n - 1) \in Nat
  <2>. HIDE DEF n
  <2>. QED BY <1>1
<1>. HIDE DEF below, upTo, v
<1>6. 100 * below <= p * (n - 1) /\ p * (n - 1) < 100 * upTo
  <2>. DEFINE x == p * (n - 1)
  <2>1. x \in Nat /\ below < x \div 100 + 1 /\ x \div 100 + 1 <= upTo
    BY <1>4, <1>5
  <2>. HIDE DEF x, n
  <2>2. 100 * (x \div 100) <= x /\ x < 100 * (x \div 100) + 100 /\ x \div 100 \in Nat
    BY <2>1
  <2>3. 100 * below <= x /\ x < 100 * upTo
    BY <1>4, <2>1, <2>2
  <2>. QED BY <2>3 DEF x
<1>. HIDE DEF place
<1>. QED BY <1>1, <1>2, <1>4, <1>6 DEF IsPercentile, below, upTo, n

\* The figures of a summary increase; the greatest is one of the samples, and none is
\* greater.
LEMMA ComputeFacts ==
    ASSUME NEW samples \in Seq(Nat)
    PROVE  /\ Compute(samples) \in Stats /\ Increasing(Compute(samples))
           /\ \A i \in DOMAIN samples : samples[i] <= Compute(samples).max
           /\ samples = <<>> => Compute(samples).max = 0
           /\ samples # <<>> => \E i \in DOMAIN samples : samples[i] = Compute(samples).max
<1>1. CASE samples = <<>>
  BY <1>1 DEF Compute, Stats, Increasing
<1>2. CASE samples # <<>>
  <2>. DEFINE sorted == Sorted(samples)
              n == Len(samples)
  <2>1. /\ n \in Nat \ {0} /\ DOMAIN samples = 1 .. n
        /\ \A i \in 1 .. n : samples[i] \in Nat
    BY <1>2
  <2>2. sorted \in Seq(Nat) /\ Len(sorted) = n /\ sorted # <<>>
    BY <2>1, SortedFacts
  <2>3. \A i, j \in 1 .. n : i <= j => sorted[i] <= sorted[j]
    BY SortedInOrder
  <2>4. Compute(samples) = [p50 |-> Percentile(sorted, 50), p95 |-> Percentile(sorted, 95),
                            p99 |-> Percentile(sorted, 99), max |-> sorted[n]]
    BY <1>2, <2>2 DEF Compute, Last
  <2>5. n \in 1 .. n /\ sorted[n] \in Nat /\ \E i \in 1 .. n : samples[i] = sorted[n]
    <3>1. n \in 1 .. n
      <4>. HIDE DEF n
      <4>. QED BY <2>1
    <3>2. PICK i \in 1 .. n : Rank(samples, i) = n /\ sorted[n] = samples[i]
      BY <3>1, SortedFacts
    <3>. QED BY <2>1, <3>1, <3>2
  <2>6. /\ Percentile(sorted, 50) \in Nat /\ Percentile(sorted, 95) \in Nat
        /\ Percentile(sorted, 99) \in Nat
    <3>1. 50 \in 0 .. 100 /\ 95 \in 0 .. 100 /\ 99 \in 0 .. 100
      OBVIOUS
    <3>. QED BY <1>2, <3>1, PercentileIsAtRank
  <2>7. ASSUME NEW i \in 1 .. n PROVE samples[i] <= sorted[n]
    <3>1. Rank(samples, i) \in 1 .. n
      BY RankIsAPlace
    <3>2. PICK j \in 1 .. n : Rank(samples, j) = n /\ sorted[n] = samples[j]
      BY <2>5, SortedFacts
    <3>3. samples[j] < samples[i] => n < Rank(samples, i)
      BY <3>2, RanksFollowOrder
    <3>. QED BY <2>1, <3>1, <3>2, <3>3
  <2>. HIDE DEF sorted, n
  <2>8. /\ Percentile(sorted, 50) <= Percentile(sorted, 95)
        /\ Percentile(sorted, 95) <= Percentile(sorted, 99)
        /\ Percentile(sorted, 99) <= sorted[n]
    <3>1. /\ 50 \in 0 .. 100 /\ 95 \in 50 .. 100
          /\ 95 \in 0 .. 100 /\ 99 \in 95 .. 100
      OBVIOUS
    <3>. QED BY <2>2, <2>3, <3>1, PercentilesIncrease
  <2>9. Compute(samples) \in Stats /\ Increasing(Compute(samples))
    BY <2>4, <2>5, <2>6, <2>8 DEF Stats, Increasing
  <2>10. Compute(samples).max = sorted[n]
    BY <2>4
  <2>. QED BY <1>2, <2>1, <2>5, <2>7, <2>9, <2>10
<1>. QED BY <1>1, <1>2

\* The median and the 99th percentile of a summary are what their names say.
LEMMA ComputedPercentiles ==
    ASSUME NEW samples \in Seq(Nat), samples # <<>>
    PROVE  /\ IsPercentile(samples, 50, Compute(samples).p50)
           /\ IsPercentile(samples, 99, Compute(samples).p99)
<1>1. /\ Compute(samples).p50 = Percentile(Sorted(samples), 50)
      /\ Compute(samples).p99 = Percentile(Sorted(samples), 99)
  BY DEF Compute
<1>2. 50 \in 0 .. 100 /\ 99 \in 0 .. 100
  OBVIOUS
<1>. QED BY <1>1, <1>2, PercentileIsAtRank

------------------------------------------------------------------------------
(* One sequence of several *)

\* g holds what the first 1, 2, ... of the sequences make when joined.
IsJoining(seqs, last, g) ==
    /\ g \in [1 .. last -> Seq(Nat)]
    /\ \A i \in 1 .. last : g[i] = IF i = 1 THEN seqs[i] ELSE g[i - 1] \o seqs[i]

\* There is such a function.
LEMMA JoiningExists ==
    ASSUME NEW seqs \in Seq(Seq(Nat)), NEW last \in 1 .. Len(seqs)
    PROVE  \E g : IsJoining(seqs, last, g)
<1>. DEFINE Good(n) == \E g : IsJoining(seqs, n, g)
            Bad == {n \in 1 .. Len(seqs) : ~Good(n)}
<1>0. \A i \in 1 .. Len(seqs) : seqs[i] \in Seq(Nat)
  OBVIOUS
<1>1. 1 \in 1 .. Len(seqs) /\ Good(1)
  <2>. DEFINE g == [i \in 1 .. 1 |-> seqs[1]]
  <2>1. 1 \in 1 .. Len(seqs) /\ seqs[1] \in Seq(Nat)
    OBVIOUS
  <2>2. g \in [1 .. 1 -> Seq(Nat)] /\ \A i \in 1 .. 1 : i = 1 /\ g[i] = seqs[i]
    BY <2>1
  <2>. HIDE DEF g
  <2>. QED BY <2>1, <2>2 DEF IsJoining
<1>2. ASSUME NEW n \in 1 .. Len(seqs), n # 1, Good(n - 1) PROVE Good(n)
  <2>1. PICK g \in [1 .. n - 1 -> Seq(Nat)] :
          \A i \in 1 .. n - 1 : g[i] = IF i = 1 THEN seqs[i] ELSE g[i - 1] \o seqs[i]
    BY <1>2 DEF IsJoining
  <2>. DEFINE joined == g[n - 1] \o seqs[n]
              h == [i \in 1 .. n |-> IF i = n THEN joined ELSE g[i]]
  <2>2. n - 1 \in 1 .. n - 1 /\ g[n - 1] \in Seq(Nat) /\ seqs[n] \in Seq(Nat)
    BY <1>0, <1>2
  <2>3. joined \in Seq(Nat) /\ joined = g[n - 1] \o seqs[n]
    BY <2>2
  <2>. HIDE DEF joined
  <2>4. h \in [1 .. n -> Seq(Nat)]
    BY <2>3
  <2>5. h[n] = g[n - 1] \o seqs[n] /\ \A i \in 1 .. n - 1 : h[i] = g[i]
    <3>1. n \in 1 .. n /\ \A i \in 1 .. n - 1 : i \in 1 .. n /\ i # n
      OBVIOUS
    <3>. QED BY <2>3, <3>1
  <2>. HIDE DEF h
  <2>6. ASSUME NEW i \in 1 .. n
        PROVE  h[i] = IF i = 1 THEN seqs[i] ELSE h[i - 1] \o seqs[i]
    <3>1. CASE i = n
      BY <1>2, <2>2, <2>5, <3>1
    <3>2. CASE i # n
      <4>1. i \in 1 .. n - 1 /\ (i # 1 => i - 1 \in 1 .. n - 1)
        BY <3>2
      <4>. QED BY <2>1, <2>5, <4>1
    <3>. QED BY <3>1, <3>2
  <2>. QED BY <2>4, <2>6 DEF IsJoining
<1>3. SUFFICES ASSUME Bad # {} PROVE FALSE
  OBVIOUS
<1>4. PICK n \in Bad : \A k \in Bad : n <= k
  <2>1. Bad \in SUBSET Nat
    OBVIOUS
  <2>. HIDE DEF Bad
  <2>. QED BY <1>3, <2>1, LeastNumber
<1>. HIDE DEF Good
<1>5. n \in 1 .. Len(seqs) /\ n # 1 /\ ~Good(n)
  BY <1>1
<1>6. n - 1 \in 1 .. Len(seqs) /\ ~(n <= n - 1)
  BY <1>5
<1>7. Good(n - 1)
  BY <1>4, <1>6
<1>. QED BY <1>2, <1>5, <1>7

\* It is what the library's operator computes.
LEMMA FlattenIsJoining ==
    ASSUME NEW seqs \in Seq(Seq(Nat)), seqs # <<>>
    PROVE  \E g : IsJoining(seqs, Len(seqs), g) /\ FlattenSeq(seqs) = g[Len(seqs)]
<1>. DEFINE Step(g) == [i \in 1 .. Len(seqs) |->
                          IF i = 1 THEN seqs[i] ELSE g[i - 1] \o seqs[i]]
            flat == CHOOSE g : g = Step(g)
            Bad == {i \in 1 .. Len(seqs) : flat[i] \notin Seq(Nat)}
<1>1. Len(seqs) \in 1 .. Len(seqs) /\ Len(seqs) # 0
  OBVIOUS
<1>2. \E g : g = Step(g)
  <2>1. PICK g : IsJoining(seqs, Len(seqs), g)
    BY <1>1, JoiningExists
  <2>2. g = Step(g)
    BY <2>1 DEF IsJoining
  <2>. QED BY <2>2
<1>3. flat = Step(flat)
  BY <1>2, Zenon
<1>4. FlattenSeq(seqs) = flat[Len(seqs)]
  BY <1>1, Zenon DEF FlattenSeq
<1>. HIDE DEF flat
<1>5. /\ flat = [i \in 1 .. Len(seqs) |-> flat[i]]
      /\ \A i \in 1 .. Len(seqs) :
           flat[i] = IF i = 1 THEN seqs[i] ELSE flat[i - 1] \o seqs[i]
  <2>1. \A i \in 1 .. Len(seqs) :
          Step(flat)[i] = IF i = 1 THEN seqs[i] ELSE flat[i - 1] \o seqs[i]
    OBVIOUS
  <2>2. Step(flat) = [i \in 1 .. Len(seqs) |-> Step(flat)[i]]
    OBVIOUS
  <2>. HIDE DEF Step
  <2>. QED BY <1>3, <2>1, <2>2, Zenon
<1>6. Bad = {}
  <2>. SUFFICES ASSUME Bad # {} PROVE FALSE
    OBVIOUS
  <2>1. PICK i \in Bad : \A k \in Bad : i <= k
    <3>1. Bad \in SUBSET Nat
      OBVIOUS
    <3>. HIDE DEF Bad
    <3>. QED BY <3>1, LeastNumber
  <2>2. i \in 1 .. Len(seqs) /\ flat[i] \notin Seq(Nat) /\ seqs[i] \in Seq(Nat)
    OBVIOUS
  <2>3. i # 1
    BY <1>5, <2>2
  <2>4. i - 1 \in 1 .. Len(seqs) /\ ~(i <= i - 1)
    BY <2>2, <2>3
  <2>5. flat[i - 1] \in Seq(Nat)
    BY <2>1, <2>4
  <2>6. flat[i - 1] \o seqs[i] \in Seq(Nat)
    BY <2>2, <2>5
  <2>. QED BY <1>5, <2>2, <2>3, <2>6
<1>7. flat \in [1 .. Len(seqs) -> Seq(Nat)]
  BY <1>5, <1>6
<1>. QED BY <1>4, <1>5, <1>7 DEF IsJoining

\* Nothing is lost and nothing added.
LEMMA FlattenKeepsElements ==
    ASSUME NEW seqs \in Seq(Seq(Nat)), seqs # <<>>
    PROVE  /\ FlattenSeq(seqs) \in Seq(Nat)
           /\ \A v : (\E j \in DOMAIN FlattenSeq(seqs) : FlattenSeq(seqs)[j] = v) <=>
                (\E i \in DOMAIN seqs : \E j \in DOMAIN seqs[i] : seqs[i][j] = v)
<1>1. PICK g : IsJoining(seqs, Len(seqs), g) /\ FlattenSeq(seqs) = g[Len(seqs)]
  BY FlattenIsJoining
<1>2. /\ g \in [1 .. Len(seqs) -> Seq(Nat)]
      /\ \A i \in 1 .. Len(seqs) : g[i] = IF i = 1 THEN seqs[i] ELSE g[i - 1] \o seqs[i]
  BY <1>1 DEF IsJoining
<1>3. /\ Len(seqs) \in 1 .. Len(seqs) /\ DOMAIN seqs = 1 .. Len(seqs)
      /\ \A i \in 1 .. Len(seqs) : seqs[i] \in Seq(Nat)
  OBVIOUS
<1>4. ASSUME NEW v PROVE (\E j \in DOMAIN g[Len(seqs)] : g[Len(seqs)][j] = v) <=>
                         (\E i \in 1 .. Len(seqs) : \E j \in DOMAIN seqs[i] : seqs[i][j] = v)
  <2>. DEFINE In(s) == \E j \in DOMAIN s : s[j] = v
              Bad == {n \in 1 .. Len(seqs) : ~(In(g[n]) <=> \E i \in 1 .. n : In(seqs[i]))}
  <2>1. ASSUME NEW s \in Seq(Nat), NEW t \in Seq(Nat)
        PROVE  In(s \o t) <=> In(s) \/ In(t)
    <3>1. /\ DOMAIN s = 1 .. Len(s) /\ DOMAIN t = 1 .. Len(t)
          /\ Len(s) \in Nat /\ Len(t) \in Nat
          /\ DOMAIN (s \o t) = 1 .. Len(s) + Len(t)
          /\ \A j \in 1 .. Len(s) + Len(t) :
               (s \o t)[j] = IF j <= Len(s) THEN s[j] ELSE t[j - Len(s)]
      OBVIOUS
    <3>2. ASSUME In(s \o t) PROVE In(s) \/ In(t)
      <4>1. PICK j \in 1 .. Len(s) + Len(t) : (s \o t)[j] = v
        BY <3>1, <3>2
      <4>2. j <= Len(s) => j \in 1 .. Len(s)
        BY <3>1
      <4>3. ~(j <= Len(s)) => j - Len(s) \in 1 .. Len(t)
        BY <3>1
      <4>. QED BY <3>1, <4>1, <4>2, <4>3
    <3>3. ASSUME NEW j \in 1 .. Len(s), s[j] = v PROVE In(s \o t)
      <4>1. j \in 1 .. Len(s) + Len(t) /\ j <= Len(s)
        BY <3>1
      <4>2. (s \o t)[j] = v
        BY <3>1, <3>3, <4>1
      <4>. QED BY <3>1, <4>1, <4>2
    <3>4. ASSUME NEW j \in 1 .. Len(t), t[j] = v PROVE In(s \o t)
      <4>1. /\ Len(s) + j \in 1 .. Len(s) + Len(t) /\ ~(Len(s) + j <= Len(s))
            /\ (Len(s) + j) - Len(s) = j
        BY <3>1
      <4>2. (s \o t)[Len(s) + j] = v
        BY <3>1, <3>4, <4>1
      <4>. QED BY <3>1, <4>1, <4>2
    <3>. HIDE DEF In
    <3>5. In(s) => In(s \o t)
      BY <3>1, <3>3 DEF In
    <3>6. In(t) => In(s \o t)
      BY <3>1, <3>4 DEF In
    <3>. QED BY <3>2, <3>5, <3>6
  <2>. HIDE DEF In
  <2>2. Bad = {}
    <3>. SUFFICES ASSUME Bad # {} PROVE FALSE
      OBVIOUS
    <3>1. PICK n \in Bad : \A k \in Bad : n <= k
      <4>1. Bad \in SUBSET Nat
        OBVIOUS
      <4>. HIDE DEF Bad
      <4>. QED BY <4>1, LeastNumber
    <3>2. n \in 1 .. Len(seqs) /\ ~(In(g[n]) <=> \E i \in 1 .. n : In(seqs[i]))
      OBVIOUS
    <3>3. n # 1
      <4>1. \A i : i \in 1 .. 1 <=> i = 1
        OBVIOUS
      <4>2. n = 1 => g[1] = seqs[1]
        BY <1>2, <3>2
      <4>. QED BY <3>2, <4>1, <4>2
    <3>4. /\ n - 1 \in 1 .. Len(seqs) /\ ~(n <= n - 1)
          /\ 1 .. n = (1 .. n - 1) \cup {n}
      BY <3>2, <3>3
    <3>5. In(g[n - 1]) <=> \E i \in 1 .. n - 1 : In(seqs[i])
      BY <3>1, <3>4
    <3>6. g[n] = g[n - 1] \o seqs[n] /\ g[n - 1] \in Seq(Nat) /\ seqs[n] \in Seq(Nat)
      BY <1>2, <1>3, <3>2, <3>3, <3>4
    <3>7. In(g[n]) <=> In(g[n - 1]) \/ In(seqs[n])
      BY <2>1, <3>6
    <3>. QED BY <3>2, <3>4, <3>5, <3>7
  <2>3. In(g[Len(seqs)]) <=> \E i \in 1 .. Len(seqs) : In(seqs[i])
    BY <1>3, <2>2
  <2>. QED BY <2>3 DEF In
<1>5. FlattenSeq(seqs) \in Seq(Nat)
  BY <1>1, <1>2, <1>3
<1>. QED BY <1>1, <1>3, <1>4, <1>5, Zenon

\* Of sequences of four, element j of the i-th is in place 4(i - 1) + j.
LEMMA FlattenFours ==
    ASSUME NEW seqs \in Seq(Seq(Nat)), seqs # <<>>, \A i \in DOMAIN seqs : Len(seqs[i]) = 4
    PROVE  /\ Len(FlattenSeq(seqs)) = 4 * Len(seqs)
           /\ \A i \in 1 .. Len(seqs), j \in 1 .. 4 :
                FlattenSeq(seqs)[4 * (i - 1) + j] = seqs[i][j]
<1>1. PICK g : IsJoining(seqs, Len(seqs), g) /\ FlattenSeq(seqs) = g[Len(seqs)]
  BY FlattenIsJoining
<1>2. /\ g \in [1 .. Len(seqs) -> Seq(Nat)]
      /\ \A i \in 1 .. Len(seqs) : g[i] = IF i = 1 THEN seqs[i] ELSE g[i - 1] \o seqs[i]
  BY <1>1 DEF IsJoining
<1>3. /\ Len(seqs) \in 1 .. Len(seqs) /\ DOMAIN seqs = 1 .. Len(seqs)
      /\ \A i \in 1 .. Len(seqs) : seqs[i] \in Seq(Nat)
  OBVIOUS
<1>. DEFINE Good(n) == /\ Len(g[n]) = 4 * n
                       /\ \A i \in 1 .. n, j \in 1 .. 4 : g[n][4 * (i - 1) + j] = seqs[i][j]
            Bad == {n \in 1 .. Len(seqs) : ~Good(n)}
<1>4. Bad = {}
  <2>. SUFFICES ASSUME Bad # {} PROVE FALSE
    OBVIOUS
  <2>1. PICK n \in Bad : \A k \in Bad : n <= k
    <3>1. Bad \in SUBSET Nat
      OBVIOUS
    <3>. HIDE DEF Bad
    <3>. QED BY <3>1, LeastNumber
  <2>2. n \in 1 .. Len(seqs) /\ ~Good(n) /\ n \in Nat
    OBVIOUS
  <2>3. n # 1
    <3>. SUFFICES ASSUME n = 1 PROVE Good(1)
      BY <2>2
    <3>1. g[1] = seqs[1] /\ Len(seqs[1]) = 4
      BY <1>2, <1>3, <2>2
    <3>2. \A i \in 1 .. 1, j \in 1 .. 4 : i = 1 /\ 4 * (i - 1) + j = j
      OBVIOUS
    <3>. QED BY <3>1, <3>2
  <2>4. n - 1 \in 1 .. Len(seqs) /\ ~(n <= n - 1)
    BY <2>2, <2>3
  <2>5. Good(n - 1)
    BY <2>1, <2>4
  <2>6. /\ g[n] = g[n - 1] \o seqs[n] /\ g[n - 1] \in Seq(Nat) /\ seqs[n] \in Seq(Nat)
        /\ Len(seqs[n]) = 4
    BY <1>2, <1>3, <2>2, <2>3, <2>4
  <2>7. /\ Len(g[n]) = 4 * (n - 1) + 4
        /\ \A k \in 1 .. 4 * (n - 1) + 4 :
             g[n][k] = IF k <= 4 * (n - 1) THEN g[n - 1][k] ELSE seqs[n][k - 4 * (n - 1)]
    <3>1. /\ Len(g[n]) = Len(g[n - 1]) + Len(seqs[n])
          /\ \A k \in 1 .. Len(g[n - 1]) + Len(seqs[n]) :
               g[n][k] = IF k <= Len(g[n - 1]) THEN g[n - 1][k] ELSE seqs[n][k - Len(g[n - 1])]
      <4>. HIDE DEF Good, Bad
      <4>1. PICK s \in Seq(Nat) : s = g[n - 1]
        BY <2>6
      <4>2. PICK t \in Seq(Nat) : t = seqs[n]
        BY <2>6
      <4>3. PICK u : u = g[n]
        OBVIOUS
      <4>4. u = s \o t
        BY <2>6, <4>1, <4>2, <4>3
      <4>5. /\ Len(u) = Len(s) + Len(t)
            /\ \A k \in 1 .. Len(s) + Len(t) :
                 u[k] = IF k <= Len(s) THEN s[k] ELSE t[k - Len(s)]
        BY <4>4
      <4>. QED BY <4>1, <4>2, <4>3, <4>5
    <3>2. Len(g[n - 1]) = 4 * (n - 1) /\ Len(seqs[n]) = 4
      BY <2>5, <2>6
    <3>. HIDE DEF Good, Bad
    <3>. QED BY <3>1, <3>2
  <2>8. ASSUME NEW i \in 1 .. n, NEW j \in 1 .. 4
        PROVE  g[n][4 * (i - 1) + j] = seqs[i][j]
    <3>. DEFINE k == 4 * (i - 1) + j
    <3>1. k \in 1 .. 4 * (n - 1) + 4 /\ k \in Nat
      BY <2>2
    <3>2. CASE i = n
      <4>1. ~(k <= 4 * (n - 1)) /\ k - 4 * (n - 1) = j
        BY <2>2, <3>2
      <4>. HIDE DEF k
      <4>2. g[n][k] = seqs[n][j]
        BY <2>7, <3>1, <4>1
      <4>. QED BY <3>2, <4>2 DEF k
    <3>3. CASE i # n
      <4>1. k <= 4 * (n - 1) /\ i \in 1 .. n - 1
        BY <2>2, <3>3
      <4>2. g[n - 1][k] = seqs[i][j]
        BY <2>5, <4>1
      <4>. HIDE DEF k
      <4>3. g[n][k] = seqs[i][j]
        BY <2>7, <3>1, <4>1, <4>2
      <4>. QED BY <4>3 DEF k
    <3>. QED BY <3>2, <3>3
  <2>9. 4 * (n - 1) + 4 = 4 * n
    BY <2>2
  <2>. QED BY <2>2, <2>7, <2>8, <2>9
<1>5. Good(Len(seqs))
  BY <1>3, <1>4
<1>. QED BY <1>1, <1>5

------------------------------------------------------------------------------
(* What a summary of summaries says *)

\* The summaries that are merged, and their figures one after the other.
Fours(hists) == [i \in DOMAIN hists |->
                    LET s == Compute(hists[i]) IN <<s.p50, s.p95, s.p99, s.max>>]

LEMMA FoursFacts ==
    ASSUME NEW hists \in Seq(Seq(Nat)), hists # <<>>
    PROVE  /\ Merge(hists) = Compute(FlattenSeq(Fours(hists)))
           /\ Fours(hists) \in Seq(Seq(Nat)) /\ Fours(hists) # <<>>
           /\ Len(Fours(hists)) = Len(hists) /\ DOMAIN Fours(hists) = 1 .. Len(hists)
           /\ \A i \in 1 .. Len(hists) :
                /\ hists[i] \in Seq(Nat)
                /\ Len(Fours(hists)[i]) = 4 /\ DOMAIN Fours(hists)[i] = 1 .. 4
                /\ Compute(hists[i]) \in Stats /\ Increasing(Compute(hists[i]))
                /\ Fours(hists)[i] = <<Compute(hists[i]).p50, Compute(hists[i]).p95,
                                       Compute(hists[i]).p99, Compute(hists[i]).max>>
<1>. DEFINE n == Len(hists)
            four(i) == <<Compute(hists[i]).p50, Compute(hists[i]).p95,
                         Compute(hists[i]).p99, Compute(hists[i]).max>>
<1>1. n \in Nat \ {0} /\ DOMAIN hists = 1 .. n /\ \A i \in 1 .. n : hists[i] \in Seq(Nat)
  OBVIOUS
<1>2. \A i \in 1 .. n : Compute(hists[i]) \in Stats /\ Increasing(Compute(hists[i]))
  BY <1>1, ComputeFacts
<1>3. \A i \in 1 .. n : four(i) \in Seq(Nat) /\ Len(four(i)) = 4 /\ DOMAIN four(i) = 1 .. 4
  BY <1>2 DEF Stats
<1>4. Merge(hists) = Compute(FlattenSeq(Fours(hists)))
  BY DEF Merge, Fours
<1>5. Fours(hists) = [i \in 1 .. n |-> four(i)]
  BY <1>1 DEF Fours
<1>. HIDE DEF four, n
<1>6. Fours(hists) \in Seq(Seq(Nat)) /\ Len(Fours(hists)) = n
  BY <1>1, <1>3, <1>5
<1>7. DOMAIN Fours(hists) = 1 .. n /\ Fours(hists) # <<>>
  BY <1>1, <1>6
<1>8. \A i \in 1 .. n : Fours(hists)[i] = four(i)
  BY <1>5
<1>. QED BY <1>1, <1>2, <1>3, <1>4, <1>6, <1>7, <1>8 DEF four, n

\* The merged summary increases, and its maximum is the longest call of all.
LEMMA MergeFacts ==
    ASSUME NEW hists \in Seq(Seq(Nat)), hists # <<>>
    PROVE  /\ Merge(hists) \in Stats /\ Increasing(Merge(hists))
           /\ Merge(hists).max = Max(ToSet(FlattenSeq(hists)) \cup {0})
<1>. DEFINE n == Len(hists)
            fours == Fours(hists)
            flat == FlattenSeq(fours)
            all == FlattenSeq(hists)
            top == Merge(hists).max
<1>1. /\ n \in Nat \ {0} /\ DOMAIN hists = 1 .. n /\ Merge(hists) = Compute(flat)
      /\ fours \in Seq(Seq(Nat)) /\ fours # <<>> /\ DOMAIN fours = 1 .. n /\ Len(fours) = n
      /\ \A i \in DOMAIN fours : Len(fours[i]) = 4
  BY FoursFacts
<1>2. /\ flat \in Seq(Nat) /\ flat # <<>>
      /\ \A v : (\E j \in DOMAIN flat : flat[j] = v) <=>
           \E i \in DOMAIN fours : \E j \in DOMAIN fours[i] : fours[i][j] = v
  <2>. HIDE DEF fours
  <2>1. /\ flat \in Seq(Nat) /\ Len(flat) = 4 * n
        /\ \A v : (\E j \in DOMAIN flat : flat[j] = v) <=>
             \E i \in DOMAIN fours : \E j \in DOMAIN fours[i] : fours[i][j] = v
    <3>1. Len(flat) = 4 * n
      BY <1>1, FlattenFours
    <3>. QED BY <1>1, <3>1, FlattenKeepsElements
  <2>2. 4 * n # 0
    BY <1>1
  <2>. HIDE DEF flat
  <2>3. flat # <<>>
    BY <2>1, <2>2
  <2>. QED BY <2>1, <2>3
<1>3. /\ all \in Seq(Nat)
      /\ \A v : (\E j \in DOMAIN all : all[j] = v) <=>
           \E i \in DOMAIN hists : \E j \in DOMAIN hists[i] : hists[i][j] = v
  BY FlattenKeepsElements
<1>4. /\ Compute(flat) \in Stats /\ Increasing(Compute(flat))
      /\ \A j \in DOMAIN flat : flat[j] <= Compute(flat).max
      /\ \E j \in DOMAIN flat : flat[j] = Compute(flat).max
  <2>. HIDE DEF flat
  <2>. QED BY <1>2, ComputeFacts
<1>5. \A i \in 1 .. n :
        /\ hists[i] \in Seq(Nat)
        /\ Compute(hists[i]) \in Stats /\ Increasing(Compute(hists[i]))
        /\ DOMAIN fours[i] = 1 .. 4
        /\ fours[i] = <<Compute(hists[i]).p50, Compute(hists[i]).p95,
                        Compute(hists[i]).p99, Compute(hists[i]).max>>
  BY FoursFacts
<1>6. \A i \in 1 .. n : \A j \in 1 .. 4 : fours[i][j] <= Compute(hists[i]).max
  <2>. SUFFICES ASSUME NEW i \in 1 .. n, NEW j \in 1 .. 4
                PROVE  fours[i][j] <= Compute(hists[i]).max
    OBVIOUS
  <2>1. /\ Compute(hists[i]).p50 \in Nat /\ Compute(hists[i]).p95 \in Nat
        /\ Compute(hists[i]).p99 \in Nat /\ Compute(hists[i]).max \in Nat
        /\ Compute(hists[i]).p50 <= Compute(hists[i]).p95
        /\ Compute(hists[i]).p95 <= Compute(hists[i]).p99
        /\ Compute(hists[i]).p99 <= Compute(hists[i]).max
    BY <1>5 DEF Stats, Increasing
  <2>2. \/ fours[i][j] = Compute(hists[i]).p50 \/ fours[i][j] = Compute(hists[i]).p95
        \/ fours[i][j] = Compute(hists[i]).p99 \/ fours[i][j] = Compute(hists[i]).max
    BY <1>5
  <2>. QED BY <2>1, <2>2
<1>. HIDE DEF n, fours, flat, all
<1>7. top \in Nat /\ \A i \in 1 .. n : Compute(hists[i]).max \in Nat /\ Compute(hists[i]).max <= top
  <2>1. top \in Nat
    BY <1>1, <1>4 DEF Stats
  <2>2. ASSUME NEW i \in 1 .. n
        PROVE  Compute(hists[i]).max \in Nat /\ Compute(hists[i]).max <= top
    <3>1. 4 \in DOMAIN fours[i] /\ fours[i][4] = Compute(hists[i]).max
      BY <1>5
    <3>2. \E j \in DOMAIN flat : flat[j] = Compute(hists[i]).max
      <4>1. \E k \in DOMAIN fours : \E j \in DOMAIN fours[k] :
              fours[k][j] = Compute(hists[i]).max
        BY <1>1, <3>1
      <4>. QED BY <1>2, <4>1, Zenon
    <3>. QED BY <1>1, <1>4, <1>5, <3>2 DEF Stats
  <2>. QED BY <2>1, <2>2
<1>8. PICK i \in 1 .. n : top = Compute(hists[i]).max
  <2>1. \E j \in DOMAIN flat : flat[j] = top
    BY <1>1, <1>4
  <2>2. PICK i \in 1 .. n : \E j \in 1 .. 4 : fours[i][j] = top
    <3>1. \E i \in DOMAIN fours : \E j \in DOMAIN fours[i] : fours[i][j] = top
      BY <1>2, <2>1, Zenon
    <3>. QED BY <1>1, <1>5, <3>1
  <2>3. top <= Compute(hists[i]).max
    BY <1>6, <2>2
  <2>4. top = Compute(hists[i]).max
    <3>1. Compute(hists[i]).max \in Nat /\ Compute(hists[i]).max <= top
      BY <1>7
    <3>. HIDE DEF top
    <3>. QED BY <1>7, <2>3, <3>1
  <2>. QED BY <2>4
<1>. HIDE DEF top
<1>9. top \in ToSet(all) \cup {0}
  <2>1. CASE hists[i] = <<>>
    BY <1>5, <1>8, <2>1, ComputeFacts
  <2>2. CASE hists[i] # <<>>
    <3>1. \E j \in DOMAIN hists[i] : hists[i][j] = top
      BY <1>5, <1>8, <2>2, ComputeFacts
    <3>2. \E j \in DOMAIN all : all[j] = top
      BY <1>1, <1>3, <3>1
    <3>. QED BY <3>2 DEF ToSet
  <2>. QED BY <2>1, <2>2
<1>10. ToSet(all) \cup {0} \subseteq Nat /\ \A v \in ToSet(all) \cup {0} : v <= top
  <2>1. ASSUME NEW v \in ToSet(all) PROVE v \in Nat /\ v <= top
    <3>1. PICK k \in DOMAIN all : all[k] = v
      BY DEF ToSet
    <3>2. PICK w \in 1 .. n : \E j \in DOMAIN hists[w] : hists[w][j] = v
      BY <1>1, <1>3, <3>1
    <3>3. v \in Nat
      BY <1>3, <3>1
    <3>4. v <= Compute(hists[w]).max
      BY <1>5, <3>2, ComputeFacts
    <3>. QED BY <1>7, <3>3, <3>4
  <2>. QED BY <1>7, <2>1
<1>11. Max(ToSet(all) \cup {0}) = top
  BY <1>9, <1>10, GreatestNumber
<1>. QED BY <1>1, <1>4, <1>11 DEF all, top

\* Its median is no less than the smallest 95th percentile of a summary: only one in
\* four of the merged figures can be.
LEMMA MergedMedian ==
    ASSUME NEW hists \in Seq(Seq(Nat)), hists # <<>>
    PROVE  \E w \in DOMAIN hists : Compute(hists[w]).p95 <= Merge(hists).p50
<1>. DEFINE n == Len(hists)
            fours == Fours(hists)
            flat == FlattenSeq(fours)
            v == Merge(hists).p50
            upTo == {i \in DOMAIN flat : flat[i] <= v}
            Medians == {4 * (k - 1) + 1 : k \in 1 .. n}
<1>1. /\ n \in Nat \ {0} /\ DOMAIN hists = 1 .. n /\ Merge(hists) = Compute(flat)
      /\ fours \in Seq(Seq(Nat)) /\ fours # <<>> /\ DOMAIN fours = 1 .. n /\ Len(fours) = n
      /\ \A i \in DOMAIN fours : Len(fours[i]) = 4
      /\ \A i \in 1 .. n :
           /\ Compute(hists[i]) \in Stats /\ Increasing(Compute(hists[i]))
           /\ fours[i] = <<Compute(hists[i]).p50, Compute(hists[i]).p95,
                           Compute(hists[i]).p99, Compute(hists[i]).max>>
  BY FoursFacts
<1>. HIDE DEF n, fours
<1>2. /\ flat \in Seq(Nat) /\ Len(flat) = 4 * n
      /\ \A i \in 1 .. n, j \in 1 .. 4 : flat[4 * (i - 1) + j] = fours[i][j]
  BY <1>1, FlattenFours, FlattenKeepsElements
<1>. HIDE DEF flat
<1>3. DOMAIN flat = 1 .. 4 * n /\ flat # <<>> /\ 4 * n \in Nat \ {0}
  BY <1>1, <1>2
<1>4. v \in Nat /\ 2 * n <= Cardinality(upTo) /\ Cardinality(upTo) \in Nat
  <2>. DEFINE place == (50 * (Len(flat) - 1)) \div 100 + 1
  <2>1. v = Sorted(flat)[place]
    <3>1. v = Percentile(Sorted(flat), 50)
      BY <1>1, <1>3 DEF Compute
    <3>. QED BY <1>2, <3>1, SortedFacts DEF Percentile
  <2>2. place = 2 * n
    BY <1>1, <1>2
  <2>3. PICK q \in 1 .. Len(flat) : q = 2 * n
    BY <1>1, <1>2
  <2>4. v = Sorted(flat)[q]
    BY <2>1, <2>2, <2>3
  <2>. HIDE DEF place, v
  <2>5. v \in Nat /\ q <= Cardinality(upTo) /\ Cardinality(upTo) \in Nat
    <3>1. flat \in Seq(Nat)
      BY <1>2
    <3>. QED BY <2>4, <3>1, SamplesBelow
  <2>. QED BY <2>3, <2>5
<1>5. Cardinality(Medians) \in Nat /\ Cardinality(Medians) <= n /\ IsFiniteSet(Medians)
  <2>. DEFINE f == [k \in 1 .. n |-> 4 * (k - 1) + 1]
  <2>1. IsFiniteSet(1 .. n) /\ Cardinality(1 .. n) = n
    BY <1>1, FS_Interval
  <2>2. f \in Surjection(1 .. n, Medians)
    BY DEF Surjection
  <2>. HIDE DEF f, Medians
  <2>3. IsFiniteSet(Medians) /\ Cardinality(Medians) <= n
    BY <2>1, <2>2, FS_Surjection
  <2>. QED BY <2>3, FS_CardinalityType
<1>6. SUFFICES ASSUME \A w \in 1 .. n : ~(Compute(hists[w]).p95 <= v) PROVE FALSE
  BY <1>1
<1>7. upTo \subseteq Medians
  <2>. SUFFICES ASSUME NEW m \in 1 .. 4 * n, flat[m] <= v PROVE m \in Medians
    BY <1>3
  <2>. DEFINE k == (m - 1) \div 4 + 1
              j == ((m - 1) % 4) + 1
  <2>1. k \in 1 .. n /\ j \in 1 .. 4 /\ m = 4 * (k - 1) + j
    <3>1. \A x \in Nat : /\ x \div 4 \in Nat /\ x % 4 \in 0 .. 3
                         /\ x = 4 * (x \div 4) + (x % 4)
      OBVIOUS
    <3>2. m - 1 \in Nat /\ m - 1 < 4 * n
      BY <1>1
    <3>3. PICK q \in Nat, e \in 0 .. 3 :
            q = (m - 1) \div 4 /\ e = (m - 1) % 4 /\ m - 1 = 4 * q + e
      BY <3>1, <3>2
    <3>4. k = q + 1 /\ j = e + 1 /\ q < n
      BY <1>1, <3>2, <3>3
    <3>. HIDE DEF k, j
    <3>. QED BY <1>1, <3>3, <3>4
  <2>. HIDE DEF k, j
  <2>2. fours[k][j] <= v
    BY <1>2, <2>1
  <2>3. /\ Compute(hists[k]).p95 \in Nat
        /\ Compute(hists[k]).p99 \in Nat /\ Compute(hists[k]).max \in Nat
        /\ Compute(hists[k]).p95 <= Compute(hists[k]).p99
        /\ Compute(hists[k]).p99 <= Compute(hists[k]).max
        /\ ~(Compute(hists[k]).p95 <= v)
    BY <1>1, <1>6, <2>1 DEF Stats, Increasing
  <2>4. /\ fours[k][2] = Compute(hists[k]).p95 /\ fours[k][3] = Compute(hists[k]).p99
        /\ fours[k][4] = Compute(hists[k]).max
    BY <1>1, <2>1
  <2>5. j \notin {2, 3, 4}
    <3>. HIDE DEF v
    <3>. QED BY <1>4, <2>2, <2>3, <2>4
  <2>. QED BY <2>1, <2>5
<1>. HIDE DEF upTo, Medians, v
<1>8. Cardinality(upTo) <= Cardinality(Medians)
  BY <1>5, <1>7, FS_Subset
<1>. QED BY <1>1, <1>4, <1>5, <1>8

------------------------------------------------------------------------------
(* Sums over threads *)

\* The sum of f over S, and its defining step.
Total(f, S) == MapThenSumSet(LAMBDA t : f[t], S)

TotalStep(f, S, g) ==
    [s \in SUBSET S |-> IF s = {} THEN 0
                        ELSE f[CHOOSE x \in s : TRUE] + g[s \ {CHOOSE x \in s : TRUE}]]

\* The frames of the streams of k writers in st, the pre-warm frames left out.
Frames(st, k) == MapThenSumSet(LAMBDA t : Len(st[WriteStream(k, t)]) - 1, 1 .. k)

\* What the library's operators are.
LEMMA SumsUnfold ==
    /\ \A f, S : Total(f, S) = (CHOOSE g : g = TotalStep(f, S, g))[S]
    /\ \A st, k : Frames(st, k) =
         (CHOOSE g : g = [s \in SUBSET (1 .. k) |-> IF s = {} THEN 0
                            ELSE (Len(st[WriteStream(k, CHOOSE x \in s : TRUE)]) - 1)
                                 + g[s \ {CHOOSE x \in s : TRUE}]])[1 .. k]
<1>1. ASSUME NEW f, NEW S PROVE Total(f, S) = (CHOOSE g : g = TotalStep(f, S, g))[S]
  BY Zenon DEF Total, TotalStep, MapThenSumSet, MapThenFoldSet
<1>2. ASSUME NEW st, NEW k
      PROVE  Frames(st, k) =
         (CHOOSE g : g = [s \in SUBSET (1 .. k) |-> IF s = {} THEN 0
                            ELSE (Len(st[WriteStream(k, CHOOSE x \in s : TRUE)]) - 1)
                                 + g[s \ {CHOOSE x \in s : TRUE}]])[1 .. k]
  BY Zenon DEF Frames, MapThenSumSet, MapThenFoldSet
<1>. QED BY <1>1, <1>2

\* Counts that are the frames written add up to the frames written.
LEMMA CountsOfFrames ==
    ASSUME NEW st, NEW k, NEW f, \A t \in 1 .. k : f[t] = Len(st[WriteStream(k, t)]) - 1
    PROVE  Total(f, 1 .. k) = Frames(st, k)
<1>. DEFINE pick(s) == CHOOSE x \in s : TRUE
            len(t) == Len(st[WriteStream(k, t)]) - 1
            Step(g) == [s \in SUBSET (1 .. k) |-> IF s = {} THEN 0
                          ELSE len(pick(s)) + g[s \ {pick(s)}]]
<1>1. \A s \in SUBSET (1 .. k) : s # {} => pick(s) \in 1 .. k
  BY Zenon
<1>2. \A g : TotalStep(f, 1 .. k, g) = Step(g)
  <2>. SUFFICES ASSUME NEW g PROVE TotalStep(f, 1 .. k, g) = Step(g)
    OBVIOUS
  <2>1. \A s \in SUBSET (1 .. k) : s # {} => f[pick(s)] = len(pick(s))
    BY <1>1
  <2>2. TotalStep(f, 1 .. k, g) = [s \in SUBSET (1 .. k) |-> IF s = {} THEN 0
                                      ELSE f[pick(s)] + g[s \ {pick(s)}]]
    BY DEF TotalStep
  <2>. HIDE DEF pick, len
  <2>. QED BY <2>1, <2>2
<1>3. (CHOOSE g : g = TotalStep(f, 1 .. k, g)) = (CHOOSE g : g = Step(g))
  <2>. HIDE DEF Step
  <2>. QED BY <1>2, Zenon
<1>4. Total(f, 1 .. k) = (CHOOSE g : g = TotalStep(f, 1 .. k, g))[1 .. k]
  BY SumsUnfold, Zenon
<1>5. Frames(st, k) = (CHOOSE g : g = Step(g))[1 .. k]
  BY SumsUnfold, Zenon
<1>. HIDE DEF Step
<1>. QED BY <1>3, <1>4, <1>5, Zenon

\* Streams of the same lengths make the same sum.
LEMMA SameFrames ==
    ASSUME NEW st, NEW sv, NEW k,
           \A t \in 1 .. k : Len(st[WriteStream(k, t)]) = Len(sv[WriteStream(k, t)])
    PROVE  Frames(st, k) = Frames(sv, k)
<1>. DEFINE f == [t \in 1 .. k |-> Len(st[WriteStream(k, t)]) - 1]
<1>1. \A t \in 1 .. k : f[t] = Len(st[WriteStream(k, t)]) - 1
  OBVIOUS
<1>2. \A t \in 1 .. k : f[t] = Len(sv[WriteStream(k, t)]) - 1
  BY <1>1
<1>. HIDE DEF f
<1>. QED BY <1>1, <1>2, CountsOfFrames

\* A sum of numbers is one.
LEMMA TotalIsNumber ==
    ASSUME NEW S, IsFiniteSet(S), NEW f, \A t \in S : f[t] \in Nat
    PROVE  Total(f, S) \in Nat
<1>. DEFINE pick(s) == CHOOSE x \in s : TRUE
            Small(m) == {s \in SUBSET S : Cardinality(s) <= m}
            Good(m) == \E g \in [SUBSET S -> Nat] : \A s \in Small(m) :
                         g[s] = IF s = {} THEN 0 ELSE f[pick(s)] + g[s \ {pick(s)}]
            Ungood == {m \in Nat : ~Good(m)}
            sum == CHOOSE g : g = TotalStep(f, S, g)
            Bad == {m \in Nat : \E s \in SUBSET S : Cardinality(s) = m /\ sum[s] \notin Nat}
<1>1. \A s \in SUBSET S : IsFiniteSet(s) /\ Cardinality(s) \in Nat
                          /\ (Cardinality(s) = 0 <=> s = {})
  BY FS_Subset, FS_CardinalityType, FS_EmptySet
<1>2. ASSUME NEW s \in SUBSET S, s # {}
      PROVE  /\ pick(s) \in S /\ f[pick(s)] \in Nat /\ s \ {pick(s)} \in SUBSET S
             /\ Cardinality(s \ {pick(s)}) = Cardinality(s) - 1
  <2>1. pick(s) \in s
    BY <1>2, Zenon
  <2>. HIDE DEF pick
  <2>2. Cardinality(s \ {pick(s)}) = Cardinality(s) - 1
    BY <1>1, <2>1, FS_RemoveElement
  <2>. QED BY <2>1, <2>2
<1>. HIDE DEF pick
<1>3. Good(0)
  <2>. DEFINE g == [s \in SUBSET S |-> 0]
  <2>1. g \in [SUBSET S -> Nat] /\ \A s \in SUBSET S : g[s] = 0
    OBVIOUS
  <2>2. \A s \in Small(0) : s \in SUBSET S /\ s = {}
    BY <1>1
  <2>. HIDE DEF g, Small
  <2>. QED BY <2>1, <2>2
<1>4. ASSUME NEW m \in Nat \ {0}, Good(m - 1) PROVE Good(m)
  <2>1. PICK g \in [SUBSET S -> Nat] : \A s \in Small(m - 1) :
          g[s] = IF s = {} THEN 0 ELSE f[pick(s)] + g[s \ {pick(s)}]
    BY <1>4
  <2>. DEFINE h == [s \in SUBSET S |-> IF s \in Small(m - 1) THEN g[s]
                                       ELSE f[pick(s)] + g[s \ {pick(s)}]]
  <2>2. \A s \in SUBSET S : s \notin Small(m - 1) => s # {}
    BY <1>1
  <2>3. \A s \in Small(m) : /\ s \in SUBSET S
                            /\ s # {} => s \ {pick(s)} \in Small(m - 1)
    BY <1>1, <1>2
  <2>. HIDE DEF Small
  <2>4. \A s \in SUBSET S : h[s] = IF s \in Small(m - 1) THEN g[s]
                                   ELSE f[pick(s)] + g[s \ {pick(s)}]
    OBVIOUS
  <2>5. h \in [SUBSET S -> Nat]
    <3>1. ASSUME NEW s \in SUBSET S, s # {} PROVE f[pick(s)] + g[s \ {pick(s)}] \in Nat
      <4>1. f[pick(s)] \in Nat /\ g[s \ {pick(s)}] \in Nat
        BY <1>2, <3>1
      <4>. QED BY <4>1
    <3>2. \A s \in SUBSET S : g[s] \in Nat
      OBVIOUS
    <3>. QED BY <2>2, <3>1, <3>2
  <2>. HIDE DEF h
  <2>6. ASSUME NEW s \in Small(m)
        PROVE  h[s] = IF s = {} THEN 0 ELSE f[pick(s)] + h[s \ {pick(s)}]
    <3>1. CASE s = {}
      <4>1. s \in Small(m - 1)
        BY <2>2, <2>3, <3>1
      <4>. QED BY <2>1, <2>3, <2>4, <3>1, <4>1
    <3>2. CASE s # {}
      <4>1. s \in SUBSET S /\ s \ {pick(s)} \in Small(m - 1) /\ s \ {pick(s)} \in SUBSET S
        BY <1>2, <2>3, <3>2
      <4>2. h[s \ {pick(s)}] = g[s \ {pick(s)}]
        BY <2>4, <4>1
      <4>3. h[s] = f[pick(s)] + g[s \ {pick(s)}]
        BY <2>1, <2>4, <3>2, <4>1
      <4>. QED BY <3>2, <4>2, <4>3
    <3>. QED BY <3>1, <3>2
  <2>. QED BY <2>5, <2>6
<1>5. \A m \in Nat : Good(m)
  <2>. SUFFICES ASSUME Ungood # {} PROVE FALSE
    OBVIOUS
  <2>1. PICK m \in Ungood : \A j \in Ungood : m <= j
    <3>1. Ungood \in SUBSET Nat
      OBVIOUS
    <3>. HIDE DEF Ungood
    <3>. QED BY <3>1, LeastNumber
  <2>. HIDE DEF Good
  <2>2. m \in Nat \ {0} /\ ~Good(m) /\ m - 1 \in Nat /\ ~(m <= m - 1)
    BY <1>3
  <2>3. Good(m - 1)
    BY <2>1, <2>2
  <2>. QED BY <1>4, <2>2, <2>3
<1>6. PICK g \in [SUBSET S -> Nat] : \A s \in SUBSET S :
        g[s] = IF s = {} THEN 0 ELSE f[pick(s)] + g[s \ {pick(s)}]
  <2>1. Cardinality(S) \in Nat /\ \A s \in SUBSET S : Cardinality(s) <= Cardinality(S)
    BY <1>1, FS_Subset, FS_CardinalityType
  <2>2. Good(Cardinality(S))
    BY <1>5, <2>1
  <2>3. \A s \in SUBSET S : s \in Small(Cardinality(S))
    BY <2>1
  <2>. HIDE DEF Small
  <2>. QED BY <2>2, <2>3
<1>7. sum = TotalStep(f, S, sum)
  <2>1. g = TotalStep(f, S, g)
    BY <1>6 DEF TotalStep, pick
  <2>2. \E x : x = TotalStep(f, S, x)
    BY <2>1
  <2>. QED BY <2>2, Zenon
<1>. HIDE DEF sum
<1>8. \A s \in SUBSET S : sum[s] = IF s = {} THEN 0 ELSE f[pick(s)] + sum[s \ {pick(s)}]
  <2>1. \A s \in SUBSET S : TotalStep(f, S, sum)[s] =
          IF s = {} THEN 0 ELSE f[pick(s)] + sum[s \ {pick(s)}]
    BY DEF TotalStep, pick
  <2>. QED BY <1>7, <2>1, Zenon
<1>9. Bad = {}
  <2>. SUFFICES ASSUME Bad # {} PROVE FALSE
    OBVIOUS
  <2>1. PICK m \in Bad : \A j \in Bad : m <= j
    <3>1. Bad \in SUBSET Nat
      OBVIOUS
    <3>. HIDE DEF Bad
    <3>. QED BY <3>1, LeastNumber
  <2>2. PICK s \in SUBSET S : Cardinality(s) = m /\ sum[s] \notin Nat
    OBVIOUS
  <2>3. s # {} /\ sum[s] = f[pick(s)] + sum[s \ {pick(s)}]
    <3>1. sum[s] = IF s = {} THEN 0 ELSE f[pick(s)] + sum[s \ {pick(s)}]
      BY <1>8, Zenon
    <3>2. s # {}
      <4>1. s = {} => sum[s] = 0
        BY <3>1, Zenon
      <4>. QED BY <2>2, <4>1
    <3>. QED BY <3>1, <3>2, Zenon
  <2>4. /\ f[pick(s)] \in Nat /\ s \ {pick(s)} \in SUBSET S
        /\ Cardinality(s \ {pick(s)}) = m - 1
    BY <1>2, <2>2, <2>3
  <2>5. m - 1 \in Nat /\ ~(m <= m - 1)
    BY <1>1, <2>2, <2>4
  <2>6. sum[s \ {pick(s)}] \in Nat
    BY <2>1, <2>4, <2>5
  <2>. QED BY <2>2, <2>3, <2>4, <2>6
<1>10. sum[S] \in Nat
  <2>1. Cardinality(S) \in Nat /\ S \in SUBSET S
    BY <1>1
  <2>. QED BY <1>9, <2>1
<1>11. Total(f, S) = sum[S]
  BY SumsUnfold, Zenon DEF sum
<1>. QED BY <1>10, <1>11

------------------------------------------------------------------------------
(* What a sub-experiment reports *)

Report == [k : Nat, writer_ops : Nat, reader_ops : Nat,
           write_latency : Stats, read_latency : Stats,
           write_hists : Seq(Seq(Latencies))]

\* The summary of any histograms, or of none, has the form of one.
LEMMA MergeIsSummary ==
    ASSUME NEW hists \in Seq(Seq(Nat))
    PROVE  Merge(hists) \in Stats
<1>1. CASE hists = <<>>
  <2>. DEFINE e(i) == LET s == Compute(hists[i]) IN <<s.p50, s.p95, s.p99, s.max>>
              none == [i \in DOMAIN hists |-> e(i)]
  <2>1. DOMAIN hists = 1 .. 0
    BY <1>1
  <2>. HIDE DEF e
  <2>2. none = <<>> /\ Len(none) = 0
    BY <2>1
  <2>. HIDE DEF none
  <2>3. FlattenSeq(none) = <<>>
    BY <2>2 DEF FlattenSeq
  <2>4. Merge(hists) = Compute(FlattenSeq(none))
    BY DEF Merge, none, e
  <2>5. Merge(hists) = Compute(<<>>)
    BY <2>3, <2>4
  <2>6. <<>> \in Seq(Nat)
    OBVIOUS
  <2>. QED BY <2>5, <2>6, ComputeFacts
<1>2. CASE hists # <<>>
  BY <1>2, MergeFacts
<1>. QED BY <1>1, <1>2

\* Collecting adds one report, of what its threads have counted and measured.
LEMMA CollectReports ==
    ASSUME NEW n \in 1 .. 2 * MaxK, sweep \in DOMAIN Counts, K <= n,
           ops \in [Threads -> Nat], NEW next, Collect(n, next)
    PROVE  \E r \in Report :
             /\ results' = Append(results, r)
             /\ r.k = K /\ r.writer_ops = Total(ops, Writers)
             /\ r.write_hists # <<>> /\ r.write_latency = Merge(r.write_hists)
<1>1. n \in Nat \ {0} /\ 1 .. n \subseteq Threads /\ K \in 1 .. n /\ Latencies \subseteq Nat
  <2>1. K \in 1 .. MaxK
    BY CountFacts DEF K
  <2>. QED BY <2>1, CrewFacts, CountsAssumption
<1>2. PICK hists \in Histograms(n) :
        LET written == SubSeq(hists, 1, K)
            read    == SubSeq(hists, K + 1, n)
        IN  results' = Append(results, [k             |-> K,
                                        writer_ops    |-> OpsOf(Writers),
                                        reader_ops    |-> OpsOf((1 .. n) \ Writers),
                                        write_latency |-> Merge(written),
                                        read_latency  |-> Merge(read),
                                        write_hists   |-> written])
  BY Zenon DEF Collect
<1>. DEFINE written == SubSeq(hists, 1, K)
            read == SubSeq(hists, K + 1, n)
<1>3. hists \in Seq(Seq(Latencies)) /\ Len(hists) = n
  <2>1. \A t \in 1 .. n : hists[t] \in HistogramsOf(t)
    BY DEF Histograms
  <2>2. \A t \in 1 .. n : hists[t] \in Seq(Latencies)
    <3>. SUFFICES ASSUME NEW t \in 1 .. n PROVE hists[t] \in Seq(Latencies)
      OBVIOUS
    <3>1. hists[t] \in [1 .. ops[t] -> Latencies] /\ ops[t] \in Nat
      BY <1>1, <2>1 DEF HistogramsOf
    <3>. QED BY <3>1
  <2>3. hists = [t \in 1 .. n |-> hists[t]]
    BY DEF Histograms
  <2>4. n \in Nat
    BY <1>1
  <2>5. ASSUME NEW T, \A t \in 1 .. n : hists[t] \in T
        PROVE  hists \in Seq(T) /\ Len(hists) = n
    <3>1. hists \in [1 .. n -> T]
      BY <2>3, <2>5, Zenon
    <3>. QED BY <2>4, <3>1
  <2>. QED BY <2>2, <2>5
<1>4. /\ written \in Seq(Seq(Latencies)) /\ read \in Seq(Seq(Latencies))
      /\ written # <<>>
  <2>1. \A i \in 1 .. n : hists[i] \in Seq(Latencies)
    BY <1>3
  <2>2. /\ K \in Int /\ 1 \in Int /\ K + 1 \in Int /\ n \in Int /\ 1 <= K /\ K <= n
        /\ \A i \in 1 .. K : i \in 1 .. n
        /\ \A i \in K + 1 .. n : i \in 1 .. n
    BY <1>1
  <2>3. written \in Seq(Seq(Latencies)) /\ Len(written) = K - 1 + 1
    <3>1. \A i \in 1 .. K : hists[i] \in Seq(Latencies)
      BY <2>1, <2>2
    <3>. QED BY <2>2, <3>1, SubSeqProperties
  <2>4. read \in Seq(Seq(Latencies))
    <3>1. \A i \in K + 1 .. n : hists[i] \in Seq(Latencies)
      BY <2>1, <2>2
    <3>. QED BY <2>2, <3>1, SubSeqProperties
  <2>5. written # <<>>
    <3>. HIDE DEF written
    <3>. QED BY <2>2, <2>3
  <2>. QED BY <2>3, <2>4, <2>5
<1>. HIDE DEF written, read
<1>5. Merge(written) \in Stats /\ Merge(read) \in Stats
  <2>1. Seq(Latencies) \subseteq Seq(Nat)
    BY <1>1, SeqMonotonic
  <2>2. written \in Seq(Seq(Nat)) /\ read \in Seq(Seq(Nat))
    BY <1>4, <2>1, SeqMonotonic
  <2>. QED BY <2>2, MergeIsSummary
<1>6. OpsOf(Writers) = Total(ops, Writers) /\ OpsOf((1 .. n) \ Writers) = Total(ops, (1 .. n) \ Writers)
  BY Zenon DEF OpsOf, Total
<1>7. Total(ops, Writers) \in Nat /\ Total(ops, (1 .. n) \ Writers) \in Nat
  <2>1. IsFiniteSet(1 .. n)
    BY <1>1, FS_Interval
  <2>2. Writers \in SUBSET (1 .. n)
    BY <1>1 DEF Writers
  <2>3. IsFiniteSet(Writers) /\ IsFiniteSet((1 .. n) \ Writers)
    BY <2>1, <2>2, FS_Subset
  <2>4. /\ \A t \in Writers : ops[t] \in Nat
        /\ \A t \in (1 .. n) \ Writers : ops[t] \in Nat
    BY <1>1, <2>2
  <2>. QED BY <2>3, <2>4, TotalIsNumber
<1>. DEFINE r == [k             |-> K,
                  writer_ops    |-> Total(ops, Writers),
                  reader_ops    |-> Total(ops, (1 .. n) \ Writers),
                  write_latency |-> Merge(written),
                  read_latency  |-> Merge(read),
                  write_hists   |-> written]
<1>8. results' = Append(results, r)
  BY <1>2, <1>6, Zenon DEF written, read
<1>9. r \in Report
  BY <1>1, <1>4, <1>5, <1>7 DEF Report
<1>10. r.k = K /\ r.writer_ops = Total(ops, Writers) /\ r.write_hists = written
       /\ r.write_latency = Merge(written)
  OBVIOUS
<1>. HIDE DEF r
<1>. QED BY <1>4, <1>8, <1>9, <1>10

\* What a report says when its figures are sums and summaries of its histograms.
LEMMA ReportFacts ==
    ASSUME NEW r \in Report, r.write_hists # <<>>,
           r.write_latency = Merge(r.write_hists)
    PROVE  /\ Increasing(r.write_latency)
           /\ r.write_latency.max = Max(ToSet(FlattenSeq(r.write_hists)) \cup {0})
           /\ \E w \in DOMAIN r.write_hists :
                 Compute(r.write_hists[w]).p95 <= r.write_latency.p50
           /\ \A w \in DOMAIN r.write_hists : r.write_hists[w] # <<>> =>
                 /\ IsPercentile(r.write_hists[w], 50, Compute(r.write_hists[w]).p50)
                 /\ IsPercentile(r.write_hists[w], 99, Compute(r.write_hists[w]).p99)
<1>1. PICK hists \in Seq(Seq(Nat)) : hists = r.write_hists
  <2>1. Seq(Latencies) \subseteq Seq(Nat)
    BY CountsAssumption, SeqMonotonic
  <2>2. r.write_hists \in Seq(Seq(Latencies))
    BY DEF Report
  <2>3. r.write_hists \in Seq(Seq(Nat))
    BY <2>1, <2>2, SeqMonotonic
  <2>. QED BY <2>3
<1>2. hists # <<>> /\ r.write_latency = Merge(hists)
  BY <1>1
<1>3. \A w \in DOMAIN hists : hists[w] # <<>> =>
        /\ IsPercentile(hists[w], 50, Compute(hists[w]).p50)
        /\ IsPercentile(hists[w], 99, Compute(hists[w]).p99)
  <2>1. \A w \in DOMAIN hists : hists[w] \in Seq(Nat)
    OBVIOUS
  <2>. QED BY <2>1, ComputedPercentiles
<1>4. /\ Increasing(Merge(hists))
      /\ Merge(hists).max = Max(ToSet(FlattenSeq(hists)) \cup {0})
      /\ \E w \in DOMAIN hists : Compute(hists[w]).p95 <= Merge(hists).p50
  BY <1>2, MergeFacts, MergedMedian
<1>. QED BY <1>1, <1>2, <1>3, <1>4, Zenon

------------------------------------------------------------------------------
(* What the steps of both workloads come to *)

Stream(c, i) == stored[WriteStream(Counts[c], i)]

\* The main thread writes frames before there are threads: each is newer than its
\* stream, and the first one if a writer is to go on from it.
Fill(streams) ==
    /\ main \in {"prefill", "prewarm"}
    /\ UNCHANGED <<main, sweep, locals, pc, at, results, blown, thrown>>
    /\ \E s \in streams, stamp \in Nat :
         /\ Write(s, stamp)
         /\ \A j \in 1 .. Len(stored[s]) : stored[s][j] < stamp
         /\ s \in WriteStreams => stored[s] = <<>> /\ stamp = 1

\* It goes on to the next stage; to the launch when the writers' streams are warm.
FillEnd ==
    /\ main \in {"prefill", "prewarm"}
    /\ \/ main' = "prewarm"
       \/ main' = "launch" /\ \A i \in Writers : Stream(sweep, i) # <<>>
    /\ UNCHANGED <<sweep, locals, pc, at, stored, results, blown, thrown>>

\* A thread that is no writer moves.
ReaderMove(t) ==
    \/ Prepare(t, 1) \/ Arrive(t) \/ Pass(t) \/ Turn(t) \/ StopLoop(t)
    \/ \E kind : pc[t] \in {"prepare", "busy"} /\ Keep(t, kind)
    \/ /\ Count(t)
       /\ \E ts \in Nat : at' = [at EXCEPT ![t] = ts]
       /\ UNCHANGED stored

\* Any step of a workload whose crew is n threads and which keeps the given streams.
CommonStep(streams, n, next) ==
    \/ Fill(streams) \/ FillEnd \/ (Filling /\ \E kind : MainThrows(kind))
    \/ Launch(n) \/ Spawn(n) \/ SpawnThrows \/ EndWindow \/ Rethrow(n)
    \/ /\ Collect(n, next)
       /\ main' = "launch" =>
            \A i \in 1 .. Counts[sweep + 1] : Stream(sweep + 1, i) # <<>>
    \/ \E t \in Writers : WriterStep(t)
    \/ \E t \in (1 .. n) \ Writers : ReaderMove(t)
    \/ UNCHANGED vars

\* Where it starts from.
LEMMA Situation ==
    ASSUME NEW n \in 1 .. 2 * MaxK, sweep \in DOMAIN Counts, K <= n
    PROVE  /\ MaxK \in Nat /\ n \in Nat /\ K \in 1 .. MaxK /\ K \in 1 .. n
           /\ sweep \in Nat /\ DOMAIN Counts = 1 .. Len(Counts) /\ Len(Counts) \in Nat
           /\ Writers \subseteq Threads /\ Writers \subseteq 1 .. MaxK /\ Writers \subseteq 1 .. n
           /\ 1 .. n \subseteq Threads
<1>1. /\ MaxK \in Nat /\ DOMAIN Counts = 1 .. Len(Counts) /\ Len(Counts) \in Nat
  BY CountsAssumption
<1>2. K \in 1 .. MaxK
  BY CountFacts DEF K
<1>3. n \in Nat /\ 1 .. n \subseteq Threads
  BY CrewFacts
<1>. QED BY <1>1, <1>2, <1>3 DEF Writers, Threads

\* A thread that moves leaves where the main thread stands, and is one of its crew.
LEMMA MoveFacts ==
    ASSUME NEW n \in 1 .. 2 * MaxK, CrewInv(n), NEW t \in 1 .. n,
           WriterStep(t) \/ ReaderMove(t)
    PROVE  /\ UNCHANGED <<main, sweep, results, thrown>> /\ (Running' <=> Running)
           /\ t \in Threads /\ pc[t] \in ThreadLocations
           /\ Running /\ ~Filling /\ main # "returned"
<1>1. UNCHANGED <<main, sweep, results, thrown>> /\ pc[t] \notin {"off", "done", "killed"}
  BY DEF WriterStep, ReaderMove, Prepare, Arrive, Pass, Turn, Count, WriterWrite, StopLoop,
         WriterThrows, Keep, locals
<1>2. t \in Threads /\ pc[t] \in ThreadLocations
  BY CrewFacts DEF CrewInv, PlaceInv
<1>3. Running /\ ~Filling
  BY <1>1, <1>2 DEF CrewInv, PlaceInv, Quiet, Running, Filling, MainLocations
<1>. QED BY <1>1, <1>2, <1>3 DEF Running

\* Nothing has started.
LEMMA IdleHasCrew ==
    ASSUME NEW first \in {"prefill", "prewarm"}, NEW streams, Idle(first, streams)
    PROVE  sweep \in DOMAIN Counts /\ \A m \in 1 .. 2 * MaxK : CrewInv(m)
<1>1. sweep = 1 /\ 1 \in DOMAIN Counts /\ main \in {"prefill", "prewarm"}
  BY CountsAssumption DEF Idle
<1>. SUFFICES ASSUME NEW m \in 1 .. 2 * MaxK PROVE CrewInv(m)
  BY <1>1
<1>2. PlaceInv(m)
  <2>1. pc \in [Threads -> ThreadLocations] /\ spawned = 0 /\ \A t \in Threads : pc[t] = "off"
    BY DEF Idle, ThreadLocations
  <2>. QED BY <1>1, <2>1 DEF PlaceInv, MainLocations, Running
<1>3. LatchInv(m)
  BY <1>1 DEF LatchInv, Running
<1>4. FailureInv(m)
  <2>1. /\ slots \in [Threads -> Threads \cup {None}] /\ \A t \in Threads : slots[t] = None
        /\ blown = {}
    BY DEF Idle
  <2>. QED BY <1>1, <2>1 DEF FailureInv, Filling, Running
<1>. QED BY <1>2, <1>3, <1>4 DEF CrewInv

\* Every step of a workload preserves the invariant of its crew; one that fills streams or
\* goes on to the next sub-experiment establishes it for any number of threads.
LEMMA StepKeepsCrew ==
    ASSUME NEW streams, NEW n \in 1 .. 2 * MaxK, NEW next \in {"prewarm", "launch"},
           sweep \in DOMAIN Counts, K <= n, CrewInv(n), CommonStep(streams, n, next)
    PROVE  /\ sweep' \in DOMAIN Counts
           /\ sweep' = sweep => CrewInv(n)'
           /\ sweep' # sweep => \A m \in 1 .. 2 * MaxK : CrewInv(m)'
<1>1. CASE Fill(streams) \/ FillEnd
  <2>1. /\ Filling /\ Filling' /\ sweep' = sweep
        /\ UNCHANGED <<locals, pc, blown, thrown>>
    BY <1>1 DEF Fill, FillEnd, Filling
  <2>. QED BY <2>1, FillingKeeps
<1>2. CASE Filling /\ \E kind : MainThrows(kind)
  <2>1. PICK kind : MainThrows(kind)
    BY <1>2
  <2>2. sweep' = sweep
    BY <2>1 DEF MainThrows
  <2>. QED BY <1>2, <2>1, <2>2, MainThrowsKeeps
<1>3. CASE Launch(n) \/ Spawn(n) \/ SpawnThrows \/ EndWindow \/ Rethrow(n)
  <2>1. sweep' = sweep
    BY <1>3 DEF Launch, Spawn, SpawnThrows, EndWindow, Rethrow
  <2>2. CrewInv(n)'
    BY <1>3, LaunchKeeps, SpawnKeeps, SpawnThrowsKeeps, EndWindowKeeps, RethrowKeeps
  <2>. QED BY <2>1, <2>2
<1>4. CASE Collect(n, next)
  <2>1. sweep' \in DOMAIN Counts
    BY <1>4, CountsAssumption DEF Collect
  <2>. QED BY <1>4, <2>1, CollectKeeps
<1>5. ASSUME NEW t \in 1 .. n, WriterStep(t) \/ ReaderMove(t)
      PROVE  sweep' = sweep /\ CrewInv(n)'
  <2>1. sweep' = sweep
    BY <1>5, MoveFacts
  <2>2. CASE \E first : Prepare(t, first)
    BY <2>2, StepKeeps DEF Prepare, locals
  <2>3. CASE Arrive(t)
    BY <2>1, <2>3, ArriveKeeps
  <2>4. CASE Pass(t)
    BY <2>4, StepKeeps DEF Pass, locals
  <2>5. CASE Turn(t)
    BY <2>5, StepKeeps DEF Turn, locals
  <2>6. CASE StopLoop(t)
    BY <2>6, StepKeeps DEF StopLoop, locals
  <2>7. CASE Count(t)
    <3>1. /\ pc[t] = "busy" /\ Goto(t, "loop")
          /\ UNCHANGED <<main, spawned, latch, slots, blown>>
      BY <2>7 DEF Count
    <3>. QED BY <2>1, <3>1, StepKeeps
  <2>8. CASE \E kind : pc[t] \in {"prepare", "busy"} /\ Keep(t, kind)
    <3>1. PICK kind : pc[t] \in {"prepare", "busy"} /\ Keep(t, kind)
      BY <2>8
    <3>. QED BY <2>1, <3>1, KeepKeeps
  <2>. QED
    BY <1>5, <2>1, <2>2, <2>3, <2>4, <2>5, <2>6, <2>7, <2>8
       DEF WriterStep, WriterWrite, WriterThrows, ReaderMove
<1>6. CASE UNCHANGED vars
  <2>1. /\ sweep' = sweep
        /\ UNCHANGED <<main, spawned, latch, slots, pc, blown, thrown>>
    BY <1>6 DEF vars, locals
  <2>. QED
    BY <2>1 DEF CrewInv, PlaceInv, LatchInv, FailureInv, Unarrived, Measuring, Held,
                Filling, Running, Quiet
<1>7. Writers \subseteq 1 .. n
  BY Situation
<1>. QED BY <1>1, <1>2, <1>3, <1>4, <1>5, <1>6, <1>7 DEF CommonStep

------------------------------------------------------------------------------
(* Types *)

\* What the invariants of crew and streams do not say of the types.
TypeInv ==
    /\ spawned \in 0 .. 2 * MaxK
    /\ latch \in 0 .. 2 * MaxK
    /\ stop \in BOOLEAN
    /\ ops \in [Threads -> Nat]
    /\ results \in Seq(Report)
    /\ blown \subseteq Threads \cup {Main}
    /\ thrown \in Threads \cup {Main, None}

\* Nothing is counted or reported yet.
LEMMA IdleHasTypes ==
    ASSUME NEW first, NEW streams, Idle(first, streams)
    PROVE  TypeInv
<1>1. MaxK \in Nat
  BY CountsAssumption
<1>2. 0 \in 0 .. 2 * MaxK
  BY <1>1
<1>3. ops \in [Threads -> Nat]
  BY DEF Idle
<1>4. spawned \in 0 .. 2 * MaxK /\ latch \in 0 .. 2 * MaxK /\ stop \in BOOLEAN
  BY <1>2 DEF Idle
<1>5. results \in Seq(Report)
  BY DEF Idle
<1>6. blown \subseteq Threads \cup {Main} /\ thrown \in Threads \cup {Main, None}
  BY DEF Idle
<1>. QED BY <1>3, <1>4, <1>5, <1>6 DEF TypeInv

\* The latch counts every thread that has to arrive, so that it stays a natural number.
LEMMA StepKeepsTypes ==
    ASSUME NEW streams, NEW n \in 1 .. 2 * MaxK, NEW next,
           sweep \in DOMAIN Counts, K <= n, CrewInv(n), TypeInv,
           CommonStep(streams, n, next)
    PROVE  TypeInv'
<1>0. /\ MaxK \in Nat /\ n \in Nat /\ n <= 2 * MaxK /\ 1 .. n \subseteq Threads
      /\ Writers \subseteq 1 .. n
  <2>1. MaxK \in Nat /\ n \in Nat /\ 1 .. n \subseteq Threads /\ Writers \subseteq 1 .. n
    BY Situation
  <2>. QED BY <2>1
<1>1. CASE UNCHANGED <<locals, results, blown, thrown>>
  BY <1>1 DEF TypeInv, locals
<1>2. CASE Filling /\ \E kind : MainThrows(kind)
  BY <1>2 DEF TypeInv, MainThrows, Throws, locals
<1>3. CASE Launch(n)
  <2>1. ops' \in [Threads -> Nat] /\ spawned' = 0 /\ latch' = n /\ stop' = FALSE
        /\ UNCHANGED <<results, blown, thrown>>
    BY <1>3 DEF Launch, LatchSize
  <2>2. spawned' \in 0 .. 2 * MaxK /\ latch' \in 0 .. 2 * MaxK /\ stop' \in BOOLEAN
    <3>1. 0 \in 0 .. 2 * MaxK /\ n \in 0 .. 2 * MaxK
      BY <1>0
    <3>. QED BY <2>1, <3>1
  <2>3. results' \in Seq(Report) /\ blown' \subseteq Threads \cup {Main}
        /\ thrown' \in Threads \cup {Main, None}
    BY <2>1 DEF TypeInv
  <2>. QED BY <2>1, <2>2, <2>3 DEF TypeInv
<1>4. CASE Spawn(n)
  <2>1. spawned' = spawned + 1 /\ spawned \in Nat /\ spawned < n
        /\ UNCHANGED <<latch, stop, ops, results, blown, thrown>>
    BY <1>4 DEF Spawn, CrewInv, PlaceInv
  <2>. QED BY <1>0, <2>1 DEF TypeInv
<1>5. CASE SpawnThrows
  BY <1>5 DEF TypeInv, SpawnThrows, Throws, locals
<1>6. CASE EndWindow
  BY <1>6 DEF TypeInv, EndWindow
<1>7. CASE Rethrow(n)
  <2>1. thrown' = slots[Min(Held(n))] /\ UNCHANGED <<locals, results, blown>> /\ Held(n) # {}
    BY <1>7 DEF Rethrow
  <2>2. Min(Held(n)) \in Threads
    <3>1. Held(n) \in SUBSET Threads /\ Held(n) \in SUBSET Nat
      BY <1>0 DEF Held
    <3>. QED BY <2>1, <3>1, LeastNumber
  <2>3. thrown' \in Threads \cup {None}
    BY <2>1, <2>2 DEF CrewInv, FailureInv
  <2>. QED BY <2>1, <2>3 DEF TypeInv, locals
<1>8. CASE Collect(n, next)
  <2>1. UNCHANGED <<locals, blown, thrown>>
    BY <1>8 DEF Collect
  <2>2. PICK r \in Report : results' = Append(results, r)
    BY <1>8, CollectReports DEF TypeInv
  <2>3. results' \in Seq(Report)
    BY <2>2 DEF TypeInv
  <2>. QED BY <2>1, <2>3 DEF TypeInv, locals
<1>9. ASSUME NEW t \in 1 .. n, WriterStep(t) \/ ReaderMove(t) PROVE TypeInv'
  <2>1. /\ t \in Threads /\ Running
    BY <1>9, MoveFacts
  <2>2. CASE Prepare(t, 1) \/ Prepare(t, 2) \/ Pass(t) \/ Turn(t) \/ StopLoop(t)
    BY <1>1, <2>2 DEF Prepare, Pass, Turn, StopLoop
  <2>3. CASE Arrive(t)
    <3>1. t \in Unarrived(n) /\ latch' = latch - 1
          /\ UNCHANGED <<spawned, stop, ops, results, blown, thrown>>
      BY <2>3 DEF Arrive, Unarrived
    <3>2. Cardinality(Unarrived(n)) \in Nat /\ Cardinality(Unarrived(n)) # 0
      BY <3>1, UnarrivedFinite
    <3>3. latch >= Cardinality(Unarrived(n))
      BY <2>1 DEF CrewInv, LatchInv
    <3>. QED BY <1>0, <3>1, <3>2, <3>3 DEF TypeInv
  <2>4. CASE Count(t)
    <3>1. ops' = [ops EXCEPT ![t] = @ + 1]
          /\ UNCHANGED <<spawned, latch, stop, results, blown, thrown>>
      BY <2>4 DEF Count
    <3>2. ops' \in [Threads -> Nat]
      BY <2>1, <3>1 DEF TypeInv
    <3>. QED BY <3>1, <3>2 DEF TypeInv
  <2>5. CASE \E kind : Keep(t, kind)
    BY <2>1, <2>5 DEF TypeInv, Keep, Throws
  <2>. QED BY <1>9, <2>2, <2>3, <2>4, <2>5 DEF WriterStep, ReaderMove, WriterWrite, WriterThrows
<1>10. CASE UNCHANGED vars \/ Fill(streams) \/ FillEnd
  BY <1>1, <1>10 DEF vars, Fill, FillEnd
<1>. QED
  BY <1>0, <1>2, <1>3, <1>4, <1>5, <1>6, <1>7, <1>8, <1>9, <1>10 DEF CommonStep

------------------------------------------------------------------------------
(* Streams *)

\* Of the streams of a sub-experiment that has no threads yet, each has its pre-warm
\* frame or nothing; from the launch on all of its writers' streams are warm, and each
\* writer's timestamp is ahead of its stream.
StreamInv(streams) ==
    /\ stored \in [streams -> Seq(Nat)]
    /\ at \in [Threads -> Nat]
    /\ TimestampsIncrease
    /\ \A c \in DOMAIN Counts, i \in 1 .. MaxK :
         c > sweep \/ (c = sweep /\ Filling) => Stream(c, i) \in {<<>>, <<1>>}
    /\ \A c \in DOMAIN Counts, i \in 1 .. MaxK :
         i <= Counts[c] /\ (c < sweep \/ (c = sweep /\ (main = "launch" \/ Running))) =>
            Stream(c, i) # <<>>
    /\ Running => \A i \in Writers :
         /\ pc[i] \in {"off", "prepare"} => Stream(sweep, i) = <<1>>
         /\ pc[i] \in {"start", "waiting", "loop", "busy"} =>
              \A j \in 1 .. Len(Stream(sweep, i)) : Stream(sweep, i)[j] < at[i]

\* No two writers of the whole sweep have the same stream.
LEMMA WriterStreams ==
    ASSUME NEW c \in DOMAIN Counts, NEW i \in 1 .. MaxK
    PROVE  /\ WriteStream(Counts[c], i) \in WriteStreams
           /\ \A d \in DOMAIN Counts, j \in 1 .. MaxK :
                WriteStream(Counts[c], i) = WriteStream(Counts[d], j) => c = d /\ i = j
<1>1. \A d \in DOMAIN Counts : Counts[c] = Counts[d] => c = d
  BY CountsAssumption
<1>. QED BY <1>1 DEF WriteStream, WriteStreams

\* A frame newer than all of its stream keeps every stream in order, and changes that
\* stream only.
LEMMA NewerFrame ==
    ASSUME NEW streams, NEW s \in streams, NEW stamp \in Nat,
           stored \in [streams -> Seq(Nat)], TimestampsIncrease,
           \A j \in 1 .. Len(stored[s]) : stored[s][j] < stamp, Write(s, stamp)
    PROVE  /\ stored' \in [streams -> Seq(Nat)]
           /\ TimestampsIncrease'
           /\ stored'[s] = Append(stored[s], stamp)
           /\ Len(stored'[s]) = Len(stored[s]) + 1
           /\ \A u \in streams : u # s => stored'[u] = stored[u]
           /\ stored'[s] # <<>>
           /\ \A j \in 1 .. Len(stored'[s]) : stored'[s][j] < stamp + 1
<1>1. /\ stored' \in [streams -> Seq(Nat)]
      /\ stored'[s] = Append(stored[s], stamp)
      /\ \A u \in streams : u # s => stored'[u] = stored[u]
  BY DEF Write
<1>2. /\ stored[s] \in Seq(Nat) /\ Len(stored'[s]) = Len(stored[s]) + 1
      /\ \A j \in 1 .. Len(stored[s]) : stored'[s][j] = stored[s][j]
      /\ stored'[s][Len(stored[s]) + 1] = stamp
  BY <1>1
<1>3. \A i, j \in 1 .. Len(stored'[s]) : i < j => stored'[s][i] < stored'[s][j]
  <2>1. \A i, j \in 1 .. Len(stored[s]) : i < j => stored[s][i] < stored[s][j]
    BY DEF TimestampsIncrease
  <2>. SUFFICES ASSUME NEW i \in 1 .. Len(stored'[s]), NEW j \in 1 .. Len(stored'[s]), i < j
                PROVE  stored'[s][i] < stored'[s][j]
    OBVIOUS
  <2>2. i \in 1 .. Len(stored[s]) /\ stored'[s][i] = stored[s][i]
    BY <1>2
  <2>3. CASE j \in 1 .. Len(stored[s])
    BY <1>2, <2>1, <2>2, <2>3
  <2>4. CASE j = Len(stored[s]) + 1
    BY <1>2, <2>2, <2>4
  <2>. QED BY <1>2, <2>3, <2>4
<1>4. TimestampsIncrease'
  BY <1>1, <1>3 DEF TimestampsIncrease
<1>5. stored'[s] # <<>> /\ \A j \in 1 .. Len(stored'[s]) : stored'[s][j] < stamp + 1
  <2>1. stored'[s] # <<>>
    BY <1>2
  <2>2. \A j \in 1 .. Len(stored[s]) : stored'[s][j] \in Nat /\ stored'[s][j] < stamp
    BY <1>2
  <2>3. \A j \in 1 .. Len(stored'[s]) :
          j \in 1 .. Len(stored[s]) \/ j = Len(stored[s]) + 1
    BY <1>2
  <2>. QED BY <1>2, <2>1, <2>2, <2>3
<1>. QED BY <1>1, <1>2, <1>4, <1>5

\* A stream filled by the main thread is some other one, or has its pre-warm frame only.
LEMMA FilledFrame ==
    ASSUME NEW streams, WriteStreams \subseteq streams, StreamInv(streams), Fill(streams)
    PROVE  /\ stored' \in [streams -> Seq(Nat)]
           /\ TimestampsIncrease'
           /\ \A c \in DOMAIN Counts, i \in 1 .. MaxK :
                \/ stored'[WriteStream(Counts[c], i)] = Stream(c, i)
                \/ Stream(c, i) = <<>> /\ stored'[WriteStream(Counts[c], i)] = <<1>>
<1>1. PICK s \in streams, stamp \in Nat :
        /\ Write(s, stamp)
        /\ \A j \in 1 .. Len(stored[s]) : stored[s][j] < stamp
        /\ s \in WriteStreams => stored[s] = <<>> /\ stamp = 1
  BY DEF Fill
<1>2. stored \in [streams -> Seq(Nat)] /\ TimestampsIncrease
  BY DEF StreamInv
<1>3. /\ stored' \in [streams -> Seq(Nat)]
      /\ TimestampsIncrease'
      /\ stored'[s] = Append(stored[s], stamp)
      /\ \A u \in streams : u # s => stored'[u] = stored[u]
  BY <1>1, <1>2, NewerFrame
<1>4. ASSUME NEW c \in DOMAIN Counts, NEW i \in 1 .. MaxK
      PROVE  \/ stored'[WriteStream(Counts[c], i)] = stored[WriteStream(Counts[c], i)]
             \/ /\ stored[WriteStream(Counts[c], i)] = <<>>
                /\ stored'[WriteStream(Counts[c], i)] = <<1>>
  <2>1. WriteStream(Counts[c], i) \in WriteStreams
    BY WriterStreams
  <2>2. CASE s # WriteStream(Counts[c], i)
    BY <1>3, <2>1, <2>2
  <2>3. CASE s = WriteStream(Counts[c], i)
    <3>1. stored[s] = <<>> /\ stamp = 1
      BY <1>1, <2>1, <2>3
    <3>2. stored'[s] = <<1>>
      BY <1>3, <3>1
    <3>. QED BY <2>3, <3>1, <3>2
  <2>. QED BY <2>2, <2>3
<1>. QED BY <1>3, <1>4 DEF Stream

\* A writer's frame goes to its own stream, and is newer than all that is in it.
LEMMA WrittenFrame ==
    ASSUME NEW streams, WriteStreams \subseteq streams, NEW n \in 1 .. 2 * MaxK,
           sweep \in DOMAIN Counts, K <= n, CrewInv(n), StreamInv(streams),
           NEW t \in Writers, WriterWrite(t)
    PROVE  /\ stored' \in [streams -> Seq(Nat)]
           /\ TimestampsIncrease'
           /\ at' \in [Threads -> Nat]
           /\ \A i \in Writers : i # t => at'[i] = at[i]
           /\ stored'[WriteStream(K, t)] # <<>>
           /\ Len(stored'[WriteStream(K, t)]) = Len(Stream(sweep, t)) + 1
           /\ \A j \in 1 .. Len(stored'[WriteStream(K, t)]) :
                stored'[WriteStream(K, t)][j] < at'[t]
           /\ \A c \in DOMAIN Counts, i \in 1 .. MaxK :
                ~(c = sweep /\ i = t) =>
                   stored'[WriteStream(Counts[c], i)] = Stream(c, i)
<1>1. t \in 1 .. n /\ t \in Threads /\ t \in 1 .. MaxK /\ Writers \subseteq Threads
  BY Situation
<1>2. Running
  BY <1>1, MoveFacts DEF WriterStep
<1>3. /\ Write(WriteStream(K, t), at[t]) /\ at' = [at EXCEPT ![t] = @ + 1]
      /\ pc[t] = "busy"
  BY DEF WriterWrite, Count
<1>4. /\ stored \in [streams -> Seq(Nat)] /\ TimestampsIncrease
      /\ \A j \in 1 .. Len(Stream(sweep, t)) : Stream(sweep, t)[j] < at[t]
  BY <1>2, <1>3 DEF StreamInv
<1>5. /\ at[t] \in Nat /\ at' \in [Threads -> Nat] /\ at'[t] = at[t] + 1
      /\ \A i \in Writers : i # t => at'[i] = at[i]
  <2>1. at \in [Threads -> Nat]
    BY DEF StreamInv
  <2>. QED BY <1>1, <1>3, <2>1
<1>. DEFINE s == WriteStream(K, t)
<1>6. /\ s \in streams /\ Stream(sweep, t) = stored[s]
      /\ \A c \in DOMAIN Counts, i \in 1 .. MaxK :
           /\ WriteStream(Counts[c], i) \in streams
           /\ WriteStream(Counts[c], i) = s => c = sweep /\ i = t
  BY <1>1, WriterStreams DEF Stream, K
<1>7. Write(s, at[t])
  BY <1>3
<1>. HIDE DEF s
<1>8. /\ stored' \in [streams -> Seq(Nat)] /\ TimestampsIncrease'
      /\ stored'[s] # <<>> /\ Len(stored'[s]) = Len(stored[s]) + 1
      /\ \A u \in streams : u # s => stored'[u] = stored[u]
      /\ \A j \in 1 .. Len(stored'[s]) : stored'[s][j] < at[t] + 1
  BY <1>4, <1>5, <1>6, <1>7, NewerFrame
<1>9. \A c \in DOMAIN Counts, i \in 1 .. MaxK :
        ~(c = sweep /\ i = t) => stored'[WriteStream(Counts[c], i)] = Stream(c, i)
  BY <1>6, <1>8 DEF Stream
<1>. QED BY <1>5, <1>6, <1>8, <1>9 DEF s

\* No frame has been written.
LEMMA IdleHasStreams ==
    ASSUME NEW first \in {"prefill", "prewarm"}, NEW streams, WriteStreams \subseteq streams,
           Idle(first, streams)
    PROVE  StreamInv(streams)
<1>1. /\ main \in {"prefill", "prewarm"} /\ at \in [Threads -> Nat] /\ sweep = 1
      /\ stored \in [streams -> Seq(Nat)]
      /\ \A s \in streams : stored[s] = <<>>
  BY DEF Idle
<1>2. TimestampsIncrease
  BY <1>1 DEF TimestampsIncrease
<1>3. \A c \in DOMAIN Counts, i \in 1 .. MaxK : Stream(c, i) = <<>>
  BY <1>1, WriterStreams DEF Stream
<1>4. \A c \in DOMAIN Counts : ~(c < sweep)
  BY <1>1, CountsAssumption
<1>. QED BY <1>1, <1>2, <1>3, <1>4 DEF StreamInv, Running

\* Every step of a workload preserves the invariant of its streams.
LEMMA StepKeepsStreams ==
    ASSUME NEW streams, WriteStreams \subseteq streams, NEW n \in 1 .. 2 * MaxK,
           NEW next \in {"prewarm", "launch"},
           sweep \in DOMAIN Counts, K <= n, CrewInv(n), StreamInv(streams),
           CommonStep(streams, n, next)
    PROVE  StreamInv(streams)'
<1>0. /\ MaxK \in Nat /\ K \in 1 .. MaxK /\ sweep \in Nat /\ \A c \in DOMAIN Counts : c \in Nat
      /\ Writers \subseteq Threads /\ Writers \subseteq 1 .. MaxK
      /\ \A i \in Writers : i <= Counts[sweep]
  <2>1. /\ MaxK \in Nat /\ K \in 1 .. MaxK /\ sweep \in Nat /\ DOMAIN Counts = 1 .. Len(Counts)
        /\ Writers \subseteq Threads /\ Writers \subseteq 1 .. MaxK
    BY Situation
  <2>. QED BY <2>1 DEF Writers, K
<1>u. ASSUME UNCHANGED <<stored, sweep>> PROVE
        /\ TimestampsIncrease' /\ Writers' = Writers /\ stored' \in [streams -> Seq(Nat)]
        /\ \A c \in DOMAIN Counts, i \in 1 .. MaxK : Stream(c, i)' = Stream(c, i)
        /\ \A i \in Writers : Stream(sweep, i)' = Stream(sweep, i)
  BY <1>0, <1>u DEF StreamInv, TimestampsIncrease, Writers, K, Stream
<1>1. CASE Fill(streams)
  <2>1. /\ main \in {"prefill", "prewarm"} /\ UNCHANGED <<main, at, sweep>>
    BY <1>1 DEF Fill
  <2>2. /\ stored' \in [streams -> Seq(Nat)] /\ TimestampsIncrease'
        /\ \A c \in DOMAIN Counts, i \in 1 .. MaxK :
             \/ Stream(c, i)' = Stream(c, i)
             \/ Stream(c, i) = <<>> /\ Stream(c, i)' = <<1>>
    BY <1>1, FilledFrame DEF Stream
  <2>3. \A c \in DOMAIN Counts, i \in 1 .. MaxK :
          /\ Stream(c, i) \in {<<>>, <<1>>} => Stream(c, i)' \in {<<>>, <<1>>}
          /\ Stream(c, i) # <<>> => Stream(c, i)' # <<>>
    BY <2>2
  <2>. QED BY <2>1, <2>2, <2>3 DEF StreamInv, Filling, Running
<1>2. CASE FillEnd
  <2>1. /\ main \in {"prefill", "prewarm"} /\ UNCHANGED <<stored, at, sweep>>
        /\ main' \in {"prewarm", "launch"}
        /\ main' = "launch" => \A i \in Writers : Stream(sweep, i) # <<>>
    BY <1>2 DEF FillEnd
  <2>2. \A i \in 1 .. MaxK : i <= Counts[sweep] => i \in Writers
    BY <1>0 DEF Writers, K
  <2>. QED BY <1>0, <1>u, <2>1, <2>2 DEF StreamInv, Filling, Running
<1>3. CASE (\E kind : MainThrows(kind)) \/ SpawnThrows \/ Rethrow(n)
  <2>1. UNCHANGED <<stored, at, sweep>> /\ main' \in {"threw", "terminated"}
    BY <1>3 DEF MainThrows, SpawnThrows, Rethrow
  <2>. QED BY <1>u, <2>1 DEF StreamInv, Filling, Running
<1>4. CASE Launch(n)
  <2>1. /\ UNCHANGED <<stored, at, sweep>> /\ main = "launch" /\ main' = "spawn"
        /\ \A t \in Threads : pc'[t] = "off"
    BY <1>4 DEF Launch
  <2>2. \A i \in Writers : Stream(sweep, i) = <<1>>
    <3>. SUFFICES ASSUME NEW i \in Writers PROVE Stream(sweep, i) = <<1>>
      OBVIOUS
    <3>1. i \in 1 .. MaxK /\ i <= Counts[sweep]
      BY <1>0
    <3>2. Stream(sweep, i) \in {<<>>, <<1>>}
      BY <2>1, <3>1 DEF StreamInv, Filling
    <3>3. Stream(sweep, i) # <<>>
      BY <2>1, <3>1 DEF StreamInv
    <3>. QED BY <3>2, <3>3
  <2>3. \A i \in Writers : pc'[i] = "off"
    BY <1>0, <2>1
  <2>4. \A i \in Writers : Stream(sweep, i)' = <<1>>
    BY <2>1, <2>2, <1>u
  <2>. QED BY <1>u, <2>1, <2>3, <2>4 DEF StreamInv, Filling, Running
<1>5. CASE Spawn(n)
  <2>1. /\ UNCHANGED <<stored, at, sweep>> /\ Running /\ Running' /\ ~Filling'
        /\ pc' = [pc EXCEPT ![spawned'] = "prepare"] /\ main' # "launch"
    BY <1>5 DEF Spawn, Running, Filling
  <2>2. pc \in [Threads -> ThreadLocations] /\ (spawned' \in Threads => pc[spawned'] = "off")
    BY <1>0, <1>5 DEF Spawn, CrewInv, PlaceInv, Running, Threads
  <2>3. \A i \in Writers : \/ pc'[i] \in {"off", "prepare"} /\ pc[i] = "off"
                           \/ pc'[i] = pc[i]
    BY <1>0, <2>1, <2>2
  <2>. QED BY <1>u, <2>1, <2>3 DEF StreamInv
<1>6. CASE EndWindow
  <2>1. /\ UNCHANGED <<stored, at, sweep, pc>> /\ Running /\ Running' /\ ~Filling'
        /\ main' # "launch"
    BY <1>6 DEF EndWindow, Running, Filling
  <2>. QED BY <1>u, <2>1 DEF StreamInv
<1>7. CASE /\ Collect(n, next)
           /\ main' = "launch" =>
                \A i \in 1 .. Counts[sweep + 1] : Stream(sweep + 1, i) # <<>>
  <2>1. /\ UNCHANGED <<stored, at>> /\ Running /\ ~Running'
        /\ \/ main' = next /\ sweep' = sweep + 1
           \/ main' = "returned" /\ sweep' = sweep
    BY <1>7 DEF Collect, Running
  <2>2. \A c \in DOMAIN Counts :
          c > sweep' \/ (c = sweep' /\ Filling') => c > sweep
    BY <1>0, <2>1 DEF Filling
  <2>3. \A c \in DOMAIN Counts : c < sweep' => c < sweep \/ (c = sweep /\ Running)
    BY <1>0, <2>1
  <2>4. ASSUME main' = "launch", NEW i \in 1 .. MaxK, i <= Counts[sweep']
        PROVE  Stream(sweep', i) # <<>>
    <3>1. sweep' = sweep + 1
      BY <2>1, <2>4
    <3>2. i \in 1 .. Counts[sweep + 1]
      BY <2>4, <3>1
    <3>. QED BY <1>7, <2>4, <3>1, <3>2
  <2>5. \A c \in DOMAIN Counts, i \in 1 .. MaxK : Stream(c, i)' = Stream(c, i)
    BY <2>1 DEF Stream
  <2>6. TimestampsIncrease' /\ stored' \in [streams -> Seq(Nat)] /\ at' \in [Threads -> Nat]
    BY <2>1 DEF StreamInv, TimestampsIncrease
  <2>7. \A c \in DOMAIN Counts, i \in 1 .. MaxK :
          c > sweep' \/ (c = sweep' /\ Filling') => Stream(c, i)' \in {<<>>, <<1>>}
    BY <2>2, <2>5 DEF StreamInv
  <2>8. \A c \in DOMAIN Counts, i \in 1 .. MaxK :
          i <= Counts[c] /\ (c < sweep' \/ (c = sweep' /\ (main' = "launch" \/ Running'))) =>
             Stream(c, i)' # <<>>
    BY <2>1, <2>3, <2>4, <2>5 DEF StreamInv
  <2>. QED BY <2>1, <2>6, <2>7, <2>8 DEF StreamInv
<1>8. ASSUME NEW t \in 1 .. n, WriterStep(t) \/ ReaderMove(t), t \notin Writers => ReaderMove(t),
             t \in Writers => WriterStep(t)
      PROVE  StreamInv(streams)'
  <2>0. /\ UNCHANGED <<main, sweep>> /\ Running /\ Running' /\ ~Filling' /\ main' # "launch"
        /\ t \in Threads /\ pc \in [Threads -> ThreadLocations] /\ Writers' = Writers
    <3>1. UNCHANGED <<main, sweep>> /\ Running /\ ~Filling /\ t \in Threads
      BY <1>8, MoveFacts
    <3>2. pc \in [Threads -> ThreadLocations]
      BY DEF CrewInv, PlaceInv
    <3>. QED BY <3>1, <3>2 DEF Running, Filling, Writers, K
  <2>1. CASE t \notin Writers
    <3>1. /\ stored' = stored /\ at' \in [Threads -> Nat]
          /\ \A i \in Threads : i # t => at'[i] = at[i] /\ pc'[i] = pc[i]
      <4>1. /\ stored' = stored /\ \/ at' = at
                                   \/ \E ts \in Nat : at' = [at EXCEPT ![t] = ts]
            /\ \E loc : pc' = [pc EXCEPT ![t] = loc]
        BY <1>8, <2>1 DEF ReaderMove, Prepare, Arrive, Pass, Turn, StopLoop, Keep, Count, Goto
      <4>. QED BY <2>0, <4>1 DEF StreamInv
    <3>2. \A i \in Writers : at'[i] = at[i] /\ pc'[i] = pc[i]
      BY <1>0, <2>1, <3>1
    <3>. QED BY <1>u, <2>0, <3>1, <3>2 DEF StreamInv
  <2>2. CASE t \in Writers /\ (Arrive(t) \/ Pass(t) \/ Turn(t) \/ StopLoop(t) \/ WriterThrows(t))
    <3>1. UNCHANGED <<stored, at>>
      BY <2>2 DEF Arrive, Pass, Turn, StopLoop, WriterThrows, Keep
    <3>2. PICK loc \in {"waiting", "loop", "busy", "done"} :
            Goto(t, loc) /\ (loc # "done" => pc[t] \in {"start", "waiting", "loop", "busy"})
      BY <2>2 DEF Arrive, Pass, Turn, StopLoop, WriterThrows, Keep
    <3>3. pc'[t] = loc /\ \A i \in Writers : i # t => pc'[i] = pc[i]
      BY <1>0, <2>0, <3>2 DEF Goto
    <3>. QED BY <1>u, <2>0, <3>1, <3>2, <3>3 DEF StreamInv
  <2>3. CASE t \in Writers /\ Prepare(t, 2)
    <3>1. /\ stored' = stored /\ at' = [at EXCEPT ![t] = 2] /\ pc[t] = "prepare"
          /\ pc' = [pc EXCEPT ![t] = "start"]
      BY <2>3 DEF Prepare, Goto
    <3>2. /\ at' \in [Threads -> Nat] /\ at'[t] = 2 /\ pc'[t] = "start"
          /\ \A i \in Writers : i # t => at'[i] = at[i] /\ pc'[i] = pc[i]
      BY <1>0, <2>0, <3>1 DEF StreamInv
    <3>3. Stream(sweep, t) = <<1>>
      BY <2>0, <2>3, <3>1 DEF StreamInv
    <3>4. \A j \in 1 .. Len(Stream(sweep, t)) : Stream(sweep, t)[j] < 2
      BY <3>3
    <3>. QED BY <1>u, <2>0, <3>1, <3>2, <3>4 DEF StreamInv
  <2>4. CASE t \in Writers /\ WriterWrite(t)
    <3>1. /\ stored' \in [streams -> Seq(Nat)]
          /\ TimestampsIncrease'
          /\ at' \in [Threads -> Nat]
          /\ \A i \in Writers : i # t => at'[i] = at[i]
          /\ stored'[WriteStream(Counts[sweep], t)] # <<>>
          /\ \A j \in 1 .. Len(stored'[WriteStream(Counts[sweep], t)]) :
               stored'[WriteStream(Counts[sweep], t)][j] < at'[t]
          /\ \A c \in DOMAIN Counts, i \in 1 .. MaxK :
               ~(c = sweep /\ i = t) => stored'[WriteStream(Counts[c], i)] = Stream(c, i)
      BY <2>4, WrittenFrame DEF K
    <3>2. /\ Stream(sweep, t)' # <<>>
          /\ \A j \in 1 .. Len(Stream(sweep, t)') : Stream(sweep, t)'[j] < at'[t]
          /\ \A c \in DOMAIN Counts, i \in 1 .. MaxK :
               ~(c = sweep /\ i = t) => Stream(c, i)' = Stream(c, i)
      BY <2>0, <3>1 DEF Stream
    <3>3. pc'[t] = "loop" /\ \A i \in Writers : i # t => pc'[i] = pc[i]
      BY <1>0, <2>0, <2>4 DEF WriterWrite, Count, Goto
    <3>4. \A c \in DOMAIN Counts, i \in 1 .. MaxK :
            /\ c > sweep => Stream(c, i)' \in {<<>>, <<1>>}
            /\ i <= Counts[c] /\ (c < sweep \/ c = sweep) => Stream(c, i)' # <<>>
      <4>. SUFFICES ASSUME NEW c \in DOMAIN Counts, NEW i \in 1 .. MaxK
                    PROVE  /\ c > sweep => Stream(c, i)' \in {<<>>, <<1>>}
                           /\ i <= Counts[c] /\ (c < sweep \/ c = sweep) =>
                                Stream(c, i)' # <<>>
        OBVIOUS
      <4>1. CASE c = sweep /\ i = t
        BY <1>0, <2>0, <3>2, <4>1 DEF Stream
      <4>2. CASE ~(c = sweep /\ i = t)
        BY <2>0, <3>2, <4>2 DEF StreamInv
      <4>. QED BY <4>1, <4>2
    <3>5. \A i \in Writers :
            /\ pc'[i] \in {"off", "prepare"} => Stream(sweep, i)' = <<1>>
            /\ pc'[i] \in {"start", "waiting", "loop", "busy"} =>
                 \A j \in 1 .. Len(Stream(sweep, i)') : Stream(sweep, i)'[j] < at'[i]
      <4>. SUFFICES ASSUME NEW i \in Writers
                    PROVE  /\ pc'[i] \in {"off", "prepare"} => Stream(sweep, i)' = <<1>>
                           /\ pc'[i] \in {"start", "waiting", "loop", "busy"} =>
                                \A j \in 1 .. Len(Stream(sweep, i)') :
                                   Stream(sweep, i)'[j] < at'[i]
        OBVIOUS
      <4>1. CASE i = t
        BY <3>2, <3>3, <4>1
      <4>2. CASE i # t
        <5>1. Stream(sweep, i)' = Stream(sweep, i) /\ at'[i] = at[i] /\ pc'[i] = pc[i]
          BY <1>0, <2>0, <3>1, <3>3, <4>2 DEF Stream
        <5>. QED BY <2>0, <5>1 DEF StreamInv
      <4>. QED BY <4>1, <4>2
    <3>. QED BY <2>0, <3>1, <3>4, <3>5 DEF StreamInv
  <2>. QED BY <1>8, <2>1, <2>2, <2>3, <2>4 DEF WriterStep
<1>9. CASE UNCHANGED vars
  BY <1>9, <1>u DEF vars, locals, StreamInv, Running, Filling
<1>10. Writers \subseteq 1 .. n
  BY Situation
<1>. QED
  BY <1>1, <1>2, <1>3, <1>4, <1>5, <1>6, <1>7, <1>8, <1>9, <1>10 DEF CommonStep

------------------------------------------------------------------------------
(* Counts and reports *)

\* A stream holds its pre-warm frame and one frame for each turn its writer has counted.
CountInv ==
    Running => \A i \in Writers : Len(Stream(sweep, i)) = ops[i] + 1

\* There is a report for every sub-experiment that is over. Nobody writes to its streams
\* any more, so its count still is that of their frames.
ReportInv ==
    /\ Len(results) = IF main = "returned" THEN sweep ELSE sweep - 1
    /\ \A i \in DOMAIN results :
         /\ results[i].k = Counts[i]
         /\ results[i].writer_ops = Frames(stored, Counts[i])
         /\ results[i].write_hists # <<>>
         /\ results[i].write_latency = Merge(results[i].write_hists)

\* As long as the streams of earlier sub-experiments are not written, the reports about
\* them stay true.
LEMMA ReportsStayTrue ==
    ASSUME sweep \in DOMAIN Counts, ReportInv, TypeInv, UNCHANGED <<results, sweep>>,
           main # "returned", main' # "returned",
           \A c \in DOMAIN Counts, j \in 1 .. MaxK :
              c < sweep /\ j <= Counts[c] => stored'[WriteStream(Counts[c], j)] = Stream(c, j)
    PROVE  ReportInv'
<1>1. ASSUME NEW i \in DOMAIN results
      PROVE  Frames(stored', Counts[i]) = Frames(stored, Counts[i])
  <2>1. /\ i \in 1 .. sweep - 1 /\ sweep \in Nat
        /\ DOMAIN Counts = 1 .. Len(Counts) /\ Len(Counts) \in Nat /\ MaxK \in Nat
    BY CountsAssumption DEF ReportInv, TypeInv
  <2>2. i \in DOMAIN Counts /\ i < sweep
    BY <2>1
  <2>3. Counts[i] \in 1 .. MaxK
    BY <2>2, CountFacts
  <2>4. \A t \in 1 .. Counts[i] : t \in 1 .. MaxK /\ t <= Counts[i]
    BY <2>1, <2>3
  <2>5. \A t \in 1 .. Counts[i] :
          stored'[WriteStream(Counts[i], t)] = stored[WriteStream(Counts[i], t)]
    BY <2>2, <2>4 DEF Stream
  <2>6. \A t \in 1 .. Counts[i] :
          Len(stored'[WriteStream(Counts[i], t)]) = Len(stored[WriteStream(Counts[i], t)])
    BY <2>5
  <2>. QED BY <2>6, SameFrames
<1>. QED BY <1>1 DEF ReportInv

\* Nothing is counted and nothing reported yet.
LEMMA IdleHasReports ==
    ASSUME NEW first \in {"prefill", "prewarm"}, NEW streams, Idle(first, streams)
    PROVE  CountInv /\ ReportInv
<1>1. main \in {"prefill", "prewarm"} /\ sweep = 1 /\ results = <<>>
  BY DEF Idle
<1>2. Len(results) = 0 /\ DOMAIN results = {}
  BY <1>1
<1>. QED BY <1>1, <1>2 DEF CountInv, ReportInv, Running

\* Every step of a workload preserves both.
LEMMA StepKeepsReports ==
    ASSUME NEW streams, WriteStreams \subseteq streams, NEW n \in 1 .. 2 * MaxK,
           NEW next \in {"prewarm", "launch"},
           sweep \in DOMAIN Counts, K <= n, CrewInv(n), TypeInv, StreamInv(streams),
           CountInv, ReportInv, CommonStep(streams, n, next)
    PROVE  CountInv' /\ ReportInv'
<1>0. /\ MaxK \in Nat /\ K \in 1 .. MaxK /\ sweep \in Nat /\ Writers \subseteq 1 .. n
      /\ Writers \subseteq Threads /\ Writers \subseteq 1 .. MaxK /\ ops \in [Threads -> Nat]
  BY Situation DEF TypeInv
<1>u. ASSUME UNCHANGED <<stored, sweep>>, \A i \in Writers : ops'[i] = ops[i], Running' => Running
      PROVE  CountInv'
  <2>1. Writers' = Writers /\ \A i \in Writers : Stream(sweep, i)' = Stream(sweep, i)
    BY <1>u DEF Writers, K, Stream
  <2>. QED BY <1>u, <2>1 DEF CountInv
<1>r. ASSUME UNCHANGED <<stored, sweep, results>>, main # "returned", main' # "returned"
      PROVE  ReportInv'
  BY <1>r, ReportsStayTrue DEF Stream
<1>1. CASE Fill(streams)
  <2>1. main \in {"prefill", "prewarm"} /\ UNCHANGED <<main, sweep, results>>
    BY <1>1 DEF Fill
  <2>2. \A c \in DOMAIN Counts, i \in 1 .. MaxK :
          \/ stored'[WriteStream(Counts[c], i)] = Stream(c, i)
          \/ Stream(c, i) = <<>>
    BY <1>1, FilledFrame
  <2>3. \A c \in DOMAIN Counts, i \in 1 .. MaxK :
          c < sweep /\ i <= Counts[c] => Stream(c, i) # <<>>
    BY DEF StreamInv
  <2>4. ReportInv'
    BY <2>1, <2>2, <2>3, ReportsStayTrue
  <2>5. CountInv'
    BY <2>1 DEF CountInv, Running
  <2>. QED BY <2>4, <2>5
<1>2. CASE \/ FillEnd \/ (Filling /\ \E kind : MainThrows(kind)) \/ SpawnThrows \/ EndWindow
           \/ Rethrow(n) \/ Spawn(n)
  <2>1. /\ UNCHANGED <<stored, sweep, ops, results>>
        /\ main # "returned" /\ main' # "returned" /\ (Running' => Running)
    BY <1>2 DEF FillEnd, Filling, MainThrows, SpawnThrows, EndWindow, Rethrow, Spawn,
                locals, Running
  <2>. QED BY <2>1, <1>u, <1>r
<1>3. CASE Launch(n)
  <2>1. /\ UNCHANGED <<stored, sweep, results>> /\ main = "launch" /\ main' = "spawn"
        /\ \A t \in Threads : ops'[t] = 0
    BY <1>3 DEF Launch
  <2>2. ASSUME NEW i \in Writers PROVE Len(stored[WriteStream(Counts[sweep], i)]) = ops'[i] + 1
    <3>1. i \in 1 .. MaxK /\ i <= Counts[sweep] /\ ops'[i] = 0
      BY <1>0, <2>1 DEF Writers, K
    <3>2. Stream(sweep, i) \in {<<>>, <<1>>} /\ Stream(sweep, i) # <<>>
      BY <2>1, <3>1 DEF StreamInv, Filling
    <3>3. stored[WriteStream(Counts[sweep], i)] = <<1>>
      BY <3>2 DEF Stream
    <3>. QED BY <3>1, <3>3
  <2>3. Writers' = Writers
    BY <2>1 DEF Writers, K
  <2>4. CountInv'
    BY <2>1, <2>2, <2>3 DEF CountInv, Stream
  <2>. QED BY <2>1, <2>4, <1>r
<1>4. CASE Collect(n, next)
  <2>1. /\ UNCHANGED <<stored, ops>> /\ main = "join" /\ ~Running'
        /\ \/ main' = next /\ sweep' = sweep + 1
           \/ main' = "returned" /\ sweep' = sweep
    BY <1>4 DEF Collect, locals, Running
  <2>2. CountInv'
    BY <2>1 DEF CountInv
  <2>3. PICK r \in Report :
          /\ results' = Append(results, r)
          /\ r.k = K /\ r.writer_ops = Total(ops, Writers)
          /\ r.write_hists # <<>> /\ r.write_latency = Merge(r.write_hists)
    BY <1>0, <1>4, CollectReports
  <2>4. r.writer_ops = Frames(stored, Counts[sweep])
    <3>1. \A t \in 1 .. K : ops[t] = Len(stored[WriteStream(K, t)]) - 1
      <4>. SUFFICES ASSUME NEW t \in 1 .. K
                    PROVE  ops[t] = Len(stored[WriteStream(K, t)]) - 1
        OBVIOUS
      <4>1. Len(stored[WriteStream(K, t)]) = ops[t] + 1
        BY <2>1 DEF CountInv, Running, Writers, Stream, K
      <4>2. ops[t] \in Nat
        BY <1>0 DEF Writers
      <4>. QED BY <4>1, <4>2
    <3>2. Total(ops, 1 .. K) = Frames(stored, K)
      BY <3>1, CountsOfFrames
    <3>. QED BY <2>3, <3>2 DEF Writers, K
  <2>5. /\ results \in Seq(Report) /\ Len(results) = sweep - 1
        /\ DOMAIN results = 1 .. sweep - 1
    BY <1>0, <2>1 DEF ReportInv, TypeInv
  <2>6. /\ Len(results') = sweep
        /\ DOMAIN results' = 1 .. sweep /\ results'[sweep] = r
        /\ \A i \in 1 .. sweep - 1 : results'[i] = results[i]
    BY <1>0, <2>3, <2>5
  <2>7. Len(results') = IF main' = "returned" THEN sweep' ELSE sweep' - 1
    BY <1>0, <2>1, <2>6
  <2>8. ASSUME NEW i \in DOMAIN results'
        PROVE  /\ results'[i].k = Counts[i]
               /\ results'[i].writer_ops = Frames(stored, Counts[i])
               /\ results'[i].write_hists # <<>>
               /\ results'[i].write_latency = Merge(results'[i].write_hists)
    <3>1. CASE i = sweep
      BY <2>3, <2>4, <2>6, <3>1 DEF K
    <3>2. CASE i # sweep
      <4>1. i \in DOMAIN results /\ results'[i] = results[i]
        BY <1>0, <2>5, <2>6, <3>2
      <4>. QED BY <4>1 DEF ReportInv
    <3>. QED BY <3>1, <3>2
  <2>9. ReportInv'
    BY <2>1, <2>7, <2>8 DEF ReportInv
  <2>. QED BY <2>2, <2>9
<1>5. ASSUME NEW t \in 1 .. n, t \notin Writers => ReaderMove(t), t \in Writers => WriterStep(t)
      PROVE  CountInv' /\ ReportInv'
  <2>1. /\ UNCHANGED <<main, sweep, results>> /\ main # "returned"
        /\ (Running' <=> Running) /\ t \in Threads
    BY <1>5, MoveFacts
  <2>2. CASE ~(t \in Writers /\ WriterWrite(t))
    <3>1. /\ stored' = stored
          /\ ops' = ops \/ (t \notin Writers /\ ops' = [ops EXCEPT ![t] = @ + 1])
      BY <1>5, <2>2 DEF WriterStep, ReaderMove, Prepare, Arrive, Pass, Turn, StopLoop, Count,
                        WriterThrows, Keep, locals
    <3>2. \A i \in Writers : ops'[i] = ops[i]
      BY <1>0, <3>1
    <3>. QED BY <2>1, <3>1, <3>2, <1>u, <1>r
  <2>3. CASE t \in Writers /\ WriterWrite(t)
    <3>1. /\ Len(stored'[WriteStream(Counts[sweep], t)]) = Len(Stream(sweep, t)) + 1
          /\ \A c \in DOMAIN Counts, j \in 1 .. MaxK :
               ~(c = sweep /\ j = t) => stored'[WriteStream(Counts[c], j)] = Stream(c, j)
      BY <2>3, WrittenFrame DEF K
    <3>2. ReportInv'
      <4>1. \A c \in DOMAIN Counts, j \in 1 .. MaxK :
              c < sweep => stored'[WriteStream(Counts[c], j)] = Stream(c, j)
        BY <1>0, <3>1
      <4>. QED BY <2>1, <4>1, ReportsStayTrue
    <3>3. /\ ops'[t] = ops[t] + 1 /\ ops[t] \in Nat
          /\ \A i \in Threads : i # t => ops'[i] = ops[i]
      BY <1>0, <2>1, <2>3 DEF WriterWrite, Count
    <3>4. ASSUME Running, NEW i \in Writers
          PROVE  Len(stored'[WriteStream(Counts[sweep], i)]) = ops'[i] + 1
      <4>1. Len(Stream(sweep, i)) = ops[i] + 1
        BY <3>4 DEF CountInv
      <4>2. CASE i = t
        BY <3>1, <3>3, <4>1, <4>2
      <4>3. CASE i # t
        <5>1. Len(stored'[WriteStream(Counts[sweep], i)]) = Len(Stream(sweep, i))
          BY <1>0, <3>1, <4>3
        <5>. QED BY <1>0, <3>3, <4>1, <4>3, <5>1
      <4>. QED BY <4>2, <4>3
    <3>5. CountInv'
      <4>1. Writers' = Writers
        BY <2>1 DEF Writers, K
      <4>. QED BY <2>1, <3>4, <4>1 DEF CountInv, Stream
    <3>. QED BY <3>2, <3>5
  <2>. QED BY <2>2, <2>3
<1>6. CASE UNCHANGED vars
  <2>1. UNCHANGED <<main, sweep, ops, stored, results>>
    BY <1>6 DEF vars, locals
  <2>2. CountInv'
    BY <2>1, <1>u DEF Running
  <2>3. ReportInv'
    BY <2>1 DEF ReportInv
  <2>. QED BY <2>2, <2>3
<1>. QED
  BY <1>0, <1>1, <1>2, <1>3, <1>4, <1>5, <1>6 DEF CommonStep

\* The two properties that a reader knows by name.
LEMMA StreamInvSuffices ==
    ASSUME NEW streams, sweep \in DOMAIN Counts, StreamInv(streams)
    PROVE  StreamsInOrder
<1>1. ASSUME Running, NEW i \in Writers PROVE stored[WriteStream(K, i)] # <<>>
  <2>1. i \in 1 .. MaxK /\ i <= Counts[sweep]
    <3>1. K \in 1 .. MaxK /\ MaxK \in Nat
      BY CountFacts, CountsAssumption DEF K
    <3>. QED BY <3>1 DEF Writers, K
  <2>. QED BY <1>1, <2>1 DEF StreamInv, Stream, K
<1>. QED BY <1>1 DEF StreamInv, StreamsInOrder, WarmBeforeStart, Running

LEMMA ReportInvSuffices == TypeInv /\ ReportInv => ResultsMatchThreads
<1>. SUFFICES ASSUME TypeInv, ReportInv PROVE ResultsMatchThreads
  OBVIOUS
<1>1. DOMAIN results = 1 .. Len(results) /\ \A i \in 1 .. Len(results) : results[i] \in Report
  BY DEF TypeInv
<1>2. OpsAccountForFrames
  <2>1. \A i \in 1 .. Len(results) : results[i].writer_ops = Frames(stored, results[i].k)
    BY <1>1 DEF ReportInv
  <2>. QED BY <2>1, Zenon DEF OpsAccountForFrames, Frames
<1>3. ASSUME NEW i \in 1 .. Len(results)
      PROVE  LET r == results[i]
             IN  /\ Increasing(r.write_latency)
                 /\ r.write_latency.max = Max(ToSet(FlattenSeq(r.write_hists)) \cup {0})
                 /\ \E w \in DOMAIN r.write_hists :
                       Compute(r.write_hists[w]).p95 <= r.write_latency.p50
                 /\ \A w \in DOMAIN r.write_hists : r.write_hists[w] # <<>> =>
                       /\ IsPercentile(r.write_hists[w], 50, Compute(r.write_hists[w]).p50)
                       /\ IsPercentile(r.write_hists[w], 99, Compute(r.write_hists[w]).p99)
  <2>1. /\ results[i] \in Report /\ results[i].write_hists # <<>>
        /\ results[i].write_latency = Merge(results[i].write_hists)
    BY <1>1 DEF ReportInv
  <2>. QED BY <2>1, ReportFacts
<1>4. LongestCallReported
  BY <1>3, Zenon DEF LongestCallReported
<1>5. MedianIsATail
  BY <1>3, Zenon DEF MedianIsATail
<1>. QED BY <1>2, <1>4, <1>5 DEF ResultsMatchThreads

==============================================================================
