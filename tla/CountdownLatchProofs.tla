------------------------- MODULE CountdownLatchProofs -------------------------
(***************************************************************************)
(* For any finite set of threads and any number of spurious wake-ups, the  *)
(* latch loses no wake-up and implements StartGate.                        *)
(***************************************************************************)
EXTENDS CountdownLatch, FiniteSetTheorems, TLAPS

\* The threads the counter still counts.
Pending == Threads \ Arrived

\* The counter is the number of threads that have not decremented it.
CountInv == count = Cardinality(Pending)

\* mu names the one thread that stands inside a critical section.
MutexInv == \A t \in Threads : HoldsMutex(t) <=> mu = t

\* Nobody leaves while the counter is positive.
LeavingInv == \A t \in Threads : pc[t] \in {"leaving", "past"} => count = 0

\* The inductive invariant.
LatchInv == TypeOK /\ CountInv /\ MutexInv /\ LeavingInv /\ NoLostWakeUp

\* The pending threads are finitely many, and none of them is left exactly
\* when their number is zero.
LEMMA PendingFinite ==
  ASSUME NEW S, S \subseteq Threads
  PROVE  /\ IsFiniteSet(S)
         /\ Cardinality(S) \in 0 .. Cardinality(Threads)
         /\ Cardinality(S) = 0 <=> S = {}
<1>1. IsFiniteSet(Threads)
  BY ThreadsAssumption
<1>2. IsFiniteSet(S) /\ Cardinality(S) <= Cardinality(Threads)
  BY <1>1, FS_Subset
<1>3. Cardinality(S) \in Nat /\ Cardinality(Threads) \in Nat
  BY <1>1, <1>2, FS_CardinalityType
<1>4. Cardinality(S) = 0 <=> S = {}
  BY <1>2, FS_EmptySet
<1> QED
  BY <1>2, <1>3, <1>4

\* The latch as constructed satisfies the invariant.
LEMMA InitEstablishesLatchInv == Init => LatchInv
<1> SUFFICES ASSUME Init PROVE LatchInv
  OBVIOUS
<1>1. Pending = Threads
  BY DEF Init, Pending, Arrived
<1>2. TypeOK /\ CountInv
  BY <1>1, PendingFinite, SpuriousAssumption DEF Init, TypeOK, CountInv, Locations
<1>3. MutexInv /\ LeavingInv /\ NoLostWakeUp
  BY ThreadsAssumption DEF Init, MutexInv, HoldsMutex, LeavingInv, NoLostWakeUp
<1> QED
  BY <1>2, <1>3 DEF LatchInv

\* Every step of every thread, and every spurious wake-up, preserves it.
LEMMA NextPreservesLatchInv == LatchInv /\ [Next]_vars => LatchInv'
<1> SUFFICES ASSUME LatchInv, [Next]_vars PROVE LatchInv'
  OBVIOUS
<1> USE DEF LatchInv, TypeOK, Locations, HoldsMutex, Goto
<1>1. ASSUME NEW t \in Threads, Lock(t) PROVE LatchInv'
  <2>1. Pending' = Pending
    BY <1>1 DEF Lock, Pending, Arrived
  <2>2. TypeOK' /\ CountInv'
    BY <1>1, <2>1 DEF Lock, CountInv
  <2>3. MutexInv'
    BY <1>1, ThreadsAssumption DEF Lock, MutexInv
  <2>4. LeavingInv' /\ NoLostWakeUp'
    BY <1>1 DEF Lock, LeavingInv, NoLostWakeUp
  <2> QED
    BY <2>2, <2>3, <2>4
<1>2. ASSUME NEW t \in Threads, Decrement(t) PROVE LatchInv'
  <2>1. t \in Pending /\ Pending' = Pending \ {t}
    BY <1>2 DEF Decrement, Pending, Arrived
  <2>2. IsFiniteSet(Pending) /\ Pending # {} /\ Pending \subseteq Threads
    BY <2>1, PendingFinite DEF Pending
  <2>3. count # 0 /\ count' = count - 1 /\ count' \in 0 .. Cardinality(Threads)
    BY <1>2, <2>2, PendingFinite DEF Decrement, CountInv
  <2>4. CountInv'
    BY <1>2, <2>1, <2>2, FS_RemoveElement DEF Decrement, CountInv
  <2>5. TypeOK'
    BY <1>2, <2>3 DEF Decrement
  <2>6. MutexInv'
    BY <1>2 DEF Decrement, MutexInv
  <2>7. LeavingInv'
    BY <1>2, <2>3 DEF Decrement, LeavingInv
  <2>8. NoLostWakeUp'
    BY <1>2 DEF Decrement, NoLostWakeUp
  <2> QED
    BY <2>4, <2>5, <2>6, <2>7, <2>8
<1>3. ASSUME NEW t \in Threads, NotifyAll(t) PROVE LatchInv'
  <2>1. \A u \in Threads : pc'[u] = CASE u = t             -> "leaving"
                                     [] pc[u] = "waiting"  -> "woken"
                                     [] OTHER              -> pc[u]
    BY <1>3 DEF NotifyAll
  <2>2. TypeOK'
    BY <1>3, <2>1 DEF NotifyAll
  <2>3. Pending' = Pending
    BY <1>3, <2>1 DEF NotifyAll, Pending, Arrived
  <2>4. CountInv'
    BY <1>3, <2>3 DEF NotifyAll, CountInv
  <2>5. MutexInv'
    BY <1>3, <2>1 DEF NotifyAll, MutexInv
  <2>6. LeavingInv' /\ NoLostWakeUp'
    BY <1>3, <2>1 DEF NotifyAll, LeavingInv, NoLostWakeUp
  <2> QED
    BY <2>2, <2>4, <2>5, <2>6
<1>4. ASSUME NEW t \in Threads, Wait(t) PROVE LatchInv'
  <2>1. Pending' = Pending
    BY <1>4 DEF Wait, Pending, Arrived
  <2>2. TypeOK' /\ CountInv'
    BY <1>4, <2>1 DEF Wait, CountInv
  <2>3. MutexInv'
    BY <1>4, ThreadsAssumption DEF Wait, MutexInv
  <2>4. LeavingInv' /\ NoLostWakeUp'
    BY <1>4 DEF Wait, LeavingInv, NoLostWakeUp
  <2> QED
    BY <2>2, <2>3, <2>4
<1>5. ASSUME NEW t \in Threads, SpuriousWake(t) PROVE LatchInv'
  <2>1. Pending' = Pending
    BY <1>5 DEF SpuriousWake, Pending, Arrived
  <2>2. TypeOK' /\ CountInv'
    BY <1>5, <2>1, SpuriousAssumption DEF SpuriousWake, CountInv
  <2>3. MutexInv'
    BY <1>5 DEF SpuriousWake, MutexInv
  <2>4. LeavingInv' /\ NoLostWakeUp'
    BY <1>5 DEF SpuriousWake, LeavingInv, NoLostWakeUp
  <2> QED
    BY <2>2, <2>3, <2>4
<1>6. ASSUME NEW t \in Threads, Relock(t) PROVE LatchInv'
  <2>1. Pending' = Pending
    BY <1>6 DEF Relock, Pending, Arrived
  <2>2. TypeOK' /\ CountInv'
    BY <1>6, <2>1 DEF Relock, CountInv
  <2>3. MutexInv'
    BY <1>6, ThreadsAssumption DEF Relock, MutexInv
  <2>4. LeavingInv' /\ NoLostWakeUp'
    BY <1>6 DEF Relock, LeavingInv, NoLostWakeUp
  <2> QED
    BY <2>2, <2>3, <2>4
<1>7. ASSUME NEW t \in Threads, Recheck(t) PROVE LatchInv'
  <2>1. Pending' = Pending
    BY <1>7 DEF Recheck, Pending, Arrived
  <2>2. TypeOK' /\ CountInv'
    BY <1>7, <2>1 DEF Recheck, CountInv
  <2>3. MutexInv'
    BY <1>7, ThreadsAssumption DEF Recheck, MutexInv
  <2>4. LeavingInv' /\ NoLostWakeUp'
    BY <1>7 DEF Recheck, LeavingInv, NoLostWakeUp
  <2> QED
    BY <2>2, <2>3, <2>4
<1>8. ASSUME NEW t \in Threads, Unlock(t) PROVE LatchInv'
  <2>1. Pending' = Pending
    BY <1>8 DEF Unlock, Pending, Arrived
  <2>2. TypeOK' /\ CountInv'
    BY <1>8, <2>1 DEF Unlock, CountInv
  <2>3. MutexInv'
    BY <1>8, ThreadsAssumption DEF Unlock, MutexInv
  <2>4. LeavingInv' /\ NoLostWakeUp'
    BY <1>8 DEF Unlock, LeavingInv, NoLostWakeUp
  <2> QED
    BY <2>2, <2>3, <2>4
<1>9. CASE UNCHANGED vars
  BY <1>9 DEF vars, CountInv, Pending, Arrived, MutexInv, LeavingInv, NoLostWakeUp
<1> QED
  BY <1>1, <1>2, <1>3, <1>4, <1>5, <1>6, <1>7, <1>8, <1>9 DEF Next, Step, AllPast

\* In every behaviour of the latch the inductive invariant holds.
THEOREM LatchInvariance == Spec => []LatchInv
BY InitEstablishesLatchInv, NextPreservesLatchInv, PTL DEF Spec

\* Type correctness of the latch.
THEOREM TypeCorrect == Spec => []TypeOK
BY LatchInvariance, PTL DEF LatchInv

\* No wake-up of the condition variable is lost, for any number of threads.
THEOREM NoWakeUpLost == Spec => []NoLostWakeUp
BY LatchInvariance, PTL DEF LatchInv

------------------------------------------------------------------------------

\* The latch as constructed is a shut gate.
LEMMA InitRefines == Init => Gate!Init
BY DEF Init, Gate!Init, Gate!Shut, Stage

\* Every step of the latch is a step of the gate or leaves it alone: the
\* decrement is the arrival, the unlock the passage.
LEMMA NextRefines == LatchInv /\ [Next]_vars => [Gate!Next]_Stage
<1> SUFFICES ASSUME LatchInv, [Next]_vars PROVE [Gate!Next]_Stage
  OBVIOUS
<1> USE DEF LatchInv, TypeOK, Locations, Goto
<1>1. ASSUME NEW t \in Threads, Decrement(t) PROVE Gate!Arrive(t)
  BY <1>1 DEF Decrement, Gate!Arrive, Stage
<1>2. ASSUME NEW t \in Threads, Unlock(t) PROVE Gate!Pass(t)
  <2>1. count = 0
    BY <1>2 DEF Unlock, LeavingInv
  <2>2. Pending = {}
    BY <2>1, PendingFinite DEF CountInv, Pending
  <2>3. Gate!EveryoneArrived
    BY <2>2 DEF Pending, Arrived, Gate!EveryoneArrived, Stage
  <2>4. Stage[t] = "inside" /\ Stage' = [Stage EXCEPT ![t] = "past"]
    BY <1>2 DEF Unlock, Stage
  <2> QED
    BY <2>3, <2>4 DEF Gate!Pass
<1>3. ASSUME NEW t \in Threads,
             Lock(t) \/ Wait(t) \/ SpuriousWake(t) \/ Relock(t) \/ Recheck(t)
      PROVE  UNCHANGED Stage
  BY <1>3 DEF Lock, Wait, SpuriousWake, Relock, Recheck, Stage
<1>4. ASSUME NEW t \in Threads, NotifyAll(t) PROVE UNCHANGED Stage
  BY <1>4 DEF NotifyAll, Stage
<1>5. CASE UNCHANGED vars
  BY <1>5 DEF vars, Stage
<1> QED
  BY <1>1, <1>2, <1>3, <1>4, <1>5 DEF Next, Step, AllPast, Gate!Next

\* The latch implements the start gate: nobody returns from arrive_and_wait
\* before the last of its threads has entered it.
THEOREM LatchIsAStartGate == Spec => ImplementsStartGate
BY InitRefines, NextRefines, LatchInvariance, PTL
   DEF Spec, ImplementsStartGate, Gate!Spec

==============================================================================
