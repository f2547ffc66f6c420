---------------------------- MODULE CountdownLatch ----------------------------
(***************************************************************************)
(* CountdownLatch::arrive_and_wait (concurrent_readers.cpp; MswLatch and    *)
(* WrcLatch are the same code under another name): a counter guarded by a   *)
(* mutex, and a condition variable on which all but the last arriver wait.  *)
(*                                                                          *)
(* pc[t] is where thread t stands in arrive_and_wait:                       *)
(*   before    has not entered it                                           *)
(*   locked    holds _mu, the counter not yet decremented                   *)
(*   counted   holds _mu, decremented                                       *)
(*   waiting   blocked in _cv.wait, _mu released                            *)
(*   woken     woken up, queueing for _mu                                   *)
(*   relocked  holds _mu again, the predicate not yet evaluated             *)
(*   leaving   holds _mu, about to return                                   *)
(*   past      returned                                                     *)
(***************************************************************************)
EXTENDS Naturals, FiniteSets

CONSTANTS
    Threads,      \* the threads that call arrive_and_wait, once each
    NoThread,     \* the mutex is free
    MaxSpurious   \* bound: spurious wake-ups of the condition variable

ASSUME ThreadsAssumption ==
    /\ IsFiniteSet(Threads)
    /\ NoThread \notin Threads

ASSUME SpuriousAssumption == MaxSpurious \in Nat

VARIABLES
    pc,
    mu,        \* the holder of _mu
    count,     \* _count
    spurious   \* spurious wake-ups so far

vars == <<pc, mu, count, spurious>>

Locations == {"before", "locked", "counted", "waiting",
              "woken", "relocked", "leaving", "past"}

\* A plausible slip: total_threads counts the main thread as well.
InitForOneMore ==
    /\ pc = [t \in Threads |-> "before"]
    /\ mu = NoThread
    /\ count = Cardinality(Threads) + 1
    /\ spurious = 0

\* The constructor: the workloads build the latch for exactly the number of
\* threads they start.
Init ==
    /\ pc = [t \in Threads |-> "before"]
    /\ mu = NoThread
    /\ count = Cardinality(Threads)
    /\ spurious = 0

Goto(t, loc) == pc' = [pc EXCEPT ![t] = loc]

\* std::unique_lock lk(_mu)
Lock(t) ==
    /\ pc[t] = "before"
    /\ mu = NoThread
    /\ mu' = t
    /\ Goto(t, "locked")
    /\ UNCHANGED <<count, spurious>>

Decrement(t) ==
    /\ pc[t] = "locked"
    /\ count' = count - 1
    /\ Goto(t, "counted")
    /\ UNCHANGED <<mu, spurious>>

\* A plausible slip: a single waiter is notified.
NotifyOne(t) ==
    /\ pc[t] = "counted"
    /\ count = 0
    /\ \/ \E u \in Threads :
            /\ pc[u] = "waiting"
            /\ pc' = [pc EXCEPT ![t] = "leaving", ![u] = "woken"]
       \/ /\ \A u \in Threads : pc[u] # "waiting"
          /\ Goto(t, "leaving")
    /\ UNCHANGED <<mu, count, spurious>>

\* The last arriver wakes everybody up, still holding _mu.
NotifyAll(t) ==
    /\ pc[t] = "counted"
    /\ count = 0
    /\ pc' = [u \in Threads |-> CASE u = t              -> "leaving"
                                  [] pc[u] = "waiting"  -> "woken"
                                  [] OTHER              -> pc[u]]
    /\ UNCHANGED <<mu, count, spurious>>

\* Everybody else: wait() evaluates the predicate first, then releases _mu
\* and blocks in one step.
Wait(t) ==
    /\ pc[t] = "counted"
    /\ count # 0
    /\ mu' = NoThread
    /\ Goto(t, "waiting")
    /\ UNCHANGED <<count, spurious>>

SpuriousWake(t) ==
    /\ pc[t] = "waiting"
    /\ spurious < MaxSpurious
    /\ spurious' = spurious + 1
    /\ Goto(t, "woken")
    /\ UNCHANGED <<mu, count>>

\* A wake-up, spurious or not, has to take _mu again before it does anything.
Relock(t) ==
    /\ pc[t] = "woken"
    /\ mu = NoThread
    /\ mu' = t
    /\ Goto(t, "relocked")
    /\ UNCHANGED <<count, spurious>>

\* A plausible slip: wait() without a predicate, so any wake-up goes through.
TrustWakeUp(t) ==
    /\ pc[t] = "relocked"
    /\ Goto(t, "leaving")
    /\ UNCHANGED <<mu, count, spurious>>

\* The predicate [this]{ return _count == 0; } decides between return and
\* another wait.
Recheck(t) ==
    /\ pc[t] = "relocked"
    /\ \/ /\ count = 0
          /\ Goto(t, "leaving")
          /\ UNCHANGED mu
       \/ /\ count # 0
          /\ Goto(t, "waiting")
          /\ mu' = NoThread
    /\ UNCHANGED <<count, spurious>>

\* ~unique_lock
Unlock(t) ==
    /\ pc[t] = "leaving"
    /\ mu' = NoThread
    /\ Goto(t, "past")
    /\ UNCHANGED <<count, spurious>>

Step(t) == \/ Lock(t) \/ Decrement(t) \/ NotifyAll(t) \/ Wait(t)
           \/ Relock(t) \/ Recheck(t) \/ Unlock(t)

\* All returned: nothing is left to do.
AllPast ==
    /\ \A t \in Threads : pc[t] = "past"
    /\ UNCHANGED vars

Next == \/ \E t \in Threads : Step(t) \/ SpuriousWake(t)
        \/ AllPast

\* The operating system runs every thread that can run; a spurious wake-up is
\* never owed.  Weak fairness is enough because the spurious wake-ups are
\* finitely many, so nobody keeps a thread from the mutex for ever.
Fairness == \A t \in Threads : WF_vars(Step(t))

Spec == Init /\ [][Next]_vars /\ Fairness

------------------------------------------------------------------------------
(* Properties *)

TypeOK ==
    /\ pc \in [Threads -> Locations]
    /\ mu \in Threads \cup {NoThread}
    /\ count \in 0 .. Cardinality(Threads)
    /\ spurious \in 0 .. MaxSpurious

Arrived == {t \in Threads : pc[t] \notin {"before", "locked"}}

HoldsMutex(t) == pc[t] \in {"locked", "counted", "relocked", "leaving"}

\* The condition variable loses no wake-up: once the counter has reached zero
\* a thread can be blocked in _cv.wait only while the last arriver is still
\* between its decrement and its notify_all.
NoLostWakeUp ==
    \A t \in Threads :
        pc[t] = "waiting" /\ count = 0 => \E u \in Threads : pc[u] = "counted"

\* The threads' view of the latch.
Stage == [t \in Threads |-> CASE pc[t] \in {"before", "locked"} -> "before"
                              [] pc[t] = "past"                 -> "past"
                              [] OTHER                          -> "inside"]

Gate == INSTANCE StartGate WITH Crew <- Threads, stage <- Stage

\* The latch is a start gate for Threads: nobody returns from arrive_and_wait
\* before the last thread has entered it, whatever the order of the lock
\* acquisitions and whatever wake-ups are spurious.
ImplementsStartGate == Gate!Spec

\* No thread is left behind: everybody returns from arrive_and_wait.
EveryoneReturns == <>(\A t \in Threads : pc[t] = "past")

==============================================================================
