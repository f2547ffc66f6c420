------------------------------ MODULE StartGate ------------------------------
(***************************************************************************)
(* What a start latch promises to the threads of one sub-experiment: each  *)
(* of them arrives once, and nobody goes past before the last one arrived. *)
(* CountdownLatch implements it with a mutex, a condition variable and a   *)
(* counter; the workload modules use its two actions as they are.          *)
(* The crew a latch was built for is the domain of stage.                  *)
(***************************************************************************)

CONSTANT Crew   \* the threads the latch of this specification is built for

VARIABLE stage

\* The latch as constructed for the threads in crew.
Shut(crew) == [t \in crew |-> "before"]

EveryoneArrived == \A t \in DOMAIN stage : stage[t] # "before"

Arrive(t) ==
    /\ stage[t] = "before"
    /\ stage' = [stage EXCEPT ![t] = "inside"]

Pass(t) ==
    /\ stage[t] = "inside"
    /\ EveryoneArrived
    /\ stage' = [stage EXCEPT ![t] = "past"]

Init == stage = Shut(Crew)

Next == \E t \in Crew : Arrive(t) \/ Pass(t)

Spec == Init /\ [][Next]_stage

==============================================================================
