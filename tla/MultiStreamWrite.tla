--------------------------- MODULE MultiStreamWrite ---------------------------
(***************************************************************************)
(* The multi_stream_write workload: for each K the K streams are pre-warmed *)
(* and K writers run.                                                       *)
(***************************************************************************)
EXTENDS SubExperiment

Init == Idle("prewarm", WriteStreams)

PrewarmWrite ==
    /\ main = "prewarm"
    /\ Prewarm({sweep})
    /\ UNCHANGED <<main, sweep, locals, pc, at, results, blown, thrown>>

\* A plausible slip: the last stream is left to its writer.
AlmostWarm == Cold({sweep}) \subseteq {<<sweep, K>>}
AllWarm == Cold({sweep}) = {}

PrewarmEnd ==
    /\ main = "prewarm"
    /\ AllWarm
    /\ main' = "launch"
    /\ UNCHANGED <<sweep, locals, pc, at, stored, results, blown, thrown>>

PrewarmThrows == main = "prewarm" /\ ~AllWarm /\ MainThrows("write")

MainStep == \/ PrewarmWrite \/ PrewarmEnd \/ PrewarmThrows
            \/ Launch(K) \/ Spawn(K) \/ SpawnThrows \/ EndWindow
            \/ Rethrow(K) \/ Collect(K, "prewarm")

Next == \/ MainStep
        \/ \E t \in Writers : WriterStep(t)
        \/ Over

\* Every thread that can run is run, and sleep_for returns.
Fairness == /\ WF_vars(MainStep)
            /\ \A t \in Threads : WF_vars(t \in Writers /\ WriterStep(t))

Spec == Init /\ [][Next]_vars

FairSpec == Spec /\ Fairness

==============================================================================
