------------------------- MODULE MCConcurrentReaders -------------------------
(* Small sweeps for TLC. *)
EXTENDS ConcurrentReaders

\* One reader, then two: two sub-experiments that share the backend and the
\* timestamp counter.
Sweep == <<1, 2>>
OneSubExperiment == <<2>>

==============================================================================
