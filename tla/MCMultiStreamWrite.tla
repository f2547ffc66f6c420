------------------------- MODULE MCMultiStreamWrite -------------------------
(* A sweep over one and two writers for TLC. With four turns a median and a 95th *)
(* percentile may differ. *)
EXTENDS MultiStreamWrite

Sweep == <<1, 2>>

\* The faults that reach a catch block after the latch, or the main thread.
CaughtFaults == {"write"}

==============================================================================
