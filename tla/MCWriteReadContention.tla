------------------------ MODULE MCWriteReadContention ------------------------
(* Small sweeps for TLC: the second turn has two writers and two readers. *)
EXTENDS WriteReadContention

Sweep == <<1, 2>>
OnePair == <<1>>

==============================================================================
