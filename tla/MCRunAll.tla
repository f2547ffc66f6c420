------------------------------- MODULE MCRunAll -------------------------------
(* Short matrices for TLC. Frames of 40 bytes take 80, and the smallest block   *)
(* takes one of them.                                                           *)
EXTENDS RunAll

CONSTANTS s0, s1

AxisA == 96
AxisB == 180

\* A name that is not registered, then a run whose last frames are not due for a
\* sync_boundary; a pool that is too small for the prefill of random_seek, and one
\* that is not; writers that fill the pool; readers beside a writer, with blocks
\* that are never recycled as when the program is started by hand; a durability
\* that does not fit into 32 bits.
Lists ==
    {<<Cell("unknown", "sustained_write", AxisA), Cell("nanots", "sustained_write", AxisB)>>,
     <<Cell("nanots", "random_seek", AxisA), Cell("nanots", "random_seek", AxisB)>>,
     <<[Cell("nanots", "multi_stream_write", AxisB) EXCEPT !.blocks = 3]>>,
     <<[Cell("nanots", "concurrent_readers", AxisB) EXCEPT !.reclaim = FALSE]>>,
     <<Cell("nanots", "sustained_write", AxisA), Cell("nanots", "sustained_write", Word32)>>}

\* One cell, as the script runs it.
OneWriter == {<<Cell("nanots", "sustained_write", AxisB)>>}

===============================================================================
