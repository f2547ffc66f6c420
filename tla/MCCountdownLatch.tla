--------------------------- MODULE MCCountdownLatch ---------------------------
(* Three threads and two spurious wake-ups for TLC: the last arriver, a waiter *)
(* it has to wake, and a second one that notify_one would forget.              *)
EXTENDS CountdownLatch

==============================================================================
