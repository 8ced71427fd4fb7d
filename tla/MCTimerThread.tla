--------------------------- MODULE MCTimerThread ---------------------------
(***************************************************************************)
(* TimerThread with small bounds for TLC.                                  *)
(*                                                                         *)
(* Two timers, so that one is canceled behind the other in the heap; a     *)
(* millisecond of two ticks, so that waits are rounded; timers may come    *)
(* one tick early.                                                         *)
(***************************************************************************)
EXTENDS TimerThread

=============================================================================
