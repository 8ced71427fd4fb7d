----------------------------- MODULE MCTimeouts -----------------------------
(***************************************************************************)
(* Timeouts with small bounds for TLC.                                     *)
(*                                                                         *)
(* Delays of zero and of two ticks: due at once, and due later than a      *)
(* slack of one tick.  The millisecond to which waits are rounded is three *)
(* ticks, longer than both.  CheckEvery is below the number of timeouts,   *)
(* so that RunTimeout stops in their midst; two scripts, so that timeouts  *)
(* meet a reload.                                                          *)
(***************************************************************************)
EXTENDS Timeouts

=============================================================================
