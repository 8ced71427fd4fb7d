---------------------------- MODULE MCThreadPool ----------------------------
(***************************************************************************)
(* ThreadPool with small bounds for TLC.                                   *)
(*                                                                         *)
(* Three threads: one busy, one asleep and one on its way between them; four*)
(* tasks, so that one waits although all threads were made.                *)
(***************************************************************************)
EXTENDS ThreadPool

=============================================================================
