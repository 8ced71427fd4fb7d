---------------------------- MODULE MCSlowScript ----------------------------
(***************************************************************************)
(* SlowScript with small bounds for TLC.                                   *)
(*                                                                         *)
(* Two containers, so that the script of one calls the other, and two      *)
(* calls or popups: a script and one that it calls or a popup that it      *)
(* opens, with the interrupt callback, which is not counted, between       *)
(* them or on top.                                                         *)
(***************************************************************************)
EXTENDS SlowScript

=============================================================================
