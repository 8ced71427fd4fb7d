--------------------------- MODULE MCEventDispatch ---------------------------
(***************************************************************************)
(* EventDispatch with small bounds for TLC.                                *)
(*                                                                         *)
(* Two panels, so that one is called by the task of the other; two tasks   *)
(* of a low and of the resize priority; four frames hold a task, a message *)
(* in its dialog and a message to another panel on top of it.              *)
(***************************************************************************)
EXTENDS EventDispatch

=============================================================================
