----------------------------- MODULE MCPanelInput -----------------------------
(***************************************************************************)
(* PanelInput with small bounds for TLC.                                   *)
(*                                                                         *)
(* Six frames hold an event whose dialog runs a paint, an event and a      *)
(* paint that is refused; four changes of the focus, or four repaints that *)
(* something else asks for, fill the queue with both orders.               *)
(***************************************************************************)
EXTENDS PanelInput

=============================================================================
