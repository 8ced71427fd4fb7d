---------------------------- MODULE MCPanelLife ----------------------------
(***************************************************************************)
(* PanelLife with small bounds for TLC.                                    *)
(*                                                                         *)
(* Six frames hold a load, an on_script_unload in its midst (two frames),  *)
(* another load on top of that with the jobs of its WM_SIZE, and one more  *)
(* call; three scripts are the one that runs, one that replaces it from    *)
(* within its load, and one from within on_script_unload or after a        *)
(* failure.                                                                *)
(***************************************************************************)
EXTENDS PanelLife

=============================================================================
