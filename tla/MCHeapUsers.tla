---------------------------- MODULE MCHeapUsers ----------------------------
(***************************************************************************)
(* HeapUsers with small bounds for TLC.                                    *)
(*                                                                         *)
(* Three tasks: one that a worker destroys, one whose event waits and one that*)
(* is new; three loads let a promise of the first script meet the third one.*)
(***************************************************************************)
EXTENDS HeapUsers

=============================================================================
